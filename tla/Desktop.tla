------------------------------- MODULE Desktop -------------------------------
(****************************************************************************)
(* The desktop core of shoestring-wm: which windows are on screen, which    *)
(* workspace each belongs to, which are minimized, and who has the          *)
(* keyboard. It composes the WorkspaceManager (workspace.rs), the           *)
(* minimized stack (layout.rs), the window operations of state.rs, input.rs *)
(* and picker.rs, the xdg and X11 map/unmap handlers, the session lock's    *)
(* hold on keyboard focus, the window picker and the edge drag.             *)
(*                                                                          *)
(* Every handler runs to completion on one event loop, so one action is one *)
(* whole handler. What interleaves is the order in which clients, the user, *)
(* the IPC socket and the timers call them.                                 *)
(*                                                                          *)
(* Abstractions: window geometry and the stacking order, pointer            *)
(* positions (the window under the pointer is any mapped one), more than    *)
(* one layer surface at a time, and override-redirect X11 windows.          *)
(****************************************************************************)
EXTENDS Naturals, FiniteSets

CONSTANTS
  Window,       \* every toplevel the run may create, each used once
  X11,          \* those that are X11 windows; the rest are xdg toplevels
  NumWorkspaces,
  None,         \* no window, no keyboard focus
  Layer,        \* keyboard focus target: an exclusive layer surface
  LockSurface,  \* keyboard focus target: a session-lock surface
  Off,          \* no picker, no session lock
  Env           \* which parts of the environment act, a subset of EnvParts

Workspace == 1 .. NumWorkspaces
EnvParts == {"hidden_layout", "hidden_sticky", "late_rule", "x11_rule",
             "drag", "picker", "lock", "layer", "graft"}

ASSUME WorkspacesAssumption == NumWorkspaces \in Nat \ {0}
ASSUME TargetsAssumption ==
         /\ X11 \subseteq Window
         /\ Window \cap {None, Layer, LockSurface, Off} = {}
         /\ None \notin {Layer, LockSurface, Off}
         /\ Layer \notin {LockSurface, Off} /\ LockSurface # Off
ASSUME EnvAssumption == Env \subseteq EnvParts

VARIABLES
  scene,      \* the Space, the WorkspaceManager and the seat's keyboard focus
  minimized,  \* LayoutManager.minimized, a LIFO stack
  sticky,     \* ShoestringWm.sticky
  life,       \* what each window's client has done: new, live, dead
  listed,     \* foreign_toplevels: windows whose handle bars still show
  fresh,      \* xdg windows whose window rules have not been applied
  painted,    \* fresh windows that committed while hidden: they have a size
  layerUp,    \* an exclusive layer surface is mapped
  picker,     \* PendingPicker.saved_focus, or Off
  lock,       \* LockState.saved_focus, or Off
  grab        \* edge_drag_window, the window a move grab drags

vars == <<scene, minimized, sticky, life, listed, fresh, painted, layerUp,
          picker, lock, grab>>
records == <<sticky, life, listed, fresh, painted>>
modes == <<layerUp, picker, lock, grab>>

Focus == Window \cup {None, Layer, LockSurface}

(***************************************************************************)
(* Stacks without duplicates (the MRU stacks, the minimized stack) are the *)
(* total order of their members: <<a, b>> is in the stack when both are    *)
(* members and a is at or above b.                                         *)
(***************************************************************************)
Stack == SUBSET (Window \X Window)
Members(st) == {p[1] : p \in st}
Retain(st, S) == st \cap (S \X S)
Push(st, w) ==
  LET rest == Retain(st, Window \ {w})
  IN  rest \cup ({w} \X (Members(rest) \cup {w}))
Tops(st) == {w \in Members(st) : \A v \in Members(st) : <<w, v>> \in st}
\* Pop until the top is in S.
PopTo(st, S) == {p \in st : \E w \in S : <<w, p[1]>> \in st}

(***************************************************************************)
(* The scene. wsOf[w] is 0 for a window the WorkspaceManager does not      *)
(* track.                                                                  *)
(***************************************************************************)
Scene == [space  : SUBSET Window,
          wsOf   : [Window -> Workspace \cup {0}],
          mru    : [Workspace -> Stack],
          active : Workspace,
          focus  : Focus]

Locked == lock # Off
IsMinimized(w) == w \in Members(minimized)
Live == {w \in Window : life[w] = "live"}
NotDead == {w \in Window : life[w] # "dead"}
Tracked(s) == {w \in Window : s.wsOf[w] # 0}
WindowsOn(s, ws) == {w \in Window : s.wsOf[w] = ws}

\* focused_window: only the elements of the Space are searched.
FocusedWindow(s) == IF s.focus \in s.space THEN s.focus ELSE None

MapElement(s, w) == [s EXCEPT !.space = @ \cup {w}]
UnmapElem(s, w) == [s EXCEPT !.space = @ \ {w}]
AssignOneBased(s, w, ws) == [s EXCEPT !.wsOf[w] = ws + 1]
Assign(s, w, ws) == [s EXCEPT !.wsOf[w] = ws]
Reassign(s, w, ws) == [s EXCEPT !.wsOf[w] = IF @ = 0 THEN 0 ELSE ws]
Forget(s, w) ==
  [s EXCEPT !.wsOf[w] = 0,
            !.mru = [ws \in Workspace |-> Retain(@[ws], Window \ {w})]]
RecordFocus(s, ws, w) == [s EXCEPT !.mru[ws] = Push(@, w)]
RemoveFromFocus(s, ws, w) == [s EXCEPT !.mru[ws] = Retain(@, Window \ {w})]
SetFocus(s, target) == [s EXCEPT !.focus = target]

\* focus_window and focus_window_no_raise: refused while locked.
FocusWindowUnguarded(s, w) == RecordFocus(SetFocus(s, w), s.active, w)
FocusWindow(s, w) ==
  IF Locked THEN s ELSE RecordFocus(SetFocus(s, w), s.active, w)

ClearFocus(s) == IF Locked THEN s ELSE SetFocus(s, None)

\* Hand focus to the active workspace's most recent mapped window.
FocusableUnmapped(s) == NotDead
Focusable(s) == s.space \cap NotDead
FocusMruTop(s) ==
  LET st == PopTo(s.mru[s.active], Focusable(s))
      popped == [s EXCEPT !.mru[s.active] = st]
  IN  IF Tops(st) = {} THEN ClearFocus(popped)
      ELSE FocusWindow(popped, CHOOSE w \in Tops(st) : TRUE)

PruneDead(s) ==
  [s EXCEPT !.wsOf = [w \in Window |-> IF w \in NotDead THEN @[w] ELSE 0],
            !.mru = [ws \in Workspace |-> Retain(@[ws], NotDead)]]

\* Sticky windows stay mapped across a switch.
PinnedNone(s) == {}
Pinned(s) == s.space \cap sticky

FocusWorkspaceId(s, target) ==
  IF s.active = target THEN s
  ELSE LET pruned == PruneDead(s)
           left   == IF FocusedWindow(s) = None THEN pruned
                     ELSE RecordFocus(pruned, s.active, s.focus)
           wsOf   == [w \in Window |->
                        IF w \in Pinned(s) /\ left.wsOf[w] # 0
                        THEN target ELSE left.wsOf[w]]
           shown  == {w \in Window : wsOf[w] = target /\ ~IsMinimized(w)}
       IN  FocusMruTop([left EXCEPT !.active = target,
                                    !.wsOf = wsOf,
                                    !.space = Pinned(s) \cup shown])

(***************************************************************************)
(* Moving a window between workspaces.                                     *)
(***************************************************************************)
\* When the move hides the focused window, focus falls back.
HandOffLate(before, after, w) ==
  IF FocusedWindow(after) = w THEN FocusMruTop(after) ELSE after
HandOff(before, after, w) ==
  IF FocusedWindow(before) = w THEN FocusMruTop(after) ELSE after

MoveWindowToWorkspace(s, stuck, w, target) ==
  IF target = s.active \/ w \in stuck THEN s
  ELSE LET filed == RemoveFromFocus(
                      RecordFocus(Reassign(s, w, target), target, w),
                      s.active, w)
       IN  HandOff(s, UnmapElem(filed, w), w)

\* The edge drag: the active workspace follows the window.
MoveWindowFollowing(s, w, target) ==
  IF target = s.active THEN s
  ELSE FocusWorkspaceId(
         ClearFocus(
           RemoveFromFocus(
             RecordFocus(Reassign(s, w, target), target, w), s.active, w)),
         target)

----------------------------------------------------------------------------
Init ==
  /\ scene = [space |-> {}, wsOf |-> [w \in Window |-> 0],
              mru |-> [ws \in Workspace |-> {}], active |-> 1, focus |-> None]
  /\ minimized = {} /\ sticky = {} /\ listed = {}
  /\ fresh = {} /\ painted = {}
  /\ life = [w \in Window |-> "new"]
  /\ layerUp = FALSE /\ picker = Off /\ lock = Off /\ grab = None

(***************************************************************************)
(* Clients map and unmap windows.                                          *)
(***************************************************************************)
NewToplevel(w) ==
  /\ life[w] = "new" /\ w \notin X11
  /\ life' = [life EXCEPT ![w] = "live"]
  /\ listed' = listed \cup {w}
  /\ fresh' = fresh \cup {w}
  /\ scene' = FocusWindow(Assign(MapElement(scene, w), w, scene.active), w)
  /\ UNCHANGED <<minimized, sticky, painted, modes>>

\* find_window looks in the Space and among the tracked windows.
Found(w) == w \in scene.space \/ scene.wsOf[w] # 0

ForgetWindow(w) ==
  /\ scene' = Forget(UnmapElem(scene, w), w)
  /\ minimized' = Retain(minimized, Window \ {w})
  /\ sticky' = sticky \ {w}
  /\ listed' = listed \ {w}
  /\ fresh' = fresh \ {w}
  /\ painted' = painted \ {w}

ToplevelDestroyed(w) ==
  /\ life[w] = "live" /\ w \notin X11
  /\ life' = [life EXCEPT ![w] = "dead"]
  /\ IF Found(w) THEN ForgetWindow(w)
     ELSE UNCHANGED <<scene, minimized, sticky, listed, fresh, painted>>
  /\ UNCHANGED <<modes>>

\* A commit that finds the window outside the Space applies no rule.
HiddenCommit(w) ==
  /\ "late_rule" \in Env
  /\ w \in (fresh \cap Live) \ scene.space
  /\ painted' = painted \cup {w}
  /\ UNCHANGED <<scene, minimized, sticky, life, listed, fresh, modes>>

\* A window rule may stick the window and send it to a workspace (0: the rule
\* names none).
ApplyRuleMoveFirst(s, w, stick, target) ==
  IF target = 0 THEN s ELSE MoveWindowToWorkspace(s, sticky, w, target)
ApplyRule(s, w, stick, target) ==
  LET stuck == IF stick /\ w \notin sticky THEN Reassign(s, w, s.active) ELSE s
  IN  IF target = 0 THEN stuck
      ELSE MoveWindowToWorkspace(
             stuck, IF stick THEN sticky \cup {w} ELSE sticky, w, target)

\* The first commit of a mapped xdg window applies its rule; if the window has
\* a size by then, and the rule did not place it, it is centered: mapped again.
FirstCommit(w, stick, target, placed) ==
  /\ w \in fresh \cap Live \cap scene.space
  /\ fresh' = fresh \ {w}
  /\ painted' = painted \ {w}
  /\ sticky' = IF stick THEN sticky \cup {w} ELSE sticky
  /\ LET ruled == ApplyRule(scene, w, stick, target)
     IN  scene' = IF w \in painted /\ ~placed THEN MapElement(ruled, w)
                  ELSE ruled
  /\ UNCHANGED <<minimized, life, listed, modes>>

\* An X11 window's rule is applied as it maps, and then it is focused.
X11MapRequest(w, stick, target) ==
  /\ life[w] = "new" /\ w \in X11
  /\ target = 0 \/ "x11_rule" \in Env
  /\ life' = [life EXCEPT ![w] = "live"]
  /\ listed' = listed \cup {w}
  /\ sticky' = IF stick THEN sticky \cup {w} ELSE sticky
  /\ LET mapped == Assign(MapElement(scene, w), w, scene.active)
     IN  scene' = FocusWindow(ApplyRule(mapped, w, stick, target), w)
  /\ UNCHANGED <<minimized, fresh, painted, modes>>

\* An X11 window that closes is looked for in the Space only.
X11Unmapped(w) ==
  /\ life[w] = "live" /\ w \in X11
  /\ life' = [life EXCEPT ![w] = "dead"]
  /\ IF w \in scene.space THEN ForgetWindow(w)
     ELSE UNCHANGED <<scene, minimized, sticky, listed, fresh, painted>>
  /\ UNCHANGED <<modes>>

\* The X server is gone and every X11 window with it. Those in the Space and
\* those the WorkspaceManager tracks are forgotten.
XwmDisconnected ==
  LET gone  == X11 \cap Live
      swept == X11 \cap (scene.space \cup Tracked(scene))
      kept  == Window \ swept
  IN  /\ gone \cup swept # {}
      /\ life' = [w \in Window |-> IF w \in gone THEN "dead" ELSE life[w]]
      /\ scene' = [scene EXCEPT
                     !.space = @ \ swept,
                     !.wsOf = [w \in Window |->
                                 IF w \in swept THEN 0 ELSE @[w]],
                     !.mru = [ws \in Workspace |-> Retain(@[ws], kept)]]
      /\ minimized' = Retain(minimized, kept)
      /\ sticky' = sticky \ swept
      /\ listed' = listed \ swept
      /\ UNCHANGED <<fresh, painted, modes>>

\* Space::refresh drops the elements whose surface is gone.
RefreshSpace ==
  /\ scene.space \ Live # {}
  /\ scene' = [scene EXCEPT !.space = @ \cap Live]
  /\ UNCHANGED <<minimized, records, modes>>

(***************************************************************************)
(* Keyboard focus.                                                         *)
(***************************************************************************)
KeepRest == UNCHANGED <<minimized, records, modes>>

ClickWindow(w) ==
  /\ ~Locked /\ picker = Off /\ grab = None
  /\ w \in scene.space
  /\ scene' = FocusWindow(scene, w)
  /\ KeepRest

ClickDesktop ==
  /\ ~Locked /\ picker = Off /\ grab = None
  /\ scene' = ClearFocus(scene)
  /\ KeepRest

\* Focus follows mouse. Hover leaves a focus that is not a mapped window
\* alone: it takes it for a layer surface.
Hover(target) ==
  /\ ~Locked /\ picker = Off /\ grab = None
  /\ FocusedWindow(scene) # None \/ scene.focus = None
  /\ target \in (scene.space \cup {None}) \ {FocusedWindow(scene)}
  /\ scene' = IF target = None THEN ClearFocus(scene)
              ELSE FocusWindow(scene, target)
  /\ KeepRest

\* The bottom-most mapped window that is not focused. The stacking order is
\* not modelled: any such window may be the bottom-most.
CycleWindows(w) ==
  /\ Cardinality(scene.space) >= 2
  /\ w \in scene.space \ {FocusedWindow(scene)}
  /\ scene' = FocusWindow(scene, w)
  /\ KeepRest

\* An X11 client's maximize and fullscreen requests focus the window first.
X11LayoutRequest(w) ==
  /\ w \in scene.space \cap X11
  /\ scene' = FocusWindow(scene, w)
  /\ KeepRest

\* An exclusive layer surface takes the keyboard on every commit.
LayerCommit ==
  /\ "layer" \in Env
  /\ layerUp' = TRUE
  /\ scene' = IF Locked THEN scene ELSE SetFocus(scene, Layer)
  /\ UNCHANGED <<minimized, records, picker, lock, grab>>

LayerDestroyed ==
  /\ layerUp
  /\ layerUp' = FALSE
  /\ scene' = IF scene.focus = Layer THEN FocusMruTop(scene) ELSE scene
  /\ UNCHANGED <<minimized, records, picker, lock, grab>>

\* inject_input_to_window pins the keyboard to any listed window.
GraftKeyUnguarded(w) ==
  /\ "graft" \in Env
  /\ w \in listed
  /\ scene' = SetFocus(scene, w)
  /\ KeepRest
GraftKey(w) ==
  /\ "graft" \in Env /\ ~Locked
  /\ w \in listed
  /\ scene' = SetFocus(scene, w)
  /\ KeepRest

(***************************************************************************)
(* Minimizing. The window leaves the Space before focused_window, which    *)
(* searches the Space, is compared with it; so the comparison fails and    *)
(* keyboard focus is never surrendered here.                               *)
(***************************************************************************)
MinimizeTracked(w) ==
  /\ ~IsMinimized(w)
  /\ scene' = UnmapElem(scene, w)
  /\ minimized' = Push(minimized, w)
  /\ UNCHANGED <<records, modes>>
Minimize(w) ==
  /\ ~IsMinimized(w)
  /\ LET hidden == Forget(UnmapElem(scene, w), w)
     IN  scene' = IF FocusedWindow(hidden) = w THEN ClearFocus(hidden)
                  ELSE hidden
  /\ minimized' = Push(minimized, w)
  /\ UNCHANGED <<records, modes>>

\* Taskbars and IPC name any listed window; the key takes the focused one.
MinimizeWindow(w) == w \in listed /\ Minimize(w)
MinimizeFocused == \E w \in scene.space \cap {scene.focus} : Minimize(w)

Restore(s, w) == FocusWindow(Assign(MapElement(s, w), w, s.active), w)

UnminimizeWindow(w) ==
  /\ IsMinimized(w)
  /\ w \in listed
  /\ minimized' = Retain(minimized, Window \ {w})
  /\ scene' = Restore(scene, w)
  /\ UNCHANGED <<records, modes>>

\* pop_live_minimized: dead windows above the newest live one are dropped.
UnminimizeLast ==
  /\ minimized # {}
  /\ LET live == PopTo(minimized, Live)
     IN  \/ /\ live = {}
            /\ minimized' = {}
            /\ UNCHANGED scene
         \/ \E w \in Tops(live) :
              /\ minimized' = Retain(live, Window \ {w})
              /\ scene' = Restore(scene, w)
  /\ UNCHANGED <<records, modes>>

ActivateWindow(w) ==
  /\ w \in listed
  /\ minimized' = Retain(minimized, Window \ {w})
  /\ LET mapped == IF IsMinimized(w)
                   THEN Assign(MapElement(scene, w), w, scene.active)
                   ELSE scene
         there  == IF mapped.wsOf[w] = 0 THEN mapped
                   ELSE FocusWorkspaceId(mapped, mapped.wsOf[w])
     IN  scene' = FocusWindow(there, w)
  /\ UNCHANGED <<records, modes>>

(***************************************************************************)
(* Workspaces. No path to focus_workspace_id checks the session lock.      *)
(***************************************************************************)
FocusWorkspace(target) ==
  /\ target # scene.active
  /\ scene' = FocusWorkspaceId(scene, target)
  /\ KeepRest

\* The move key: the view follows the focused window to its workspace.
MoveFocused(target) ==
  /\ scene.focus \in scene.space
  /\ scene' = FocusWorkspaceId(
                MoveWindowToWorkspace(scene, sticky, scene.focus, target),
                target)
  /\ KeepRest

\* The by-id request: the window may live on any workspace.
PlaceOut(s, w, from, target) ==
  IF from = s.active THEN UnmapElem(s, w) ELSE s
Place(s, w, from, target) ==
  IF target = s.active THEN MapElement(s, w)
  ELSE IF from = s.active THEN UnmapElem(s, w)
  ELSE s

MoveWindowById(w, target) ==
  /\ w \in listed \ sticky
  /\ ~IsMinimized(w)
  /\ scene.wsOf[w] \notin {0, target}
  /\ LET current == scene.wsOf[w]
         filed == RemoveFromFocus(
                    RecordFocus(Reassign(scene, w, target), target, w),
                    current, w)
         placed == Place(filed, w, current, target)
     IN  scene' = IF target = scene.active THEN placed
                  ELSE HandOff(scene, placed, w)
  /\ KeepRest

SetSticky(w, on) ==
  /\ w \in listed
  /\ on # (w \in sticky)
  /\ w \in scene.space \/ IsMinimized(w) \/ "hidden_sticky" \in Env
  /\ sticky' = IF on THEN sticky \cup {w} ELSE sticky \ {w}
  /\ scene' = Reassign(scene, w, scene.active)
  /\ UNCHANGED <<minimized, life, listed, fresh, painted, modes>>

(***************************************************************************)
(* Maximize, fullscreen and tile requests end in apply_geometry, which     *)
(* maps the window whatever workspace it is on. A taskbar's or an IPC      *)
(* request names any listed window, the client's own any one find_window   *)
(* finds.                                                                  *)
(***************************************************************************)
LayoutRequest(w) ==
  /\ w \in listed
  /\ w \in scene.space \/ "hidden_layout" \in Env
  /\ scene' = MapElement(scene, w)
  /\ KeepRest

(***************************************************************************)
(* The Super+drag move grab. It outlives the window's place on screen: a   *)
(* motion maps the dragged window again.                                   *)
(***************************************************************************)
StartDrag(w) ==
  /\ "drag" \in Env
  /\ ~Locked /\ picker = Off /\ grab = None
  /\ w \in scene.space
  /\ grab' = w
  /\ scene' = SetFocus(scene, w)
  /\ UNCHANGED <<minimized, records, layerUp, picker, lock>>

DragMotion ==
  /\ grab # None
  /\ scene' = MapElement(scene, grab)
  /\ KeepRest

\* One edge crossing: a motion that maps the window first, or the repeat
\* timer, which does not.
DragAcross(target, moved) ==
  /\ grab # None
  /\ target \in Workspace \cap {scene.active - 1, scene.active + 1}
  /\ scene' = MoveWindowFollowing(
                IF moved THEN MapElement(scene, grab) ELSE scene, grab, target)
  /\ KeepRest

EndDrag ==
  /\ grab # None
  /\ grab' = None
  /\ UNCHANGED <<scene, minimized, records, layerUp,
                 picker, lock>>

(***************************************************************************)
(* The window picker takes the keyboard away and gives it back.            *)
(***************************************************************************)
StartPickerUnguarded ==
  /\ "picker" \in Env
  /\ picker = Off
  /\ picker' = scene.focus
  /\ scene' = SetFocus(scene, None)
  /\ UNCHANGED <<minimized, records, layerUp, lock, grab>>
StartPicker ==
  /\ "picker" \in Env
  /\ picker = Off /\ ~Locked
  /\ picker' = scene.focus
  /\ scene' = SetFocus(scene, None)
  /\ UNCHANGED <<minimized, records, layerUp, lock, grab>>

PickerDone(s) ==
  IF picker = Off \/ Locked THEN s ELSE SetFocus(s, picker)

\* A click, Escape, or the picker's IPC client going away.
FinishPicker ==
  /\ picker # Off
  /\ picker' = Off
  /\ scene' = PickerDone(scene)
  /\ UNCHANGED <<minimized, records, layerUp, lock, grab>>

(***************************************************************************)
(* The session lock. lock() resolves a running picker before it sets       *)
(* lock_session, so the picker's own check still finds the session open.   *)
(***************************************************************************)
LockSession ==
  /\ "lock" \in Env
  /\ ~Locked
  /\ lock' = scene.focus
  /\ scene' = PickerDone(SetFocus(scene, None))
  /\ picker' = Off
  /\ UNCHANGED <<minimized, records, layerUp, grab>>

NewLockSurface ==
  /\ Locked
  /\ scene' = SetFocus(scene, LockSurface)
  /\ KeepRest

UnlockSession ==
  /\ Locked
  /\ lock' = Off
  /\ scene' = IF lock = None THEN scene ELSE SetFocus(scene, lock)
  /\ UNCHANGED <<minimized, records, layerUp, picker, grab>>

----------------------------------------------------------------------------
ClientStep ==
  \/ XwmDisconnected
  \/ \E w \in Window :
       \/ NewToplevel(w) \/ ToplevelDestroyed(w)
       \/ X11Unmapped(w) \/ HiddenCommit(w)
       \/ LayoutRequest(w) \/ X11LayoutRequest(w)
       \/ \E stick \in BOOLEAN, target \in Workspace \cup {0} :
            \/ X11MapRequest(w, stick, target)
            \/ \E placed \in BOOLEAN : FirstCommit(w, stick, target, placed)

FocusStep ==
  \/ ClickDesktop
  \/ Hover(None)
  \/ \E w \in Window :
       ClickWindow(w) \/ Hover(w) \/ CycleWindows(w) \/ GraftKey(w)
  \/ LayerCommit \/ LayerDestroyed

WindowStep ==
  \/ MinimizeFocused \/ UnminimizeLast
  \/ \E w \in Window :
       \/ MinimizeWindow(w) \/ UnminimizeWindow(w) \/ ActivateWindow(w)
       \/ \E on \in BOOLEAN : SetSticky(w, on)
       \/ \E target \in Workspace : MoveWindowById(w, target)
  \/ \E target \in Workspace : FocusWorkspace(target) \/ MoveFocused(target)

GestureStep ==
  \/ \E w \in Window : StartDrag(w)
  \/ DragMotion \/ EndDrag
  \/ \E target \in Workspace, moved \in BOOLEAN : DragAcross(target, moved)

SessionStep ==
  \/ StartPicker \/ FinishPicker
  \/ LockSession \/ NewLockSurface \/ UnlockSession

Next ==
  \/ ClientStep \/ FocusStep \/ WindowStep
  \/ GestureStep \/ SessionStep \/ RefreshSpace

Spec == Init /\ [][Next]_vars

----------------------------------------------------------------------------
(***************************************************************************)
(* Properties.                                                             *)
(***************************************************************************)

\* Every variable keeps its type: in particular keyboard focus is always one
\* of the targets the seat can hold, and a window has at most one workspace.
TypeOK ==
  /\ scene \in Scene
  /\ minimized \in Stack
  /\ sticky \subseteq Window
  /\ life \in [Window -> {"new", "live", "dead"}]
  /\ listed \subseteq Window
  /\ fresh \subseteq Window
  /\ painted \subseteq Window
  /\ layerUp \in BOOLEAN
  /\ picker \in Focus \cup {Off}
  /\ lock \in Focus \cup {Off}
  /\ grab \in Window \cup {None}

\* No window is lost: whatever order clients, keys, taskbars and IPC call the
\* handlers in, an open window has a workspace or is on the minimized stack,
\* and never both, so some switch or restore brings it back.
NoWindowLost ==
  \A w \in Live : (scene.wsOf[w] # 0) # IsMinimized(w)

\* A workspace switch repairs the scene: afterwards every window of the new
\* workspace is on screen, nothing else is but sticky windows, and no sticky
\* window that was on screen has left it (focus_workspace_id).
SwitchRestoresScene ==
  [][scene'.active # scene.active =>
       LET open == {w \in Window : life[w] = "live" /\ life'[w] = "live"}
       IN  \A w \in open :
             /\ scene'.wsOf[w] = scene'.active => w \in scene'.space
             /\ w \in scene'.space =>
                  scene'.wsOf[w] = scene'.active \/ w \in sticky
             /\ w \in scene.space \cap sticky => w \in scene'.space]_vars

\* A switch hands the keyboard over: if it ends on an open window, that
\* window is on screen (the MRU pop in focus_workspace_id skips hidden ones).
SwitchFocusesVisible ==
  [][scene'.active # scene.active /\ ~Locked =>
       (scene'.focus \in Live => scene'.focus \in scene'.space)]_vars

\* Once the session is locked nobody but a lock surface takes the keyboard:
\* not a window that maps, a click, a layer surface, a switch, a graft or the
\* picker's end (the guards of focus_window, clear_focus and the others).
LockKeepsFocus ==
  [][Locked /\ lock' # Off => scene'.focus \in {scene.focus, LockSurface}]_vars

\* A picker never survives into a locked session, where its end would trample
\* the lock surface's focus (session_lock.rs:114, picker.rs:62).
PickerEndsAtLock == Locked => picker = Off

\* While the session is locked, only a lock surface holds the keyboard
\* (state.rs:1342).
LockedFocus == Locked => scene.focus \in {None, LockSurface}

\* The windows mapped in the Space are exactly the windows of the active
\* workspace (docs/architecture.md, section 5).
ActiveSceneExact ==
  scene.space \cap Live = WindowsOn(scene, scene.active) \cap Live

\* A sticky window that is not minimized belongs to the active workspace and
\* is on screen, whichever workspace that is (state.rs:1515).
StickyEverywhere ==
  \A w \in (sticky \cap Live) \ Members(minimized) :
    scene.wsOf[w] = scene.active /\ w \in scene.space

\* The keyboard rests on no open window of another workspace.
FocusOnActive ==
  scene.focus \in Live => scene.wsOf[scene.focus] \in {0, scene.active}

\* No unlocked step leaves the keyboard on a window of another workspace, be it
\* a move, a rule, a switch or a restore. Unlocking may: it gives the keyboard
\* back to the window that had it, wherever that has gone meanwhile.
FocusStaysOnActive ==
  [][FocusOnActive /\ ~Locked /\ lock' = Off => FocusOnActive']_vars

\* A window that is minimized while it has the keyboard surrenders it
\* (input.rs:483, state.rs:1594).
MinimizeSurrendersFocus ==
  [][\A w \in scene.space :
       Minimize(w) /\ scene.focus = w /\ ~Locked => scene'.focus # w]_vars
=============================================================================
