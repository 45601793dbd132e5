---------------------------- MODULE DesktopProofs ----------------------------
(****************************************************************************)
(* Theorems about Desktop, for any windows, number of workspaces and        *)
(* environment.                                                             *)
(****************************************************************************)
EXTENDS Desktop, TLAPS

(***************************************************************************)
(* Stacks.                                                                 *)
(***************************************************************************)
\* Every member of a stack is at or above itself.
Reflexive(st) == \A w \in Members(st) : <<w, w>> \in st

\* The members of a stack are the first components of its pairs.
LEMMA MembersStack ==
  ASSUME NEW st \in Stack
  PROVE  /\ Members(st) \subseteq Window
         /\ \A w : w \in Members(st) <=> \E v \in Window : <<w, v>> \in st
<1>1. \A p \in st : p[1] \in Window /\ p[2] \in Window /\ p = <<p[1], p[2]>>
  BY DEF Stack
<1>2. Members(st) \subseteq Window
  BY <1>1 DEF Members
<1>3. ASSUME NEW w \in Members(st)
      PROVE  \E v \in Window : <<w, v>> \in st
  <2>1. PICK p \in st : w = p[1]
    BY DEF Members
  <2>2. <<w, p[2]>> \in st /\ p[2] \in Window
    BY <1>1, <2>1
  <2>3. QED
    BY <2>2
<1>4. ASSUME NEW w, NEW v \in Window, <<w, v>> \in st
      PROVE  w \in Members(st)
  <2>1. <<w, v>>[1] = w
    OBVIOUS
  <2>2. QED
    BY <1>4, <2>1 DEF Members
<1>5. QED
  BY <1>2, <1>3, <1>4

\* Retaining the windows of S keeps exactly the members in S.
LEMMA RetainStack ==
  ASSUME NEW st \in Stack, NEW S
  PROVE  /\ Retain(st, S) \in Stack
         /\ Members(Retain(st, S)) \subseteq Members(st) \cap S
         /\ Reflexive(st) => /\ Reflexive(Retain(st, S))
                             /\ Members(Retain(st, S)) = Members(st) \cap S
<1> DEFINE R == Retain(st, S)
<1>1. R \in Stack
  BY DEF Stack, Retain
<1>2. \A w, v : <<w, v>> \in R <=> <<w, v>> \in st /\ w \in S /\ v \in S
  BY DEF Retain
<1> HIDE DEF R
<1>3. Members(R) \subseteq Members(st) \cap S
  BY <1>1, <1>2, MembersStack
<1>4. ASSUME Reflexive(st)
      PROVE  Reflexive(R) /\ Members(st) \cap S \subseteq Members(R)
  <2>1. ASSUME NEW w \in Members(st) \cap S
        PROVE  <<w, w>> \in R /\ w \in Window
    BY <1>2, <1>4, MembersStack DEF Reflexive
  <2>2. Members(st) \cap S \subseteq Members(R)
    BY <1>1, <2>1, MembersStack
  <2>3. Reflexive(R)
    BY <1>3, <2>1 DEF Reflexive
  <2>4. QED
    BY <2>2, <2>3
<1>5. QED
  BY <1>1, <1>3, <1>4 DEF R

\* Pushing a window adds it to the members.
LEMMA PushStack ==
  ASSUME NEW st \in Stack, NEW w \in Window
  PROVE  /\ Push(st, w) \in Stack
         /\ Reflexive(st) => /\ Reflexive(Push(st, w))
                             /\ Members(Push(st, w)) = Members(st) \cup {w}
<1> DEFINE R == Retain(st, Window \ {w})
           P == Push(st, w)
<1>1. /\ R \in Stack
      /\ Members(R) \subseteq Members(st)
      /\ Reflexive(st) => /\ Reflexive(R)
                          /\ Members(R) = Members(st) \cap (Window \ {w})
  BY RetainStack
<1> HIDE DEF R
<1>2. Members(R) \subseteq Window
  BY <1>1, MembersStack
<1>3. P = R \cup ({w} \X (Members(R) \cup {w}))
  BY DEF Push, R
<1>4. P \in Stack
  BY <1>1, <1>2, <1>3 DEF Stack
<1>5. \A u, v : <<u, v>> \in P <=>
                  <<u, v>> \in R \/ (u = w /\ v \in Members(R) \cup {w})
  BY <1>3
<1> HIDE DEF P
<1>6. Members(P) = Members(R) \cup {w}
  <2>1. ASSUME NEW u \in Members(P)
        PROVE  u \in Members(R) \cup {w}
    <3>1. PICK v \in Window : <<u, v>> \in P
      BY <1>4, MembersStack
    <3>2. QED
      BY <1>1, <1>5, <3>1, MembersStack
  <2>2. ASSUME NEW u \in Members(R)
        PROVE  u \in Members(P)
    <3>1. PICK v \in Window : <<u, v>> \in R
      BY <1>1, MembersStack
    <3>2. QED
      BY <1>4, <1>5, <3>1, MembersStack
  <2>3. w \in Members(P)
    BY <1>4, <1>5, MembersStack
  <2>4. QED
    BY <2>1, <2>2, <2>3
<1>7. ASSUME Reflexive(st)
      PROVE  Reflexive(P) /\ Members(P) = Members(st) \cup {w}
  <2>1. Reflexive(P)
    BY <1>1, <1>5, <1>6, <1>7 DEF Reflexive
  <2>2. Members(P) = Members(st) \cup {w}
    BY <1>1, <1>6, <1>7, MembersStack
  <2>3. QED
    BY <2>1, <2>2
<1>8. QED
  BY <1>4, <1>7 DEF P

\* Popping until a window of S is on top loses no member in S.
LEMMA PopToStack ==
  ASSUME NEW st \in Stack, NEW S
  PROVE  /\ PopTo(st, S) \in Stack
         /\ Members(PopTo(st, S)) \subseteq Members(st)
         /\ Reflexive(st) => /\ Reflexive(PopTo(st, S))
                             /\ Members(st) \cap S \subseteq Members(PopTo(st, S))
<1> DEFINE P == PopTo(st, S)
<1>1. P \in Stack
  BY DEF PopTo, Stack
<1>2. ASSUME NEW u, NEW v
      PROVE  <<u, v>> \in P <=> <<u, v>> \in st /\ \E w \in S : <<w, u>> \in st
  BY DEF PopTo
<1> HIDE DEF P
<1>3. ASSUME NEW u \in Members(P)
      PROVE  u \in Members(st)
  <2>1. PICK v \in Window : <<u, v>> \in P
    BY <1>1, MembersStack
  <2>2. QED
    BY <1>2, <2>1, MembersStack
<1>4. ASSUME Reflexive(st)
      PROVE  Reflexive(P) /\ Members(st) \cap S \subseteq Members(P)
  <2>1. ASSUME NEW w \in Members(st) \cap S
        PROVE  w \in Members(P)
    <3>1. <<w, w>> \in P /\ w \in Window
      BY <1>2, <1>4, MembersStack DEF Reflexive
    <3>2. QED
      BY <1>1, <3>1, MembersStack
  <2>2. ASSUME NEW u \in Members(P)
        PROVE  <<u, u>> \in P
    <3>1. PICK v \in Window : <<u, v>> \in P
      BY <1>1, MembersStack
    <3>2. PICK w \in S : <<w, u>> \in st
      BY <1>2, <3>1
    <3>3. <<u, u>> \in st
      BY <1>3, <1>4 DEF Reflexive
    <3>4. QED
      BY <1>2, <3>2, <3>3
  <2>3. QED
    BY <2>1, <2>2 DEF Reflexive
<1>5. QED
  BY <1>1, <1>3, <1>4 DEF P

(***************************************************************************)
(* What an operation on the scene may do: it tracks no new window, forgets *)
(* dead ones at most, maps only windows a client has opened, and under a   *)
(* session lock leaves the keyboard alone.                                 *)
(***************************************************************************)
Opened == {w \in Window : life[w] # "new"}

Extends(s, t) ==
  /\ t \in Scene
  /\ \A w \in Window : s.wsOf[w] = 0 => t.wsOf[w] = 0
  /\ \A w \in NotDead : t.wsOf[w] = 0 => s.wsOf[w] = 0
  /\ t.space \subseteq s.space \cup Tracked(s) \cup Opened
  /\ Locked => t.focus = s.focus

\* Operations compose.
LEMMA ExtendsTransitive ==
  ASSUME NEW s \in Scene, NEW t, NEW u, Extends(s, t), Extends(t, u)
  PROVE  Extends(s, u) /\ t \in Scene /\ u \in Scene
BY DEF Extends, Tracked, Scene

\* A scene extends itself.
LEMMA ExtendsReflexive ==
  ASSUME NEW s \in Scene
  PROVE  Extends(s, s)
BY DEF Extends, Tracked

\* Recording, dropping and moving a window's entries, mapping and unmapping.
LEMMA FilingExtends ==
  ASSUME NEW s \in Scene, NEW w \in Window, NEW ws \in Workspace
  PROVE  /\ Extends(s, RecordFocus(s, ws, w))
         /\ Extends(s, RemoveFromFocus(s, ws, w))
         /\ Extends(s, Reassign(s, w, ws))
         /\ Extends(s, UnmapElem(s, w))
         /\ w \in Opened => Extends(s, MapElement(s, w))
<1>1. Push(s.mru[ws], w) \in Stack
  BY PushStack DEF Scene
<1>2. Retain(s.mru[ws], Window \ {w}) \in Stack
  BY RetainStack DEF Scene
<1>3. Extends(s, RecordFocus(s, ws, w))
  BY <1>1 DEF Extends, Scene, RecordFocus, Tracked
<1>4. Extends(s, RemoveFromFocus(s, ws, w))
  BY <1>2 DEF Extends, Scene, RemoveFromFocus, Tracked
<1>5. Extends(s, Reassign(s, w, ws))
  BY DEF Extends, Scene, Reassign, Tracked, Workspace
<1>6. Extends(s, UnmapElem(s, w))
  BY DEF Extends, Scene, UnmapElem, Tracked
<1>7. w \in Opened => Extends(s, MapElement(s, w))
  BY DEF Extends, Scene, MapElement, Tracked
<1>8. QED
  BY <1>3, <1>4, <1>5, <1>6, <1>7

\* clear_focus, and a focus set outside a session lock.
LEMMA SetFocusExtends ==
  ASSUME NEW s \in Scene, NEW target \in Focus
  PROVE  /\ Extends(s, ClearFocus(s))
         /\ ~Locked => Extends(s, SetFocus(s, target))
BY DEF Extends, Scene, ClearFocus, SetFocus, Tracked, Focus

\* focus_window.
LEMMA FocusExtends ==
  ASSUME NEW s \in Scene, NEW w \in Window
  PROVE  Extends(s, FocusWindow(s, w))
<1>1. CASE Locked
  BY <1>1, ExtendsReflexive DEF FocusWindow
<1>2. CASE ~Locked
  <2>1. Push(s.mru[s.active], w) \in Stack
    BY PushStack DEF Scene
  <2>2. QED
    BY <1>2, <2>1 DEF Extends, Scene, FocusWindow, SetFocus, RecordFocus,
                      Tracked, Focus
<1>3. QED
  BY <1>1, <1>2

\* Handing focus to the most recent window (focus_workspace_id's tail).
LEMMA FocusMruTopExtends ==
  ASSUME NEW s \in Scene
  PROVE  Extends(s, FocusMruTop(s))
<1> DEFINE st == PopTo(s.mru[s.active], Focusable(s))
           popped == [s EXCEPT !.mru[s.active] = st]
           top == CHOOSE w \in Tops(st) : TRUE
<1>1. st \in Stack
  BY PopToStack DEF Scene
<1> HIDE DEF st
<1>2. popped \in Scene /\ Extends(s, popped)
  BY <1>1 DEF Extends, Scene, Tracked
<1> HIDE DEF popped
<1>3. CASE Tops(st) = {}
  <2>1. FocusMruTop(s) = ClearFocus(popped)
    BY <1>3 DEF FocusMruTop, st, popped
  <2>2. Extends(popped, ClearFocus(popped))
    BY <1>2, SetFocusExtends DEF Focus
  <2>3. QED
    BY <1>2, <2>1, <2>2, ExtendsTransitive
<1>4. CASE Tops(st) # {}
  <2>1. FocusMruTop(s) = FocusWindow(popped, top)
    BY <1>4 DEF FocusMruTop, st, popped
  <2>2. top \in Window
    BY <1>1, <1>4, MembersStack DEF Tops
  <2> HIDE DEF top
  <2>3. Extends(popped, FocusWindow(popped, top))
    BY <1>2, <2>2, FocusExtends
  <2>4. QED
    BY <1>2, <2>1, <2>3, ExtendsTransitive
<1>5. QED
  BY <1>3, <1>4

\* Switching the active workspace.
LEMMA FocusWorkspaceExtends ==
  ASSUME NEW s \in Scene, NEW target \in Workspace
  PROVE  Extends(s, FocusWorkspaceId(s, target))
<1> DEFINE pruned == PruneDead(s)
           left   == IF FocusedWindow(s) = None THEN pruned
                     ELSE RecordFocus(pruned, s.active, s.focus)
           wsOf   == [w \in Window |->
                        IF w \in Pinned(s) /\ left.wsOf[w] # 0
                        THEN target ELSE left.wsOf[w]]
           shown  == {w \in Window : wsOf[w] = target /\ ~IsMinimized(w)}
           there  == [left EXCEPT !.active = target,
                                  !.wsOf = wsOf,
                                  !.space = Pinned(s) \cup shown]
<1>1. CASE s.active = target
  BY <1>1, ExtendsReflexive DEF FocusWorkspaceId
<1>2. CASE s.active # target
  <2>1. FocusWorkspaceId(s, target) = FocusMruTop(there)
    BY <1>2 DEF FocusWorkspaceId
  <2>2. pruned \in Scene /\ Extends(s, pruned) /\ pruned.space = s.space
    <3>1. \A ws \in Workspace : Retain(s.mru[ws], NotDead) \in Stack
      BY RetainStack DEF Scene
    <3>2. QED
      BY <3>1 DEF PruneDead, Scene, Extends, Tracked, NotDead
  <2> HIDE DEF pruned
  <2>3. left \in Scene /\ Extends(s, left) /\ left.space = s.space
    <3>1. CASE FocusedWindow(s) = None
      BY <2>2, <3>1
    <3>2. CASE FocusedWindow(s) # None
      <4>1. s.focus \in Window /\ s.active \in Workspace
        BY <3>2 DEF FocusedWindow, Scene
      <4>2. Extends(pruned, RecordFocus(pruned, s.active, s.focus))
        BY <2>2, <4>1, FilingExtends
      <4>3. Extends(s, RecordFocus(pruned, s.active, s.focus))
        BY <2>2, <4>2, ExtendsTransitive
      <4>4. RecordFocus(pruned, s.active, s.focus).space = s.space
        BY <2>2 DEF RecordFocus, Scene
      <4>5. QED
        BY <3>2, <4>3, <4>4 DEF Extends
    <3>3. QED
      BY <3>1, <3>2
  <2> HIDE DEF left
  <2>4. there \in Scene /\ Extends(left, there)
    <3>1. Pinned(s) \subseteq s.space /\ Pinned(s) \subseteq Window
      BY DEF Pinned, Scene
    <3>2. wsOf \in [Window -> Workspace \cup {0}]
      BY <2>3 DEF Scene
    <3>3. there \in Scene
      BY <2>3, <3>1, <3>2 DEF Scene
    <3>4. \A w \in Window : left.wsOf[w] = 0 <=> there.wsOf[w] = 0
      BY <2>3, <3>2 DEF Scene, Workspace
    <3>5. there.space \subseteq left.space \cup Tracked(left)
      <4>1. there.space = Pinned(s) \cup shown
        BY <2>3 DEF Scene
      <4>2. shown \subseteq Tracked(left)
        BY <2>3, <3>2 DEF Scene, Tracked, Workspace
      <4>3. QED
        BY <2>3, <3>1, <4>1, <4>2
    <3>6. there.focus = left.focus
      BY <2>3 DEF Scene
    <3> HIDE DEF there
    <3>7. QED
      BY <3>3, <3>4, <3>5, <3>6 DEF Extends, NotDead
  <2> HIDE DEF there
  <2>5. QED
    BY <2>1, <2>3, <2>4, FocusMruTopExtends, ExtendsTransitive
<1>3. QED
  BY <1>1, <1>2

\* Moves: handing the keyboard on, by key or rule, and across the edge.
LEMMA MoveExtends ==
  ASSUME NEW s \in Scene, NEW w \in Window, NEW target \in Workspace,
         NEW stuck, NEW before
  PROVE  /\ Extends(s, HandOff(before, s, w))
         /\ Extends(s, MoveWindowToWorkspace(s, stuck, w, target))
         /\ Extends(s, MoveWindowFollowing(s, w, target))
<1> DEFINE put   == Reassign(s, w, target)
           noted == RecordFocus(put, target, w)
           filed == RemoveFromFocus(noted, s.active, w)
           gone  == UnmapElem(filed, w)
           blank == ClearFocus(filed)
<1>1. ASSUME NEW a \in Scene
      PROVE  Extends(a, HandOff(before, a, w)) /\ Extends(a, HandOff(s, a, w))
  BY FocusMruTopExtends, ExtendsReflexive DEF HandOff
<1>2. put \in Scene /\ Extends(s, put)
  BY FilingExtends DEF Extends
<1> HIDE DEF put
<1>3. noted \in Scene /\ Extends(s, noted)
  <2>1. Extends(put, noted)
    BY <1>2, FilingExtends
  <2>2. QED
    BY <1>2, <2>1, ExtendsTransitive
<1> HIDE DEF noted
<1>4. s.active \in Workspace
  BY DEF Scene
<1>5. filed \in Scene /\ Extends(s, filed)
  <2>1. Extends(noted, filed)
    BY <1>3, <1>4, FilingExtends
  <2>2. QED
    BY <1>3, <2>1, ExtendsTransitive
<1> HIDE DEF filed
<1>6. gone \in Scene /\ Extends(s, gone)
  <2>1. Extends(filed, gone)
    BY <1>4, <1>5, FilingExtends
  <2>2. QED
    BY <1>5, <2>1, ExtendsTransitive
<1>7. blank \in Scene /\ Extends(s, blank)
  <2>1. None \in Focus
    BY DEF Focus
  <2>2. Extends(filed, blank)
    BY <1>5, <2>1, SetFocusExtends
  <2>3. QED
    BY <1>5, <2>2, ExtendsTransitive
<1> HIDE DEF gone, blank
<1>8. Extends(s, MoveWindowToWorkspace(s, stuck, w, target))
  <2>1. Extends(s, HandOff(s, gone, w))
    BY <1>1, <1>6, ExtendsTransitive
  <2>2. QED
    BY <2>1, ExtendsReflexive
    DEF MoveWindowToWorkspace, gone, filed, noted, put
<1>9. Extends(s, MoveWindowFollowing(s, w, target))
  <2>1. Extends(s, FocusWorkspaceId(blank, target))
    BY <1>7, FocusWorkspaceExtends, ExtendsTransitive
  <2>2. QED
    BY <2>1, ExtendsReflexive
    DEF MoveWindowFollowing, blank, filed, noted, put
<1>10. QED
  BY <1>1, <1>8, <1>9

\* Window rules, whether or not they stick the window or move it.
LEMMA ApplyRuleExtends ==
  ASSUME NEW s \in Scene, NEW w \in Window, NEW stick \in BOOLEAN,
         NEW target \in Workspace \cup {0}
  PROVE  Extends(s, ApplyRule(s, w, stick, target))
<1> DEFINE stuck == IF stick /\ w \notin sticky THEN Reassign(s, w, s.active)
                    ELSE s
           pins == IF stick THEN sticky \cup {w} ELSE sticky
<1>1. stuck \in Scene /\ Extends(s, stuck)
  <2>1. Extends(s, Reassign(s, w, s.active))
    BY FilingExtends DEF Scene
  <2>2. Extends(s, s)
    BY ExtendsReflexive
  <2>3. Extends(s, stuck)
    BY <2>1, <2>2
  <2>4. QED
    BY <2>3 DEF Extends
<1> HIDE DEF stuck, pins
<1>2. target # 0 => Extends(stuck, MoveWindowToWorkspace(stuck, pins, w, target))
  BY <1>1, MoveExtends
<1>3. target # 0 => Extends(s, MoveWindowToWorkspace(stuck, pins, w, target))
  BY <1>1, <1>2, ExtendsTransitive
<1>4. QED
  BY <1>1, <1>3 DEF ApplyRule, stuck, pins

(***************************************************************************)
(* The inductive invariant.                                                *)
(***************************************************************************)
\* Only windows a client has opened are anywhere in the desktop's records.
Untouched ==
  /\ listed \subseteq Opened
  /\ scene.space \subseteq Opened
  /\ Tracked(scene) \subseteq Opened
  /\ Members(minimized) \subseteq Opened
  /\ grab \in Opened \cup {None}

IInv == /\ TypeOK /\ NoWindowLost /\ PickerEndsAtLock
        /\ Untouched /\ Reflexive(minimized)

\* What a step may do to the keyboard while the session is locked.
LockStep == Locked /\ lock' # Off => scene'.focus \in {scene.focus, LockSurface}

\* A step that works on the scene and keeps the minimized windows.
LEMMA KeepingStep ==
  ASSUME IInv, Extends(scene, scene'),
         minimized' \in Stack, Reflexive(minimized)',
         Members(minimized') = Members(minimized),
         UNCHANGED <<life, listed, picker, lock>>,
         sticky' \subseteq Window, fresh' \subseteq Window,
         painted' \subseteq Window, layerUp' \in BOOLEAN,
         grab' \in Opened \cup {None}
  PROVE  IInv' /\ LockStep
<1>1. TypeOK'
  BY DEF IInv, TypeOK, Extends, Opened
<1>2. NoWindowLost'
  BY DEF IInv, NoWindowLost, Extends, Live, NotDead, IsMinimized
<1>3. Untouched'
  BY DEF IInv, Untouched, Extends, Opened, Tracked
<1>4. PickerEndsAtLock'
  BY DEF IInv, PickerEndsAtLock, Locked
<1>5. LockStep
  BY DEF LockStep, Extends
<1>6. QED
  BY <1>1, <1>2, <1>3, <1>4, <1>5 DEF IInv

\* A step that leaves the minimized stack alone.
LEMMA SceneStep ==
  ASSUME IInv, Extends(scene, scene'),
         UNCHANGED <<minimized, life, listed, picker, lock>>,
         sticky' \subseteq Window, fresh' \subseteq Window,
         painted' \subseteq Window, layerUp' \in BOOLEAN,
         grab' \in Opened \cup {None}
  PROVE  IInv' /\ LockStep
<1>1. /\ minimized' \in Stack /\ Reflexive(minimized)'
      /\ Members(minimized') = Members(minimized)
  BY DEF IInv, TypeOK, Reflexive, Members
<1>2. QED
  BY <1>1, KeepingStep

\* The mapped windows, and what the records name, are windows.
LEMMA Typing ==
  ASSUME IInv
  PROVE  /\ scene \in Scene /\ scene.active \in Workspace
         /\ scene.space \subseteq Window /\ scene.focus \in Focus
         /\ Opened \subseteq Window /\ listed \subseteq Window
         /\ None \in Focus /\ Layer \in Focus /\ LockSurface \in Focus
         /\ \A w \in Window : scene.wsOf[w] # 0 => scene.wsOf[w] \in Workspace
BY DEF IInv, TypeOK, Scene, Opened, Focus

\* Clicks, hover, cycling, layer surfaces and grafted keys.
LEMMA FocusSteps ==
  ASSUME IInv, FocusStep
  PROVE  IInv' /\ LockStep
<1> USE Typing
<1>1. ASSUME KeepRest
      PROVE  /\ UNCHANGED <<minimized, life, listed, picker, lock>>
             /\ sticky' \subseteq Window /\ fresh' \subseteq Window
             /\ painted' \subseteq Window /\ layerUp' \in BOOLEAN
             /\ grab' \in Opened \cup {None}
  BY <1>1 DEF KeepRest, records, modes, IInv, TypeOK, Untouched
<1>2. CASE ClickDesktop
  <2>1. Extends(scene, scene')
    BY <1>2, SetFocusExtends DEF ClickDesktop
  <2>2. QED
    BY <1>1, <1>2, <2>1, SceneStep DEF ClickDesktop
<1>3. ASSUME NEW t \in Window \cup {None}, Hover(t)
      PROVE  IInv' /\ LockStep
  <2>1. Extends(scene, scene')
    BY <1>3, FocusExtends, SetFocusExtends DEF Hover
  <2>2. QED
    BY <1>1, <1>3, <2>1, SceneStep DEF Hover
<1>4. ASSUME NEW w \in Window, ClickWindow(w) \/ CycleWindows(w)
      PROVE  IInv' /\ LockStep
  <2>1. Extends(scene, scene')
    BY <1>4, FocusExtends DEF ClickWindow, CycleWindows
  <2>2. QED
    BY <1>1, <1>4, <2>1, SceneStep DEF ClickWindow, CycleWindows
<1>5. ASSUME NEW w \in Window, GraftKey(w)
      PROVE  IInv' /\ LockStep
  <2>1. Extends(scene, scene')
    BY <1>5, SetFocusExtends DEF GraftKey, Focus
  <2>2. QED
    BY <1>1, <1>5, <2>1, SceneStep DEF GraftKey
<1>6. CASE LayerCommit
  <2>1. Extends(scene, scene')
    BY <1>6, SetFocusExtends, ExtendsReflexive DEF LayerCommit
  <2>2. QED
    BY <1>6, <2>1, SceneStep
    DEF LayerCommit, records, IInv, TypeOK, Untouched
<1>7. CASE LayerDestroyed
  <2>1. Extends(scene, scene')
    BY <1>7, FocusMruTopExtends, ExtendsReflexive DEF LayerDestroyed
  <2>2. QED
    BY <1>7, <2>1, SceneStep
    DEF LayerDestroyed, records, IInv, TypeOK, Untouched
<1>8. QED
  BY <1>2, <1>3, <1>4, <1>5, <1>6, <1>7 DEF FocusStep

\* A window is minimized.
LEMMA MinimizeStep ==
  ASSUME IInv, NEW w \in Opened, Minimize(w)
  PROVE  IInv' /\ LockStep
<1> USE Typing
<1> DEFINE hidden == Forget(UnmapElem(scene, w), w)
<1>1. /\ minimized' = Push(minimized, w) /\ w \in Window
      /\ UNCHANGED <<sticky, life, listed, fresh, painted, layerUp, picker,
                     lock, grab>>
  BY DEF Minimize, records, modes
<1>2. /\ minimized' \in Stack /\ Reflexive(minimized)'
      /\ Members(minimized') = Members(minimized) \cup {w}
  BY <1>1, PushStack DEF IInv, TypeOK, Reflexive, Members
<1>3. /\ hidden \in Scene /\ hidden.space = scene.space \ {w}
      /\ hidden.focus = scene.focus
      /\ \A v \in Window :
           hidden.wsOf[v] = IF v = w THEN 0 ELSE scene.wsOf[v]
  <2>1. \A ws \in Workspace : Retain(scene.mru[ws], Window \ {w}) \in Stack
    BY RetainStack DEF Scene
  <2>2. QED
    BY <1>1, <2>1 DEF Forget, UnmapElem, Scene
<1>4. scene' = IF FocusedWindow(hidden) = w THEN ClearFocus(hidden) ELSE hidden
  BY DEF Minimize
<1> HIDE DEF hidden
<1>5. /\ scene' \in Scene /\ scene'.space = hidden.space
      /\ scene'.wsOf = hidden.wsOf
      /\ Locked => scene'.focus = hidden.focus
  BY <1>3, <1>4 DEF ClearFocus, SetFocus, Scene
<1>6. TypeOK'
  BY <1>1, <1>2, <1>5 DEF IInv, TypeOK
<1>7. NoWindowLost'
  BY <1>1, <1>2, <1>3, <1>5 DEF IInv, NoWindowLost, Live, IsMinimized
<1>8. Untouched'
  BY <1>1, <1>2, <1>3, <1>5 DEF IInv, Untouched, Opened, Tracked
<1>9. PickerEndsAtLock' /\ LockStep
  BY <1>1, <1>3, <1>5 DEF IInv, PickerEndsAtLock, Locked, LockStep
<1>10. QED
  BY <1>2, <1>6, <1>7, <1>8, <1>9 DEF IInv

\* A minimized window is mapped and assigned to the active workspace.
LEMMA RestoreStep ==
  ASSUME IInv, NEW w \in Opened,
         Extends(Assign(MapElement(scene, w), w, scene.active), scene'),
         minimized' \in Stack, Reflexive(minimized)',
         Members(minimized') \subseteq Members(minimized) \ {w},
         (Members(minimized) \cap Live) \ {w} \subseteq Members(minimized'),
         UNCHANGED <<records, modes>>
  PROVE  IInv' /\ LockStep
<1> USE Typing
<1> DEFINE mapped == Assign(MapElement(scene, w), w, scene.active)
<1>1. /\ mapped \in Scene /\ mapped.space = scene.space \cup {w}
      /\ mapped.focus = scene.focus
      /\ \A v \in Window :
           mapped.wsOf[v] = IF v = w THEN scene.active ELSE scene.wsOf[v]
  BY DEF Assign, MapElement, Scene
<1>2. Extends(mapped, scene')
  OBVIOUS
<1>3. scene.active # 0
  BY DEF Workspace
<1> HIDE DEF mapped
<1>4. TypeOK'
  BY <1>2 DEF IInv, TypeOK, Extends, records, modes
<1>5. NoWindowLost'
  BY <1>1, <1>2, <1>3
  DEF IInv, NoWindowLost, Extends, Live, NotDead, IsMinimized, records
<1>6. Untouched'
  BY <1>1, <1>2, <1>3
  DEF IInv, Untouched, Extends, Opened, Tracked, records, modes
<1>7. PickerEndsAtLock' /\ LockStep
  BY <1>1, <1>2
  DEF IInv, PickerEndsAtLock, Locked, LockStep, Extends, modes
<1>8. QED
  BY <1>4, <1>5, <1>6, <1>7 DEF IInv

\* Unminimizing by id and by key.
LEMMA UnminimizeSteps ==
  ASSUME IInv
  PROVE  /\ \A w \in Window : UnminimizeWindow(w) => IInv' /\ LockStep
         /\ UnminimizeLast => IInv' /\ LockStep
<1> USE Typing
<1>1. ASSUME NEW w \in Opened
      PROVE  Extends(Assign(MapElement(scene, w), w, scene.active),
                     Restore(scene, w))
  <2> DEFINE mapped == Assign(MapElement(scene, w), w, scene.active)
  <2>1. mapped \in Scene
    BY DEF Assign, MapElement, Scene
  <2>2. Restore(scene, w) = FocusWindow(mapped, w)
    BY DEF Restore
  <2> HIDE DEF mapped
  <2>3. Extends(mapped, Restore(scene, w))
    BY <2>1, <2>2, FocusExtends
  <2>4. QED
    BY <2>3 DEF mapped
<1>2. ASSUME NEW w \in Window, UnminimizeWindow(w)
      PROVE  IInv' /\ LockStep
  <2>1. w \in Opened
    BY <1>2 DEF UnminimizeWindow, IInv, Untouched
  <2>2. minimized' = Retain(minimized, Window \ {w})
    BY <1>2 DEF UnminimizeWindow
  <2>3. /\ minimized' \in Stack /\ Reflexive(minimized')
        /\ Members(minimized') = Members(minimized) \cap (Window \ {w})
    BY <2>2, RetainStack DEF IInv, TypeOK
  <2>4. Members(minimized) \cap Live \subseteq Window
    BY DEF Live
  <2>5. Reflexive(minimized)'
    BY <2>3 DEF Reflexive, Members
  <2>6. QED
    BY <1>1, <1>2, <2>1, <2>3, <2>4, <2>5, RestoreStep DEF UnminimizeWindow
<1>3. ASSUME UnminimizeLast
      PROVE  IInv' /\ LockStep
  <2> DEFINE st == PopTo(minimized, Live)
  <2>1. /\ st \in Stack /\ Reflexive(st)
        /\ Members(st) \subseteq Members(minimized)
        /\ Members(minimized) \cap Live \subseteq Members(st)
    BY PopToStack DEF IInv, TypeOK
  <2>2. UNCHANGED <<records, modes>>
    BY <1>3 DEF UnminimizeLast
  <2>3. CASE st = {} /\ minimized' = {} /\ UNCHANGED scene
    <3>1. Members(minimized) \cap Live = {}
      BY <2>1, <2>3 DEF Members
    <3>2. Members(minimized') = {} /\ minimized' \in Stack
      BY <2>3 DEF Members, Stack
    <3>3. TypeOK'
      BY <2>2, <2>3, <3>2 DEF IInv, TypeOK, records, modes
    <3>4. NoWindowLost'
      BY <2>2, <2>3, <3>1, <3>2
      DEF IInv, NoWindowLost, Live, IsMinimized, records
    <3>5. Untouched'
      BY <2>2, <2>3, <3>2
      DEF IInv, Untouched, Opened, Tracked, Members, records, modes
    <3>6. PickerEndsAtLock' /\ Reflexive(minimized)' /\ LockStep
      BY <2>2, <2>3, <3>2
      DEF IInv, PickerEndsAtLock, Locked, Reflexive, Members, LockStep, modes
    <3>7. QED
      BY <3>3, <3>4, <3>5, <3>6 DEF IInv
  <2>4. ASSUME NEW w \in Tops(st), scene' = Restore(scene, w),
               minimized' = Retain(st, Window \ {w})
        PROVE  IInv' /\ LockStep
    <3>1. w \in Opened
      BY <2>1 DEF Tops, IInv, Untouched
    <3>2. /\ minimized' \in Stack /\ Reflexive(minimized')
          /\ Members(minimized') = Members(st) \cap (Window \ {w})
      BY <2>1, <2>4, RetainStack
    <3>3. Members(minimized) \cap Live \subseteq Window
      BY DEF Live
    <3>4. Reflexive(minimized)'
      BY <3>2 DEF Reflexive, Members
    <3>5. Extends(Assign(MapElement(scene, w), w, scene.active), scene')
      BY <1>1, <2>4, <3>1
    <3> HIDE DEF st
    <3>6. QED
      BY <2>1, <2>2, <3>1, <3>2, <3>3, <3>4, <3>5, RestoreStep
  <2>5. QED
    BY <1>3, <2>3, <2>4 DEF UnminimizeLast
<1>4. QED
  BY <1>2, <1>3

\* Activating a window by id, from wherever it is.
LEMMA ActivateStep ==
  ASSUME IInv, NEW w \in Window, ActivateWindow(w)
  PROVE  IInv' /\ LockStep
<1> USE Typing
<1> DEFINE mapped == IF IsMinimized(w)
                     THEN Assign(MapElement(scene, w), w, scene.active)
                     ELSE scene
           there  == IF mapped.wsOf[w] = 0 THEN mapped
                     ELSE FocusWorkspaceId(mapped, mapped.wsOf[w])
<1>1. /\ w \in Opened /\ scene' = FocusWindow(there, w)
      /\ minimized' = Retain(minimized, Window \ {w})
      /\ UNCHANGED <<records, modes>>
  BY DEF ActivateWindow, IInv, Untouched
<1>2. /\ minimized' \in Stack /\ Reflexive(minimized')
      /\ Members(minimized') = Members(minimized) \cap (Window \ {w})
  BY <1>1, RetainStack DEF IInv, TypeOK
<1>3. Reflexive(minimized)' /\ Members(minimized) \subseteq Window
  BY <1>2, MembersStack DEF IInv, TypeOK, Reflexive, Members
<1>4. mapped \in Scene
  BY DEF Assign, MapElement, Scene
<1>5. there \in Scene /\ Extends(mapped, there)
  <2>1. mapped.wsOf[w] # 0 => mapped.wsOf[w] \in Workspace
    BY <1>4 DEF Scene
  <2> HIDE DEF mapped
  <2>2. Extends(mapped, there)
    BY <1>4, <2>1, FocusWorkspaceExtends, ExtendsReflexive
  <2>3. QED
    BY <2>2 DEF Extends
<1>6. Extends(mapped, scene')
  <2> HIDE DEF mapped, there
  <2>1. Extends(there, scene')
    BY <1>1, <1>5, FocusExtends
  <2>2. QED
    BY <1>4, <1>5, <2>1, ExtendsTransitive
<1> HIDE DEF there
<1>7. CASE IsMinimized(w)
  <2>1. Extends(Assign(MapElement(scene, w), w, scene.active), scene')
    BY <1>6, <1>7
  <2>2. QED
    BY <1>1, <1>2, <1>3, <2>1, RestoreStep
<1>8. CASE ~IsMinimized(w)
  <2>1. Extends(scene, scene')
    BY <1>6, <1>8
  <2>2. Members(minimized') = Members(minimized)
    BY <1>2, <1>3, <1>8 DEF IsMinimized
  <2>3. QED
    BY <1>1, <1>2, <1>3, <2>1, <2>2, KeepingStep
    DEF records, modes, IInv, TypeOK, Untouched
<1>9. QED
  BY <1>7, <1>8

\* Keys, taskbars and IPC requests on windows and workspaces.
LEMMA WindowSteps ==
  ASSUME IInv, WindowStep
  PROVE  IInv' /\ LockStep
<1> USE Typing
<1>1. ASSUME KeepRest
      PROVE  /\ UNCHANGED <<minimized, life, listed, picker, lock>>
             /\ sticky' \subseteq Window /\ fresh' \subseteq Window
             /\ painted' \subseteq Window /\ layerUp' \in BOOLEAN
             /\ grab' \in Opened \cup {None}
  BY <1>1 DEF KeepRest, records, modes, IInv, TypeOK, Untouched
<1>2. ASSUME MinimizeFocused \/ \E w \in Window : MinimizeWindow(w)
      PROVE  IInv' /\ LockStep
  <2>1. PICK w \in Opened : Minimize(w)
    BY <1>2 DEF MinimizeFocused, MinimizeWindow, IInv, Untouched
  <2>2. QED
    BY <2>1, MinimizeStep
<1>3. ASSUME NEW w \in Window, NEW on \in BOOLEAN, SetSticky(w, on)
      PROVE  IInv' /\ LockStep
  <2>1. Extends(scene, scene')
    BY <1>3, FilingExtends DEF SetSticky
  <2>2. QED
    BY <1>3, <2>1, SceneStep DEF SetSticky, modes, IInv, TypeOK, Untouched
<1>4. ASSUME NEW w \in Window, NEW target \in Workspace,
             MoveWindowById(w, target)
      PROVE  IInv' /\ LockStep
  <2> DEFINE current == scene.wsOf[w]
             put    == Reassign(scene, w, target)
             noted  == RecordFocus(put, target, w)
             filed  == RemoveFromFocus(noted, current, w)
             placed == Place(filed, w, current, target)
  <2>1. /\ w \in Opened /\ current \in Workspace
        /\ scene' = IF target = scene.active THEN placed
                    ELSE HandOff(scene, placed, w)
    BY <1>4 DEF MoveWindowById, IInv, Untouched
  <2> HIDE DEF current
  <2>2. put \in Scene /\ Extends(scene, put)
    BY FilingExtends, ExtendsReflexive, ExtendsTransitive
  <2> HIDE DEF put
  <2>3. noted \in Scene /\ Extends(scene, noted)
    BY <2>2, FilingExtends, ExtendsTransitive
  <2> HIDE DEF noted
  <2>4. filed \in Scene /\ Extends(scene, filed)
    BY <2>1, <2>3, FilingExtends, ExtendsTransitive
  <2> HIDE DEF filed
  <2>5. Extends(filed, placed)
    BY <2>1, <2>4, FilingExtends, ExtendsReflexive DEF Place
  <2>6. placed \in Scene /\ Extends(scene, placed)
    BY <2>4, <2>5, ExtendsTransitive
  <2> HIDE DEF placed
  <2>7. Extends(placed, HandOff(scene, placed, w))
    BY <2>6, MoveExtends
  <2>8. Extends(scene, scene')
    BY <2>1, <2>6, <2>7, ExtendsTransitive
  <2>9. QED
    BY <1>1, <1>4, <2>8, SceneStep DEF MoveWindowById
<1>5. ASSUME NEW target \in Workspace, FocusWorkspace(target)
      PROVE  IInv' /\ LockStep
  <2>1. Extends(scene, scene')
    BY <1>5, FocusWorkspaceExtends DEF FocusWorkspace
  <2>2. QED
    BY <1>1, <1>5, <2>1, SceneStep DEF FocusWorkspace
<1>6. ASSUME NEW target \in Workspace, MoveFocused(target)
      PROVE  IInv' /\ LockStep
  <2> DEFINE moved == MoveWindowToWorkspace(scene, sticky, scene.focus, target)
  <2>1. /\ scene.focus \in Window /\ scene' = FocusWorkspaceId(moved, target)
    BY <1>6 DEF MoveFocused
  <2>2. Extends(scene, moved)
    BY <2>1, MoveExtends
  <2> HIDE DEF moved
  <2>3. Extends(scene, scene')
    <3>1. moved \in Scene
      BY <2>2 DEF Extends
    <3>2. QED
      BY <2>1, <2>2, <3>1, FocusWorkspaceExtends, ExtendsTransitive
  <2>4. QED
    BY <1>1, <1>6, <2>3, SceneStep DEF MoveFocused
<1>7. QED
  BY <1>2, <1>3, <1>4, <1>5, <1>6, UnminimizeSteps, ActivateStep DEF WindowStep

\* The move grab, the edge crossing and its repeat timer.
LEMMA GestureSteps ==
  ASSUME IInv, GestureStep
  PROVE  IInv' /\ LockStep
<1> USE Typing
<1>1. ASSUME UNCHANGED <<minimized, records, layerUp, picker, lock>>
      PROVE  /\ UNCHANGED <<minimized, life, listed, picker, lock>>
             /\ sticky' \subseteq Window /\ fresh' \subseteq Window
             /\ painted' \subseteq Window /\ layerUp' \in BOOLEAN
  BY <1>1 DEF records, IInv, TypeOK
<1>2. grab \in Opened \cup {None}
  BY DEF IInv, Untouched
<1>3. ASSUME NEW w \in Window, StartDrag(w)
      PROVE  IInv' /\ LockStep
  <2>1. Extends(scene, scene')
    BY <1>3, SetFocusExtends DEF StartDrag, Focus
  <2>2. grab' \in Opened
    BY <1>3 DEF StartDrag, IInv, Untouched
  <2>3. QED
    BY <1>1, <1>3, <2>1, <2>2, SceneStep DEF StartDrag
<1>4. ASSUME DragMotion
      PROVE  IInv' /\ LockStep
  <2>1. grab \in Opened /\ scene' = MapElement(scene, grab)
    BY <1>2, <1>4 DEF DragMotion
  <2>2. Extends(scene, MapElement(scene, grab))
    BY <2>1, FilingExtends
  <2>3. QED
    BY <1>1, <1>2, <1>4, <2>1, <2>2, SceneStep DEF DragMotion, KeepRest, modes
<1>5. ASSUME NEW target \in Workspace, NEW moved \in BOOLEAN,
             DragAcross(target, moved)
      PROVE  IInv' /\ LockStep
  <2> DEFINE from == IF moved THEN MapElement(scene, grab) ELSE scene
  <2>1. grab \in Opened /\ scene' = MoveWindowFollowing(from, grab, target)
    BY <1>2, <1>5 DEF DragAcross
  <2>2. from \in Scene /\ Extends(scene, from)
    BY <2>1, FilingExtends, ExtendsReflexive DEF Extends
  <2> HIDE DEF from
  <2>3. Extends(scene, scene')
    BY <2>1, <2>2, MoveExtends, ExtendsTransitive
  <2>4. QED
    BY <1>1, <1>2, <1>5, <2>3, SceneStep DEF DragAcross, KeepRest, modes
<1>6. ASSUME EndDrag
      PROVE  IInv' /\ LockStep
  <2>1. Extends(scene, scene')
    BY <1>6, ExtendsReflexive DEF EndDrag
  <2>2. QED
    BY <1>1, <1>6, <2>1, SceneStep DEF EndDrag
<1>7. QED
  BY <1>3, <1>4, <1>5, <1>6 DEF GestureStep

\* The picker and the session lock.
LEMMA SessionSteps ==
  ASSUME IInv, SessionStep
  PROVE  IInv' /\ LockStep
<1> USE Typing
<1>1. ASSUME UNCHANGED <<minimized, records, grab>>, Extends(scene, scene'),
             layerUp' \in BOOLEAN,
             picker' \in Focus \cup {Off}, lock' \in Focus \cup {Off},
             PickerEndsAtLock', LockStep
      PROVE  IInv' /\ LockStep
  <2>1. TypeOK'
    BY <1>1 DEF IInv, TypeOK, Extends, records
  <2>2. NoWindowLost'
    BY <1>1 DEF IInv, NoWindowLost, Extends, Live, NotDead, IsMinimized, records
  <2>3. Untouched'
    BY <1>1 DEF IInv, Untouched, Extends, Opened, Tracked, records
  <2>4. Reflexive(minimized)'
    BY <1>1 DEF IInv, Reflexive, Members
  <2>5. QED
    BY <1>1, <2>1, <2>2, <2>3, <2>4 DEF IInv
<1>2. picker \in Focus \cup {Off} /\ lock \in Focus \cup {Off} /\ Off \notin Focus
  BY TargetsAssumption DEF IInv, TypeOK, Focus
<1>3. CASE StartPicker
  <2>1. Extends(scene, scene')
    BY <1>3, SetFocusExtends DEF StartPicker
  <2>2. PickerEndsAtLock' /\ LockStep
    BY <1>3 DEF StartPicker, PickerEndsAtLock, LockStep, Locked
  <2>3. QED
    BY <1>1, <1>2, <1>3, <2>1, <2>2 DEF StartPicker, IInv, TypeOK
<1>4. CASE FinishPicker
  <2>1. ~Locked /\ picker \in Focus
    BY <1>2, <1>4 DEF FinishPicker, IInv, PickerEndsAtLock
  <2>2. Extends(scene, scene')
    BY <1>4, <2>1, SetFocusExtends DEF FinishPicker, PickerDone
  <2>3. PickerEndsAtLock' /\ LockStep
    BY <1>4, <2>1 DEF FinishPicker, PickerEndsAtLock, LockStep, Locked
  <2>4. QED
    BY <1>1, <1>2, <1>4, <2>2, <2>3 DEF FinishPicker, IInv, TypeOK
<1>5. CASE LockSession
  <2> DEFINE blank == SetFocus(scene, None)
  <2>1. ~Locked /\ scene' = PickerDone(blank)
    BY <1>5 DEF LockSession
  <2>2. Extends(scene, blank) /\ blank \in Scene
    BY <2>1, SetFocusExtends DEF Extends
  <2> HIDE DEF blank
  <2>3. Extends(blank, scene')
    BY <1>2, <2>1, <2>2, SetFocusExtends, ExtendsReflexive DEF PickerDone
  <2>4. Extends(scene, scene')
    BY <2>2, <2>3, ExtendsTransitive
  <2>5. PickerEndsAtLock' /\ LockStep
    BY <1>5, <2>1 DEF LockSession, PickerEndsAtLock, LockStep
  <2>6. QED
    BY <1>1, <1>2, <1>5, <2>4, <2>5 DEF LockSession, IInv, TypeOK
<1>6. CASE NewLockSurface
  <2>1. /\ scene' = SetFocus(scene, LockSurface)
        /\ UNCHANGED <<minimized, records, modes>>
    BY <1>6 DEF NewLockSurface, KeepRest
  <2>2. /\ scene' \in Scene /\ scene'.space = scene.space
        /\ scene'.wsOf = scene.wsOf /\ scene'.focus = LockSurface
    BY <2>1 DEF SetFocus, Scene
  <2>3. QED
    BY <2>1, <2>2
    DEF IInv, TypeOK, NoWindowLost, Live, IsMinimized, PickerEndsAtLock, Locked,
        Untouched, Opened, Tracked, Reflexive, Members, LockStep, records, modes
<1>7. CASE UnlockSession
  <2>1. /\ lock' = Off /\ lock \in Focus
        /\ UNCHANGED <<minimized, records, layerUp, picker, grab>>
        /\ scene' \in {scene, SetFocus(scene, lock)}
    BY <1>2, <1>7 DEF UnlockSession, Locked
  <2>2. /\ scene' \in Scene /\ scene'.space = scene.space
        /\ scene'.wsOf = scene.wsOf
    BY <2>1 DEF SetFocus, Scene
  <2>3. QED
    BY <1>2, <2>1, <2>2
    DEF IInv, TypeOK, NoWindowLost, Live, IsMinimized, PickerEndsAtLock, Locked,
        Untouched, Opened, Tracked, Reflexive, Members, LockStep, records
<1>8. QED
  BY <1>3, <1>4, <1>5, <1>6, <1>7 DEF SessionStep

\* A window that a client opens is mapped on the active workspace.
LEMMA OpenStep ==
  ASSUME IInv, NEW w \in Window, life[w] = "new",
         Extends(Assign(MapElement(scene, w), w, scene.active), scene'),
         life' = [life EXCEPT ![w] = "live"], listed' = listed \cup {w},
         sticky' \subseteq Window, fresh' \subseteq Window,
         UNCHANGED <<minimized, painted, modes>>
  PROVE  IInv' /\ LockStep
<1> USE Typing
<1> DEFINE mapped == Assign(MapElement(scene, w), w, scene.active)
<1>1. /\ mapped \in Scene /\ mapped.space = scene.space \cup {w}
      /\ mapped.focus = scene.focus
      /\ \A v \in Window :
           mapped.wsOf[v] = IF v = w THEN scene.active ELSE scene.wsOf[v]
  BY DEF Assign, MapElement, Scene
<1>2. Extends(mapped, scene')
  OBVIOUS
<1>3. scene.active # 0 /\ w \in NotDead
  BY DEF Workspace, NotDead
<1> HIDE DEF mapped
<1>4. \A v \in Window : life'[v] = IF v = w THEN "live" ELSE life[v]
  BY DEF IInv, TypeOK
<1>5. TypeOK'
  BY <1>2 DEF IInv, TypeOK, Extends, modes
<1>6. NoWindowLost'
  BY <1>1, <1>2, <1>3, <1>4
  DEF IInv, NoWindowLost, Extends, Live, NotDead, IsMinimized, Untouched, Opened
<1>7. Untouched'
  BY <1>1, <1>2, <1>3, <1>4
  DEF IInv, Untouched, Extends, Opened, Tracked, modes
<1>8. Reflexive(minimized)' /\ PickerEndsAtLock' /\ LockStep
  BY <1>1, <1>2
  DEF IInv, PickerEndsAtLock, Locked, LockStep, Extends, Reflexive, Members, modes
<1>9. QED
  BY <1>5, <1>6, <1>7, <1>8 DEF IInv

\* A window that closes: its records go, or nothing changes.
LEMMA CloseStep ==
  ASSUME IInv, NEW w \in Window, life[w] = "live",
         life' = [life EXCEPT ![w] = "dead"],
         \/ ForgetWindow(w)
         \/ UNCHANGED <<scene, minimized, sticky, listed, fresh, painted>>,
         UNCHANGED modes
  PROVE  IInv' /\ LockStep
<1> USE Typing
<1>1. \A v \in Window : life'[v] = IF v = w THEN "dead" ELSE life[v]
  BY DEF IInv, TypeOK
<1>2. /\ minimized' \in Stack /\ Reflexive(minimized)'
      /\ Members(minimized') \subseteq Members(minimized)
      /\ Members(minimized) \ {w} \subseteq Members(minimized')
  <2>1. Members(minimized) \subseteq Window
    BY MembersStack DEF IInv, TypeOK
  <2>2. LET kept == Retain(minimized, Window \ {w})
        IN  /\ kept \in Stack /\ Reflexive(kept)
            /\ Members(kept) = Members(minimized) \cap (Window \ {w})
    BY RetainStack DEF IInv, TypeOK
  <2>3. CASE ForgetWindow(w)
    <3>1. minimized' = Retain(minimized, Window \ {w})
      BY <2>3 DEF ForgetWindow
    <3>2. Reflexive(minimized')
      BY <2>2, <3>1
    <3>3. Reflexive(minimized)'
      BY <3>2 DEF Reflexive, Members
    <3>4. QED
      BY <2>1, <2>2, <3>1, <3>3
  <2>4. CASE UNCHANGED minimized
    BY <2>4 DEF IInv, TypeOK, Reflexive, Members
  <2>5. QED
    BY <2>3, <2>4
<1>3. /\ scene' \in Scene /\ scene'.space \subseteq scene.space
      /\ scene'.focus = scene.focus
      /\ \A v \in Window : scene'.wsOf[v] \in {0, scene.wsOf[v]}
      /\ \A v \in Window \ {w} : scene'.wsOf[v] = scene.wsOf[v]
  <2>1. \A ws \in Workspace : Retain(scene.mru[ws], Window \ {w}) \in Stack
    BY RetainStack DEF Scene
  <2>2. CASE ForgetWindow(w)
    BY <2>1, <2>2 DEF ForgetWindow, Forget, UnmapElem, Scene
  <2>3. CASE UNCHANGED scene
    BY <2>3
  <2>4. QED
    BY <2>2, <2>3
<1>4. /\ sticky' \subseteq sticky /\ listed' \subseteq listed
      /\ fresh' \subseteq fresh /\ painted' \subseteq painted
  BY DEF ForgetWindow
<1>5. TypeOK'
  BY <1>2, <1>3, <1>4 DEF IInv, TypeOK, modes
<1>6. NoWindowLost'
  BY <1>1, <1>2, <1>3 DEF IInv, NoWindowLost, Live, IsMinimized
<1>7. Untouched'
  BY <1>1, <1>2, <1>3, <1>4 DEF IInv, Untouched, Opened, Tracked, modes
<1>8. PickerEndsAtLock' /\ LockStep
  BY <1>3 DEF IInv, PickerEndsAtLock, Locked, LockStep, modes
<1>9. QED
  BY <1>2, <1>5, <1>6, <1>7, <1>8 DEF IInv

\* The X server goes away with every X11 window.
LEMMA DisconnectStep ==
  ASSUME IInv, XwmDisconnected
  PROVE  IInv' /\ LockStep
<1> USE Typing
<1> DEFINE swept == X11 \cap (scene.space \cup Tracked(scene))
           kept  == Window \ swept
<1>1. \A ws \in Workspace : Retain(scene.mru[ws], kept) \in Stack
  BY RetainStack DEF Scene
<1>2. /\ minimized' = Retain(minimized, kept)
      /\ sticky' \subseteq sticky /\ listed' \subseteq listed
      /\ UNCHANGED <<fresh, painted, modes>>
  BY DEF XwmDisconnected
<1>3. /\ minimized' \in Stack /\ Reflexive(minimized')
      /\ Members(minimized') = Members(minimized) \cap kept
  BY <1>2, RetainStack DEF IInv, TypeOK
<1>4. \A v \in Window :
        life'[v] = IF v \in X11 \cap Live THEN "dead" ELSE life[v]
  BY DEF XwmDisconnected
<1>5. /\ life' \in [Window -> {"new", "live", "dead"}]
      /\ Members(minimized) \subseteq Window
  BY MembersStack DEF XwmDisconnected, IInv, TypeOK
<1>6. /\ scene' \in Scene /\ scene'.space \subseteq scene.space
      /\ scene'.focus = scene.focus
      /\ \A v \in Window :
           scene'.wsOf[v] = IF v \in swept THEN 0 ELSE scene.wsOf[v]
  BY <1>1 DEF XwmDisconnected, Scene
<1>7. swept \subseteq X11
  OBVIOUS
<1> HIDE DEF swept, kept
<1>8. TypeOK'
  BY <1>2, <1>3, <1>5, <1>6 DEF IInv, TypeOK, modes
<1>9. NoWindowLost'
  BY <1>3, <1>4, <1>5, <1>6, <1>7
  DEF IInv, NoWindowLost, Live, IsMinimized, kept
<1>10. Untouched'
  BY <1>2, <1>3, <1>4, <1>6 DEF IInv, Untouched, Opened, Tracked, Live, modes
<1>11. PickerEndsAtLock' /\ Reflexive(minimized)' /\ LockStep
  <2>1. Reflexive(minimized)'
    BY <1>3 DEF Reflexive, Members
  <2>2. QED
    BY <1>2, <1>6, <2>1 DEF IInv, PickerEndsAtLock, Locked, LockStep, modes
<1>12. QED
  BY <1>8, <1>9, <1>10, <1>11 DEF IInv

\* What clients and the X server do.
LEMMA ClientSteps ==
  ASSUME IInv, ClientStep
  PROVE  IInv' /\ LockStep
<1> USE Typing
<1>1. ASSUME NEW w \in Window, NewToplevel(w)
      PROVE  IInv' /\ LockStep
  <2> DEFINE mapped == Assign(MapElement(scene, w), w, scene.active)
  <2>1. mapped \in Scene
    BY DEF Assign, MapElement, Scene
  <2>2. scene' = FocusWindow(mapped, w)
    BY <1>1 DEF NewToplevel
  <2> HIDE DEF mapped
  <2>3. Extends(mapped, scene')
    BY <2>1, <2>2, FocusExtends
  <2>4. QED
    BY <1>1, <2>3, OpenStep DEF NewToplevel, mapped, IInv, TypeOK
<1>2. ASSUME NEW w \in Window, NEW stick \in BOOLEAN,
             NEW target \in Workspace \cup {0}, X11MapRequest(w, stick, target)
      PROVE  IInv' /\ LockStep
  <2> DEFINE mapped == Assign(MapElement(scene, w), w, scene.active)
             ruled == ApplyRule(mapped, w, stick, target)
  <2>1. mapped \in Scene
    BY DEF Assign, MapElement, Scene
  <2>2. scene' = FocusWindow(ruled, w)
    BY <1>2 DEF X11MapRequest
  <2> HIDE DEF mapped
  <2>3. Extends(mapped, ruled)
    BY <2>1, ApplyRuleExtends
  <2>4. ruled \in Scene
    BY <2>3 DEF Extends
  <2> HIDE DEF ruled
  <2>5. Extends(mapped, scene')
    BY <2>1, <2>2, <2>3, <2>4, FocusExtends, ExtendsTransitive
  <2>6. QED
    BY <1>2, <2>5, OpenStep DEF X11MapRequest, mapped, IInv, TypeOK
<1>3. ASSUME NEW w \in Window, ToplevelDestroyed(w) \/ X11Unmapped(w)
      PROVE  IInv' /\ LockStep
  BY <1>3, CloseStep DEF ToplevelDestroyed, X11Unmapped
<1>4. ASSUME NEW w \in Window, HiddenCommit(w)
      PROVE  IInv' /\ LockStep
  <2>1. Extends(scene, scene')
    BY <1>4, ExtendsReflexive DEF HiddenCommit
  <2>2. QED
    BY <1>4, <2>1, SceneStep DEF HiddenCommit, modes, IInv, TypeOK, Untouched
<1>5. ASSUME NEW w \in Window, NEW stick \in BOOLEAN,
             NEW target \in Workspace \cup {0}, NEW placed \in BOOLEAN,
             FirstCommit(w, stick, target, placed)
      PROVE  IInv' /\ LockStep
  <2> DEFINE ruled == ApplyRule(scene, w, stick, target)
  <2>1. Extends(scene, ruled)
    BY ApplyRuleExtends
  <2>2. w \in Opened
    BY <1>5 DEF FirstCommit, Live, Opened
  <2>3. scene' \in {ruled, MapElement(ruled, w)}
    BY <1>5 DEF FirstCommit
  <2>4. ruled \in Scene
    BY <2>1 DEF Extends
  <2> HIDE DEF ruled
  <2>5. Extends(ruled, MapElement(ruled, w))
    BY <2>2, <2>4, FilingExtends
  <2>6. Extends(scene, scene')
    BY <2>1, <2>3, <2>4, <2>5, ExtendsTransitive
  <2>7. QED
    BY <1>5, <2>6, SceneStep DEF FirstCommit, modes, IInv, TypeOK, Untouched
<1>6. ASSUME NEW w \in Window, LayoutRequest(w)
      PROVE  IInv' /\ LockStep
  <2>1. Extends(scene, MapElement(scene, w))
    BY <1>6, FilingExtends DEF LayoutRequest, IInv, Untouched
  <2>2. QED
    BY <1>6, <2>1, SceneStep
    DEF LayoutRequest, KeepRest, records, modes, IInv, TypeOK, Untouched
<1>7. ASSUME NEW w \in Window, X11LayoutRequest(w)
      PROVE  IInv' /\ LockStep
  <2>1. Extends(scene, scene')
    BY <1>7, FocusExtends DEF X11LayoutRequest
  <2>2. QED
    BY <1>7, <2>1, SceneStep
    DEF X11LayoutRequest, KeepRest, records, modes, IInv, TypeOK, Untouched
<1>8. QED
  BY <1>1, <1>2, <1>3, <1>4, <1>5, <1>6, <1>7, DisconnectStep DEF ClientStep

\* Every step, stuttering included.
LEMMA NextStep ==
  ASSUME IInv, [Next]_vars
  PROVE  IInv' /\ LockStep
<1>1. CASE RefreshSpace
  <2>1. Extends(scene, scene')
    BY <1>1, Typing DEF RefreshSpace, Extends, Scene, Tracked
  <2>2. QED
    BY <1>1, <2>1, SceneStep
    DEF RefreshSpace, records, modes, IInv, TypeOK, Untouched
<1>2. CASE UNCHANGED vars
  <2>1. Extends(scene, scene')
    BY <1>2, Typing, ExtendsReflexive DEF vars
  <2>2. QED
    BY <1>2, <2>1, SceneStep DEF vars, IInv, TypeOK, Untouched
<1>3. QED
  BY <1>1, <1>2, ClientSteps, FocusSteps, WindowSteps, GestureSteps, SessionSteps
  DEF Next

\* The initial desktop satisfies the invariant.
LEMMA InitInvariant == Init => IInv
<1> SUFFICES ASSUME Init PROVE IInv
  OBVIOUS
<1>1. Members({}) = {} /\ 1 \in Workspace
  BY WorkspacesAssumption DEF Members, Workspace
<1>2. TypeOK
  BY <1>1 DEF Init, TypeOK, Scene, Stack, Focus
<1>3. NoWindowLost /\ Untouched /\ Reflexive(minimized)
  BY <1>1
  DEF Init, NoWindowLost, Live, Untouched, Opened, Tracked, Reflexive
<1>4. PickerEndsAtLock
  BY DEF Init, PickerEndsAtLock, Locked
<1>5. QED
  BY <1>2, <1>3, <1>4 DEF IInv

\* The invariant holds in every reachable state.
LEMMA Invariance == Spec => []IInv
<1>1. IInv /\ [Next]_vars => IInv'
  BY NextStep
<1>2. QED
  BY <1>1, InitInvariant, PTL DEF Spec

----------------------------------------------------------------------------
\* Type correctness of the whole desktop.
THEOREM TypeCorrect == Spec => []TypeOK
<1>1. IInv => TypeOK
  BY DEF IInv
<1>2. QED
  BY <1>1, Invariance, PTL

\* In every reachable state of a desktop of any size, an open window either
\* has a workspace or is minimized, never both and never neither.
THEOREM NoWindowIsLost == Spec => []NoWindowLost
<1>1. IInv => NoWindowLost
  BY DEF IInv
<1>2. QED
  BY <1>1, Invariance, PTL

\* No picker is running in a locked session.
THEOREM PickerNeverOutlivesLock == Spec => []PickerEndsAtLock
<1>1. IInv => PickerEndsAtLock
  BY DEF IInv
<1>2. QED
  BY <1>1, Invariance, PTL

\* Whatever handler runs while the session stays locked, the keyboard stays
\* where it was or goes to a lock surface.
THEOREM LockedKeyboardStays == Spec => LockKeepsFocus
<1>1. IInv /\ [Next]_vars =>
        [Locked /\ lock' # Off => scene'.focus \in {scene.focus, LockSurface}]_vars
  BY NextStep DEF LockStep
<1>2. QED
  BY <1>1, Invariance, PTL DEF Spec, LockKeepsFocus

\* Only the picker's own steps and the lock and unlock of the session change
\* what the picker saved and whether the session is locked.
LEMMA PickerSteps ==
  ASSUME [Next]_vars
  PROVE  \/ UNCHANGED <<picker, lock>>
         \/ LockSession \/ UnlockSession \/ StartPicker \/ FinishPicker
<1>1. ASSUME NEW w \in Window
      PROVE  /\ NewToplevel(w) \/ ToplevelDestroyed(w) \/ X11Unmapped(w)
                  \/ HiddenCommit(w) \/ LayoutRequest(w) \/ X11LayoutRequest(w)
                => UNCHANGED <<picker, lock>>
             /\ \A stick \in BOOLEAN, target \in Workspace \cup {0} :
                  /\ X11MapRequest(w, stick, target) => UNCHANGED <<picker, lock>>
                  /\ \A placed \in BOOLEAN : FirstCommit(w, stick, target, placed)
                                            => UNCHANGED <<picker, lock>>
  BY DEF NewToplevel, ToplevelDestroyed, X11Unmapped, HiddenCommit, LayoutRequest,
         X11LayoutRequest, X11MapRequest, FirstCommit, KeepRest, modes
<1>2. CASE ClientStep
  BY <1>1, <1>2 DEF ClientStep, XwmDisconnected, modes
<1>3. CASE FocusStep
  <2>1. ASSUME NEW w \in Window
        PROVE  ClickWindow(w) \/ Hover(w) \/ CycleWindows(w) \/ GraftKey(w)
                 => UNCHANGED <<picker, lock>>
    BY DEF ClickWindow, Hover, CycleWindows, GraftKey, KeepRest, modes
  <2>2. ClickDesktop \/ Hover(None) \/ LayerCommit \/ LayerDestroyed
          => UNCHANGED <<picker, lock>>
    BY DEF ClickDesktop, Hover, LayerCommit, LayerDestroyed, KeepRest, modes
  <2>3. QED
    BY <1>3, <2>1, <2>2 DEF FocusStep
<1>4. CASE WindowStep
  <2>1. ASSUME NEW w \in Window
        PROVE  /\ MinimizeWindow(w) \/ UnminimizeWindow(w) \/ ActivateWindow(w)
                    => UNCHANGED <<picker, lock>>
               /\ \A on \in BOOLEAN : SetSticky(w, on) => UNCHANGED <<picker, lock>>
               /\ \A target \in Workspace : MoveWindowById(w, target)
                                            => UNCHANGED <<picker, lock>>
    BY DEF MinimizeWindow, Minimize, UnminimizeWindow, ActivateWindow, SetSticky,
           MoveWindowById, KeepRest, modes
  <2>2. MinimizeFocused \/ UnminimizeLast => UNCHANGED <<picker, lock>>
    BY DEF MinimizeFocused, UnminimizeLast, Minimize, KeepRest, modes
  <2>3. \A target \in Workspace : FocusWorkspace(target) \/ MoveFocused(target)
                                   => UNCHANGED <<picker, lock>>
    BY DEF FocusWorkspace, MoveFocused, KeepRest, modes
  <2>4. QED
    BY <1>4, <2>1, <2>2, <2>3 DEF WindowStep
<1>5. CASE GestureStep
  <2>1. (\E w \in Window : StartDrag(w)) => UNCHANGED <<picker, lock>>
    BY DEF StartDrag
  <2>2. DragMotion \/ EndDrag => UNCHANGED <<picker, lock>>
    BY DEF DragMotion, EndDrag, KeepRest, modes
  <2>3. \A target \in Workspace, moved \in BOOLEAN :
          DragAcross(target, moved) => UNCHANGED <<picker, lock>>
    BY DEF DragAcross, KeepRest, modes
  <2>4. QED
    BY <1>5, <2>1, <2>2, <2>3 DEF GestureStep
<1>6. CASE SessionStep
  <2>1. NewLockSurface => UNCHANGED <<picker, lock>>
    BY DEF NewLockSurface, KeepRest, modes
  <2>2. QED
    BY <1>6, <2>1 DEF SessionStep
<1>7. CASE RefreshSpace \/ UNCHANGED vars
  BY <1>7 DEF RefreshSpace, vars, modes
<1>8. QED
  BY <1>2, <1>3, <1>4, <1>5, <1>6, <1>7 DEF Next

\* A desktop whose users never run the window picker: from the lock to the
\* unlock, only a lock surface holds the keyboard.
THEOREM OnlyLockSurfaceFocused ==
  ASSUME "picker" \notin Env
  PROVE  Spec => []LockedFocus
<1> DEFINE Idle == LockedFocus /\ picker = Off
<1>1. Init => Idle
  BY DEF Init, LockedFocus, Locked
<1>2. IInv /\ Idle /\ [Next]_vars => Idle'
  <2> SUFFICES ASSUME IInv, Idle, [Next]_vars PROVE Idle'
    OBVIOUS
  <2>1. CASE LockSession
    <3>1. scene' = SetFocus(scene, None)
      BY <2>1 DEF LockSession, PickerDone
    <3>2. scene'.focus = None
      BY <3>1, Typing DEF SetFocus, Scene
    <3>3. QED
      BY <2>1, <3>2 DEF LockSession, LockedFocus
  <2>2. CASE UNCHANGED <<picker, lock>> \/ UnlockSession
    <3>1. LockStep
      BY NextStep
    <3>2. QED
      BY <2>2, <3>1 DEF LockStep, LockedFocus, Locked, UnlockSession
  <2>3. CASE FinishPicker \/ StartPicker
    BY <2>3 DEF FinishPicker, StartPicker
  <2>4. QED
    BY <2>1, <2>2, <2>3, PickerSteps
<1>3. Idle => LockedFocus
  OBVIOUS
<1>4. QED
  BY <1>1, <1>2, <1>3, Invariance, PTL DEF Spec

----------------------------------------------------------------------------
(***************************************************************************)
(* What is on screen. A stack is an order: each member is at its own       *)
(* height, and no two are at or above each other.                          *)
(***************************************************************************)
Ordered(st) ==
  \A a, b : <<a, b>> \in st => <<a, a>> \in st /\ (<<b, a>> \in st => a = b)

\* The stack operations keep the order, and what PopTo leaves on top is one
\* of the windows it looks for.
LEMMA OrderedStacks ==
  ASSUME NEW st \in Stack, Ordered(st), NEW S, NEW w \in Window
  PROVE  /\ Ordered(Retain(st, S)) /\ Ordered(Push(st, w))
         /\ Ordered(PopTo(st, S)) /\ Tops(PopTo(st, S)) \subseteq S
<1>1. ASSUME NEW V
      PROVE  Ordered(Retain(st, V))
  <2>1. \A a, b : <<a, b>> \in Retain(st, V) <=>
                    <<a, b>> \in st /\ a \in V /\ b \in V
    BY DEF Retain
  <2>2. QED
    BY <2>1 DEF Ordered
<1>2. Ordered(Push(st, w))
  <2> DEFINE R == Retain(st, Window \ {w})
             P == Push(st, w)
  <2>1. \A a, b : <<a, b>> \in R => a # w /\ b # w
    BY DEF Retain
  <2>2. R \in Stack /\ Ordered(R)
    BY <1>1, RetainStack
  <2>3. P = R \cup ({w} \X (Members(R) \cup {w}))
    BY DEF Push
  <2> HIDE DEF R, P
  <2>4. \A a, b : <<a, b>> \in P <=>
                    <<a, b>> \in R \/ (a = w /\ b \in Members(R) \cup {w})
    BY <2>3
  <2>5. Ordered(P)
    BY <2>1, <2>2, <2>4 DEF Ordered
  <2>6. QED
    BY <2>5 DEF P
<1> DEFINE Q == PopTo(st, S)
<1>3. \A a, b : <<a, b>> \in Q <=> <<a, b>> \in st /\ \E s \in S : <<s, a>> \in st
  BY DEF PopTo
<1>4. Q \in Stack
  BY PopToStack
<1> HIDE DEF Q
<1>5. Ordered(Q)
  BY <1>3 DEF Ordered
<1>6. ASSUME NEW top \in Tops(Q)
      PROVE  top \in S
  <2>1. top \in Members(Q) /\ \A v \in Members(Q) : <<top, v>> \in Q
    BY DEF Tops
  <2>2. PICK v \in Window : <<top, v>> \in Q
    BY <1>4, <2>1, MembersStack
  <2>3. PICK s \in S : <<s, top>> \in st
    BY <1>3, <2>2
  <2>4. <<s, s>> \in st
    BY <2>3 DEF Ordered
  <2>5. <<s, s>> \in Q
    BY <1>3, <2>4
  <2>6. s \in Members(Q)
    <3>1. s \in Window
      BY <2>4 DEF Stack
    <3>2. QED
      BY <1>4, <2>5, <3>1, MembersStack
  <2>7. <<top, s>> \in st
    BY <1>3, <2>1, <2>6
  <2>8. top = s
    BY <2>3, <2>7 DEF Ordered
  <2>9. QED
    BY <2>8
<1>7. QED
  BY <1>1, <1>2, <1>5, <1>6 DEF Q

\* A scene whose stacks are orders.
Fine(s) == s \in Scene /\ \A ws \in Workspace : Ordered(s.mru[ws])

SameLayout(s, t) ==
  Fine(t) /\ t.space = s.space /\ t.wsOf = s.wsOf /\ t.active = s.active

\* Setting the focus and filing it in a stack moves no window.
LEMMA FilingKeepsLayout ==
  ASSUME NEW s, Fine(s), NEW w \in Window, NEW ws \in Workspace, NEW target \in Focus
  PROVE  /\ SameLayout(s, SetFocus(s, target)) /\ SetFocus(s, target).focus = target
         /\ SameLayout(s, ClearFocus(s))
         /\ ClearFocus(s).focus = IF Locked THEN s.focus ELSE None
         /\ SameLayout(s, RecordFocus(s, ws, w)) /\ RecordFocus(s, ws, w).focus = s.focus
         /\ SameLayout(s, RemoveFromFocus(s, ws, w))
         /\ RemoveFromFocus(s, ws, w).focus = s.focus
<1>1. s \in Scene /\ s.mru[ws] \in Stack /\ Ordered(s.mru[ws])
  BY DEF Fine, Scene
<1>2. Push(s.mru[ws], w) \in Stack /\ Ordered(Push(s.mru[ws], w))
  BY <1>1, PushStack, OrderedStacks
<1>3. /\ Retain(s.mru[ws], Window \ {w}) \in Stack
      /\ Ordered(Retain(s.mru[ws], Window \ {w}))
  BY <1>1, RetainStack, OrderedStacks
<1>4. None \in Focus
  BY DEF Focus
<1>5. SameLayout(s, SetFocus(s, target)) /\ SetFocus(s, target).focus = target
  BY <1>1 DEF SameLayout, SetFocus, Fine, Scene
<1>6. /\ SameLayout(s, ClearFocus(s))
      /\ ClearFocus(s).focus = IF Locked THEN s.focus ELSE None
  BY <1>1, <1>4 DEF SameLayout, SetFocus, ClearFocus, Fine, Scene
<1>7. SameLayout(s, RecordFocus(s, ws, w)) /\ RecordFocus(s, ws, w).focus = s.focus
  BY <1>1, <1>2 DEF SameLayout, RecordFocus, Fine, Scene
<1>8. /\ SameLayout(s, RemoveFromFocus(s, ws, w))
      /\ RemoveFromFocus(s, ws, w).focus = s.focus
  BY <1>1, <1>3 DEF SameLayout, RemoveFromFocus, Fine, Scene
<1>9. QED
  BY <1>5, <1>6, <1>7, <1>8

\* focus_window.
LEMMA FocusKeepsLayout ==
  ASSUME NEW s, Fine(s), NEW w \in Window
  PROVE  /\ SameLayout(s, FocusWindow(s, w))
         /\ FocusWindow(s, w).focus = IF Locked THEN s.focus ELSE w
<1>1. CASE Locked
  BY <1>1 DEF FocusWindow, SameLayout
<1>2. CASE ~Locked
  <2>1. s.active \in Workspace /\ w \in Focus
    BY DEF Fine, Scene, Focus
  <2>2. SameLayout(s, SetFocus(s, w)) /\ SetFocus(s, w).focus = w
    BY <2>1, FilingKeepsLayout
  <2>3. Fine(SetFocus(s, w))
    BY <2>2 DEF SameLayout
  <2>4. /\ SameLayout(SetFocus(s, w), RecordFocus(SetFocus(s, w), s.active, w))
        /\ RecordFocus(SetFocus(s, w), s.active, w).focus = w
    BY <2>1, <2>2, <2>3, FilingKeepsLayout
  <2>5. QED
    BY <1>2, <2>2, <2>4 DEF FocusWindow, SameLayout
<1>3. QED
  BY <1>1, <1>2

\* The fallback of focus moves no window and lands on a mapped one.
LEMMA FallbackIsMapped ==
  ASSUME NEW s, Fine(s)
  PROVE  /\ SameLayout(s, FocusMruTop(s))
         /\ Locked => FocusMruTop(s).focus = s.focus
         /\ ~Locked => FocusMruTop(s).focus \in (s.space \cap NotDead) \cup {None}
<1> DEFINE st == PopTo(s.mru[s.active], Focusable(s))
           popped == [s EXCEPT !.mru[s.active] = st]
           top == CHOOSE w \in Tops(st) : TRUE
<1>1. s \in Scene /\ s.active \in Workspace /\ s.mru[s.active] \in Stack
      /\ Ordered(s.mru[s.active])
  BY DEF Fine, Scene
<1>2. st \in Stack
  BY <1>1, PopToStack
<1>3. Ordered(st) /\ Tops(st) \subseteq Focusable(s)
  <2>1. CASE Window = {}
    BY <1>1, <1>2, <2>1 DEF Stack, Ordered, Tops, Members
  <2>2. ASSUME NEW w \in Window
        PROVE  Ordered(st) /\ Tops(st) \subseteq Focusable(s)
    BY <1>1, OrderedStacks
  <2>3. QED
    BY <2>1, <2>2
<1> HIDE DEF st
<1>4. SameLayout(s, popped) /\ popped.focus = s.focus
  BY <1>1, <1>2, <1>3 DEF SameLayout, Fine, Scene
<1>5. Fine(popped)
  BY <1>4 DEF SameLayout
<1> HIDE DEF popped
<1>6. CASE Tops(st) = {}
  <2>1. FocusMruTop(s) = ClearFocus(popped)
    BY <1>6 DEF FocusMruTop, st, popped
  <2>2. SameLayout(popped, ClearFocus(popped))
        /\ ClearFocus(popped).focus = IF Locked THEN popped.focus ELSE None
    BY <1>5 DEF ClearFocus, SetFocus, SameLayout, Fine, Scene, Focus
  <2>3. QED
    BY <1>4, <2>1, <2>2 DEF SameLayout
<1>7. CASE Tops(st) # {}
  <2>1. FocusMruTop(s) = FocusWindow(popped, top)
    BY <1>7 DEF FocusMruTop, st, popped
  <2>2. top \in Window /\ top \in s.space \cap NotDead
    BY <1>1, <1>3, <1>7 DEF Focusable, Scene, Fine
  <2> HIDE DEF top
  <2>3. /\ SameLayout(popped, FocusWindow(popped, top))
        /\ FocusWindow(popped, top).focus = IF Locked THEN popped.focus ELSE top
    BY <1>5, <2>2, FocusKeepsLayout
  <2>4. QED
    BY <1>4, <2>1, <2>2, <2>3 DEF SameLayout
<1>8. QED
  BY <1>6, <1>7

\* Only windows that are not minimized have a workspace.
Kept(s) == \A w \in Live : s.wsOf[w] # 0 => ~IsMinimized(w)

\* Where a switch to another workspace leaves the open windows.
LEMMA SwitchLands ==
  ASSUME NEW s, Fine(s), Kept(s), NEW target \in Workspace, target # s.active,
         minimized \in Stack
  PROVE  LET t == FocusWorkspaceId(s, target)
         IN  /\ Fine(t) /\ t.active = target
             /\ \A w \in Live :
                  /\ t.wsOf[w] = IF w \in s.space \cap sticky /\ s.wsOf[w] # 0
                                 THEN target ELSE s.wsOf[w]
                  /\ w \in t.space <=> w \in s.space \cap sticky \/ t.wsOf[w] = target
             /\ Locked => t.focus = s.focus
             /\ ~Locked => t.focus \in (t.space \cap NotDead) \cup {None}
<1> DEFINE pruned == PruneDead(s)
           left   == IF FocusedWindow(s) = None THEN pruned
                     ELSE RecordFocus(pruned, s.active, s.focus)
           wsOf   == [w \in Window |->
                        IF w \in Pinned(s) /\ left.wsOf[w] # 0
                        THEN target ELSE left.wsOf[w]]
           shown  == {w \in Window : wsOf[w] = target /\ ~IsMinimized(w)}
           there  == [left EXCEPT !.active = target,
                                  !.wsOf = wsOf,
                                  !.space = Pinned(s) \cup shown]
           t      == FocusWorkspaceId(s, target)
<1>1. t = FocusMruTop(there)
  BY DEF FocusWorkspaceId
<1>2. /\ Fine(pruned) /\ pruned.space = s.space /\ pruned.active = s.active
      /\ pruned.focus = s.focus /\ \A w \in Live : pruned.wsOf[w] = s.wsOf[w]
  <2>1. \A ws \in Workspace : Retain(s.mru[ws], NotDead) \in Stack
                              /\ Ordered(Retain(s.mru[ws], NotDead))
    <3>1. ASSUME NEW ws \in Workspace
          PROVE  s.mru[ws] \in Stack /\ Ordered(s.mru[ws])
      BY DEF Fine, Scene
    <3>2. CASE Window = {}
      BY <3>1, <3>2 DEF Stack, Ordered, Retain
    <3>3. ASSUME NEW w \in Window, NEW ws \in Workspace
          PROVE  Ordered(Retain(s.mru[ws], NotDead))
      BY <3>1, OrderedStacks
    <3>4. QED
      BY <3>1, <3>2, <3>3, RetainStack DEF Stack, Ordered, Retain
  <2>2. QED
    BY <2>1 DEF PruneDead, Fine, Scene, Live, NotDead
<1> HIDE DEF pruned
<1>3. /\ Fine(left) /\ left.space = s.space /\ left.focus = s.focus
      /\ \A w \in Live : left.wsOf[w] = s.wsOf[w]
  <2>1. CASE FocusedWindow(s) = None
    BY <1>2, <2>1
  <2>2. CASE FocusedWindow(s) # None
    <3>1. s.focus \in Window /\ s.active \in Workspace
      BY <2>2 DEF FocusedWindow, Fine, Scene
    <3>2. /\ SameLayout(pruned, RecordFocus(pruned, s.active, s.focus))
          /\ RecordFocus(pruned, s.active, s.focus).focus = pruned.focus
      <4>1. None \in Focus
        BY DEF Focus
      <4>2. QED
        BY <1>2, <3>1, <4>1, FilingKeepsLayout
    <3>3. left = RecordFocus(pruned, s.active, s.focus)
      BY <2>2
    <3> HIDE DEF left
    <3>4. QED
      BY <1>2, <3>2, <3>3 DEF SameLayout
  <2>3. QED
    BY <2>1, <2>2
<1> HIDE DEF left
<1>4. wsOf \in [Window -> Workspace \cup {0}] /\ shown \subseteq Window
      /\ Pinned(s) \subseteq Window
  BY <1>3 DEF Fine, Scene, Pinned
<1>5. /\ Fine(there) /\ there.active = target /\ there.wsOf = wsOf
      /\ there.space = Pinned(s) \cup shown /\ there.focus = left.focus
  <2> HIDE DEF wsOf, shown
  <2>1. QED
    BY <1>3, <1>4 DEF Fine, Scene
<1>6. ASSUME NEW w \in Live
      PROVE  /\ there.wsOf[w] = IF w \in s.space \cap sticky /\ s.wsOf[w] # 0
                                THEN target ELSE s.wsOf[w]
             /\ w \in there.space <=> w \in s.space \cap sticky \/ there.wsOf[w] = target
  <2>1. w \in Window /\ target # 0
    BY DEF Live, Workspace
  <2>2. there.wsOf[w] = IF w \in s.space \cap sticky /\ s.wsOf[w] # 0
                        THEN target ELSE s.wsOf[w]
    <3>1. wsOf[w] = IF w \in Pinned(s) /\ left.wsOf[w] # 0
                    THEN target ELSE left.wsOf[w]
      BY <2>1
    <3> HIDE DEF wsOf, there
    <3>2. QED
      BY <1>3, <1>5, <3>1 DEF Pinned
  <2>3. there.wsOf[w] = target => ~IsMinimized(w)
    BY <2>1, <2>2 DEF Kept
  <2>4. w \in shown <=> there.wsOf[w] = target /\ ~IsMinimized(w)
    <3> HIDE DEF wsOf, there
    <3>1. QED
      BY <1>5, <2>1
  <2> HIDE DEF there, wsOf, shown
  <2>5. QED
    BY <1>5, <2>2, <2>3, <2>4 DEF Pinned
<1> HIDE DEF there, wsOf, shown
<1>7. /\ SameLayout(there, t)
      /\ Locked => t.focus = there.focus
      /\ ~Locked => t.focus \in (there.space \cap NotDead) \cup {None}
  BY <1>1, <1>5, FallbackIsMapped
<1> HIDE DEF t
<1>8. /\ Fine(t) /\ t.active = target
      /\ \A w \in Live :
           /\ t.wsOf[w] = IF w \in s.space \cap sticky /\ s.wsOf[w] # 0
                          THEN target ELSE s.wsOf[w]
           /\ w \in t.space <=> w \in s.space \cap sticky \/ t.wsOf[w] = target
      /\ Locked => t.focus = s.focus
      /\ ~Locked => t.focus \in (t.space \cap NotDead) \cup {None}
  BY <1>3, <1>5, <1>6, <1>7 DEF SameLayout
<1>9. QED
  BY <1>8 DEF t

\* Moving a window takes it off screen, unless it is moved nowhere; if it had
\* the keyboard, a mapped window gets it.
LEMMA MoveLands ==
  ASSUME NEW s, Fine(s), NEW w \in Window, NEW target \in Workspace, NEW stuck
  PROVE  LET t == MoveWindowToWorkspace(s, stuck, w, target)
         IN  /\ Fine(t) /\ t.active = s.active
             /\ \A v \in Window \ {w} : /\ t.wsOf[v] = s.wsOf[v]
                                        /\ v \in t.space <=> v \in s.space
             /\ t.wsOf[w] = 0 <=> s.wsOf[w] = 0
             /\ target = s.active \/ w \in stuck => t = s
             /\ target # s.active /\ w \notin stuck =>
                  w \notin t.space /\ t.wsOf[w] \in {0, target}
             /\ Locked => t.focus = s.focus
             /\ ~Locked => \/ t = s \/ t.focus \in t.space \cup {None}
                           \/ t.focus = s.focus /\ FocusedWindow(s) # w
<1> DEFINE put   == Reassign(s, w, target)
           noted == RecordFocus(put, target, w)
           filed == RemoveFromFocus(noted, s.active, w)
           gone  == UnmapElem(filed, w)
           t     == MoveWindowToWorkspace(s, stuck, w, target)
<1>1. s.active \in Workspace /\ None \in Focus /\ target # 0 /\ s \in Scene
  BY DEF Fine, Scene, Focus, Workspace
<1>2. CASE target = s.active \/ w \in stuck
  <2>1. t = s
    BY <1>2 DEF MoveWindowToWorkspace
  <2> HIDE DEF t
  <2>2. QED
    BY <1>2, <2>1 DEF t
<1>3. CASE target # s.active /\ w \notin stuck
  <2>1. t = HandOff(s, gone, w)
    BY <1>3 DEF MoveWindowToWorkspace
  <2>2. /\ Fine(put) /\ put.active = s.active /\ put.space = s.space
        /\ put.focus = s.focus
        /\ \A v \in Window \ {w} : put.wsOf[v] = s.wsOf[v]
        /\ put.wsOf[w] = IF s.wsOf[w] = 0 THEN 0 ELSE target
    BY <1>1 DEF Reassign, Fine, Scene
  <2> HIDE DEF put
  <2>3. SameLayout(put, noted) /\ noted.focus = put.focus
    BY <1>1, <2>2, FilingKeepsLayout
  <2>4. Fine(noted)
    BY <2>3 DEF SameLayout
  <2> HIDE DEF noted
  <2>5. SameLayout(noted, filed) /\ filed.focus = noted.focus
    BY <1>1, <2>4, FilingKeepsLayout
  <2> HIDE DEF filed
  <2>6. /\ Fine(gone) /\ gone.active = s.active /\ gone.space = s.space \ {w}
        /\ gone.focus = s.focus /\ gone.wsOf = put.wsOf
    BY <2>2, <2>3, <2>5 DEF UnmapElem, SameLayout, Fine, Scene
  <2> HIDE DEF gone
  <2>7. /\ SameLayout(gone, t)
        /\ Locked => t.focus = s.focus
        /\ \/ t.focus = s.focus /\ FocusedWindow(s) # w
           \/ t.focus = s.focus /\ Locked
           \/ t.focus \in gone.space \cup {None}
    BY <2>1, <2>6, FallbackIsMapped DEF HandOff, SameLayout
  <2> HIDE DEF t
  <2>8. QED
    BY <1>1, <1>3, <2>2, <2>6, <2>7 DEF SameLayout, t
<1>4. QED
  BY <1>2, <1>3

(***************************************************************************)
(* What each step does to the scene. Calm environments make none of the    *)
(* requests that break it.                                                 *)
(***************************************************************************)
Calm == Env \cap {"hidden_layout", "hidden_sticky", "late_rule", "x11_rule",
                  "drag"} = {}

\* The Space is the active workspace, and pinned windows are on it.
Tidy(s, L, pins) ==
  /\ \A w \in L : w \in s.space <=> s.wsOf[w] = s.active
  /\ \A w \in L \cap pins : s.wsOf[w] \in {0, s.active}
Aimed(s, L) == s.focus \in L => s.wsOf[s.focus] \in {0, s.active}

Neat == Tidy(scene, Live, sticky) /\ grab = None /\ painted = {}

\* An unlocked step where nothing but the scene decides the focus.
Aiming == /\ Calm /\ Neat /\ Aimed(scene, Live) /\ "graft" \notin Env
          /\ ~Locked /\ lock' = Off /\ picker = Off

\* A switch repairs the scene and the focus, whatever the environment.
Repairs ==
  scene'.active # scene.active =>
    /\ \A w \in {v \in Window : life[v] = "live" /\ life'[v] = "live"} :
         /\ scene'.wsOf[w] = scene'.active => w \in scene'.space
         /\ w \in scene'.space =>
              scene'.wsOf[w] = scene'.active \/ w \in sticky
         /\ w \in scene.space \cap sticky => w \in scene'.space
    /\ ~Locked => (scene'.focus \in Live => scene'.focus \in scene'.space)

Outcome == /\ Fine(scene') /\ Repairs
           /\ Calm /\ Neat => Neat'
           /\ Aiming => Aimed(scene, Live)'

\* A step that stays on the workspace and disturbs one window at most.
LEMMA SettleStep ==
  ASSUME IInv, Fine(scene'), scene'.active = scene.active, NEW w,
         \A v \in Live' \ {w} : /\ v \in Live /\ scene'.wsOf[v] = scene.wsOf[v]
                                /\ v \in scene'.space <=> v \in scene.space,
         sticky' \subseteq sticky \cup {w},
         Calm /\ Neat =>
           /\ grab' = None /\ painted' = {}
           /\ w \in Live' =>
                /\ w \in scene'.space <=> scene'.wsOf[w] = scene.active
                /\ w \in sticky' => scene'.wsOf[w] \in {0, scene.active},
         Aiming =>
           \/ scene'.focus \in scene'.space \cup {None, Layer}
           \/ scene'.focus = scene.focus /\ scene.focus # w
           \/ scene'.focus = w /\ (w \in Live' => scene'.wsOf[w] \in {0, scene.active})
  PROVE  Outcome
<1>1. Repairs
  BY DEF Repairs
<1>2. ASSUME Calm, Neat
      PROVE  Tidy(scene', Live', sticky')
  BY <1>2 DEF Neat, Tidy
<1>3. Calm /\ Neat => Neat'
  BY <1>2 DEF Neat, Tidy, Live
<1>4. ASSUME Aiming
      PROVE  Aimed(scene', Live')
  <2>1. Tidy(scene', Live', sticky')
    BY <1>2, <1>4 DEF Aiming
  <2>2. None \notin Live' /\ Layer \notin Live'
    BY TargetsAssumption DEF Live
  <2>3. CASE scene'.focus \in scene'.space \cup {None, Layer}
    BY <2>1, <2>2, <2>3 DEF Aimed, Tidy
  <2>4. CASE scene'.focus = scene.focus /\ scene.focus # w
    BY <1>4, <2>4 DEF Aiming, Aimed
  <2>5. CASE scene'.focus = w /\ (w \in Live' => scene'.wsOf[w] \in {0, scene.active})
    BY <2>5 DEF Aimed
  <2>6. QED
    BY <1>4, <2>3, <2>4, <2>5
<1>5. Aiming => Aimed(scene, Live)'
  BY <1>4 DEF Aimed, Live
<1>6. QED
  BY <1>1, <1>3, <1>5 DEF Outcome

\* A step that changes the focus alone.
LEMMA FocusOnlyStep ==
  ASSUME IInv, SameLayout(scene, scene'), UNCHANGED records,
         Calm /\ Neat => grab' = None,
         Aiming => scene'.focus \in scene.space \cup {None, Layer, scene.focus}
  PROVE  Outcome
<1>1. Live' = Live /\ sticky' = sticky /\ painted' = painted
  BY DEF records, Live
<1>2. Fine(scene') /\ scene'.space = scene.space /\ scene'.wsOf = scene.wsOf
      /\ scene'.active = scene.active
  BY DEF SameLayout
<1>3. None \notin Live'
  BY TargetsAssumption DEF Live
<1>4. Aiming => \/ scene'.focus \in scene'.space \cup {None, Layer}
                \/ scene'.focus = scene.focus /\ scene.focus # None
  BY <1>2
<1>5. Calm /\ Neat => grab' = None /\ painted' = {}
  BY <1>1 DEF Neat
<1>6. QED
  BY <1>1, <1>2, <1>3, <1>4, <1>5, SettleStep

\* A mapped window takes the keyboard.
LEMMA FocusMappedStep ==
  ASSUME IInv, Fine(scene), NEW w \in scene.space,
         scene' = FocusWindow(scene, w), KeepRest
  PROVE  Outcome
<1>1. w \in Window
  BY Typing
<1>2. SameLayout(scene, scene') /\ scene'.focus \in {scene.focus, w}
  BY <1>1, FocusKeepsLayout
<1>3. UNCHANGED records /\ (Calm /\ Neat => grab' = None)
  BY DEF KeepRest, modes, Neat
<1>4. QED
  BY <1>2, <1>3, FocusOnlyStep

\* Clicks, hover, cycling, layer surfaces and grafted keys.
LEMMA FocusOutcomes ==
  ASSUME IInv, Fine(scene), FocusStep
  PROVE  Outcome
<1> USE Typing
<1>0. 1 \in Workspace
  BY WorkspacesAssumption DEF Workspace
<1>1. ASSUME KeepRest
      PROVE  UNCHANGED records /\ (Calm /\ Neat => grab' = None)
  BY <1>1 DEF KeepRest, modes, Neat
<1>2. ASSUME NEW target \in Focus
      PROVE  /\ SameLayout(scene, SetFocus(scene, target))
             /\ SetFocus(scene, target).focus = target
             /\ SameLayout(scene, ClearFocus(scene))
             /\ ClearFocus(scene).focus \in {scene.focus, None}
  BY DEF SetFocus, ClearFocus, SameLayout, Fine, Scene
<1>3. CASE ClickDesktop
  <2>1. scene' = ClearFocus(scene)
    BY <1>3 DEF ClickDesktop
  <2>2. QED
    BY <1>1, <1>2, <1>3, <2>1, FocusOnlyStep DEF ClickDesktop
<1>4. ASSUME NEW w \in scene.space, scene' = FocusWindow(scene, w), KeepRest
      PROVE  Outcome
  BY <1>4, FocusMappedStep
<1>5. ASSUME NEW t \in Window \cup {None}, Hover(t)
      PROVE  Outcome
  <2>1. KeepRest /\ scene' = IF t = None THEN ClearFocus(scene)
                             ELSE FocusWindow(scene, t)
    BY <1>5 DEF Hover
  <2>2. t # None => t \in scene.space
    BY <1>5 DEF Hover
  <2>3. CASE t = None
    BY <1>1, <1>2, <2>1, <2>3, FocusOnlyStep
  <2>4. QED
    BY <1>4, <2>1, <2>2, <2>3
<1>6. ASSUME NEW w \in Window, ClickWindow(w) \/ CycleWindows(w)
      PROVE  Outcome
  BY <1>4, <1>6 DEF ClickWindow, CycleWindows
<1>7. ASSUME NEW w \in Window, GraftKey(w)
      PROVE  Outcome
  <2>1. SameLayout(scene, scene') /\ KeepRest /\ ~Aiming
    BY <1>2, <1>7 DEF GraftKey, Focus, Aiming
  <2>2. QED
    BY <1>1, <2>1, FocusOnlyStep
<1>8. CASE LayerCommit
  <2>1. SameLayout(scene, scene') /\ scene'.focus \in {scene.focus, Layer}
    BY <1>2, <1>8 DEF LayerCommit, SameLayout
  <2>2. UNCHANGED records /\ grab' = grab
    BY <1>8 DEF LayerCommit
  <2>3. QED
    BY <2>1, <2>2, FocusOnlyStep DEF Neat
<1>9. CASE LayerDestroyed
  <2>1. SameLayout(scene, scene')
        /\ (~Locked => scene'.focus \in scene.space \cup {None, scene.focus})
    BY <1>9, FallbackIsMapped DEF LayerDestroyed, SameLayout
  <2>2. UNCHANGED records /\ grab' = grab
    BY <1>9 DEF LayerDestroyed
  <2>3. QED
    BY <2>1, <2>2, FocusOnlyStep DEF Neat, Aiming
<1>10. QED
  BY <1>3, <1>5, <1>6, <1>7, <1>8, <1>9 DEF FocusStep

\* Minimizing a window takes it off its workspace and off the screen.
LEMMA MinimizeOutcome ==
  ASSUME IInv, Fine(scene), NEW w \in Opened, Minimize(w)
  PROVE  Outcome
<1> USE Typing
<1> DEFINE hidden == Forget(UnmapElem(scene, w), w)
<1>1. w \in Window /\ scene.active # 0
  BY DEF Workspace
<1>2. /\ Fine(hidden) /\ hidden.space = scene.space \ {w}
      /\ hidden.active = scene.active /\ hidden.focus = scene.focus
      /\ \A v \in Window :
           hidden.wsOf[v] = IF v = w THEN 0 ELSE scene.wsOf[v]
  <2>1. ASSUME NEW ws \in Workspace
        PROVE  /\ Retain(scene.mru[ws], Window \ {w}) \in Stack
               /\ Ordered(Retain(scene.mru[ws], Window \ {w}))
    <3>1. scene.mru[ws] \in Stack /\ Ordered(scene.mru[ws])
      BY DEF Fine, Scene
    <3>2. QED
      BY <1>1, <3>1, RetainStack, OrderedStacks
  <2>2. QED
    BY <1>1, <2>1 DEF Forget, UnmapElem, Fine, Scene
<1>3. scene' = IF FocusedWindow(hidden) = w THEN ClearFocus(hidden) ELSE hidden
  BY DEF Minimize
<1> HIDE DEF hidden
<1>4. /\ Fine(scene') /\ scene'.active = scene.active
      /\ scene'.space = scene.space \ {w} /\ scene'.wsOf = hidden.wsOf
      /\ scene'.focus \in {scene.focus, None}
  BY <1>2, <1>3 DEF ClearFocus, SetFocus, Fine, Scene
<1>5. UNCHANGED <<sticky, life, painted, grab>> /\ Live' = Live
  BY DEF Minimize, records, modes, Live
<1>6. \A v \in Live' \ {w} : /\ v \in Live /\ scene'.wsOf[v] = scene.wsOf[v]
                             /\ v \in scene'.space <=> v \in scene.space
  BY <1>2, <1>4, <1>5 DEF Live
<1>7. QED
  BY <1>1, <1>2, <1>4, <1>5, <1>6, SettleStep DEF Neat

\* A window is mapped and assigned to the active workspace, and focused.
LEMMA RestoreLands ==
  ASSUME Fine(scene), NEW w \in Window
  PROVE  LET t == Restore(scene, w)
         IN  /\ Fine(t) /\ t.active = scene.active
             /\ t.space = scene.space \cup {w} /\ t.wsOf[w] = scene.active
             /\ \A v \in Window \ {w} : t.wsOf[v] = scene.wsOf[v]
             /\ t.focus = IF Locked THEN scene.focus ELSE w
<1> DEFINE mapped == Assign(MapElement(scene, w), w, scene.active)
           t == Restore(scene, w)
<1>1. /\ Fine(mapped) /\ mapped.active = scene.active
      /\ mapped.space = scene.space \cup {w} /\ mapped.wsOf[w] = scene.active
      /\ \A v \in Window \ {w} : mapped.wsOf[v] = scene.wsOf[v]
      /\ mapped.focus = scene.focus
  BY DEF Assign, MapElement, Fine, Scene
<1>2. t = FocusWindow(mapped, w)
  BY DEF Restore
<1> HIDE DEF mapped, t
<1>3. SameLayout(mapped, t) /\ t.focus = IF Locked THEN mapped.focus ELSE w
  BY <1>1, <1>2, FocusKeepsLayout
<1>4. QED
  BY <1>1, <1>3 DEF SameLayout, t

\* Restoring a window puts it on screen, on the active workspace.
LEMMA RestoreOutcome ==
  ASSUME IInv, Fine(scene), NEW w \in Window, scene' = Restore(scene, w),
         UNCHANGED <<records, modes>>
  PROVE  Outcome
<1> USE Typing
<1>1. /\ Fine(scene') /\ scene'.active = scene.active
      /\ scene'.space = scene.space \cup {w} /\ scene'.wsOf[w] = scene.active
      /\ \A v \in Window \ {w} : scene'.wsOf[v] = scene.wsOf[v]
      /\ scene'.focus = IF Locked THEN scene.focus ELSE w
  BY RestoreLands
<1>2. UNCHANGED <<sticky, life, painted, grab>> /\ Live' = Live
  BY DEF records, modes, Live
<1>3. \A v \in Live' \ {w} : /\ v \in Live /\ scene'.wsOf[v] = scene.wsOf[v]
                             /\ v \in scene'.space <=> v \in scene.space
  BY <1>1, <1>2 DEF Live
<1>4. w \in scene'.space
  BY <1>1
<1>5. QED
  BY <1>1, <1>2, <1>3, <1>4, SettleStep DEF Neat, Aiming

\* The invariant keeps minimized windows off the workspaces.
LEMMA KeptScene ==
  ASSUME IInv
  PROVE  Kept(scene)
BY DEF IInv, NoWindowLost, Kept, Live

\* A switch from a scene that differs from the present one in no live window
\* but those of S, which it leaves untracked if they are, and on screen if
\* they were.
LEMMA SwitchOutcome ==
  ASSUME IInv, NEW s, Fine(s), s.active = scene.active,
         NEW target \in Workspace, target # s.active,
         \A w \in Live : s.wsOf[w] = 0 <=> scene.wsOf[w] = 0,
         scene.space \cap sticky \subseteq s.space,
         NEW t, t = FocusWorkspaceId(s, target),
         SameLayout(t, scene'), UNCHANGED <<life, sticky>>,
         ~Locked => scene'.focus \in t.space \cup {None} \/ scene'.focus \notin Live,
         Calm /\ Neat => Tidy(s, Live, sticky) /\ grab' = None /\ painted' = {}
  PROVE  Outcome
<1> USE Typing
<1>1. Kept(s) /\ minimized \in Stack
  BY KeptScene DEF Kept, IInv, TypeOK
<1>2. /\ Fine(t) /\ t.active = target
      /\ \A w \in Live :
           /\ t.wsOf[w] = IF w \in s.space \cap sticky /\ s.wsOf[w] # 0
                          THEN target ELSE s.wsOf[w]
           /\ w \in t.space <=> w \in s.space \cap sticky \/ t.wsOf[w] = target
  BY <1>1, SwitchLands
<1>3. /\ Fine(scene') /\ scene'.space = t.space /\ scene'.wsOf = t.wsOf
      /\ scene'.active = target /\ Live' = Live
  BY <1>2 DEF SameLayout, Live
<1>4. None \notin Live
  BY TargetsAssumption DEF Live
<1>5. Repairs
  <2>1. ASSUME NEW w \in Live
        PROVE  /\ scene'.wsOf[w] = scene'.active => w \in scene'.space
               /\ w \in scene'.space =>
                    scene'.wsOf[w] = scene'.active \/ w \in sticky
               /\ w \in scene.space \cap sticky => w \in scene'.space
    BY <1>2, <1>3
  <2>2. ~Locked => (scene'.focus \in Live => scene'.focus \in scene'.space)
    BY <1>3, <1>4
  <2>3. QED
    BY <2>1, <2>2 DEF Repairs, Live
<1>6. ASSUME Calm, Neat
      PROVE  Tidy(scene', Live, sticky)
  <2>1. ASSUME NEW w \in Live
        PROVE  /\ w \in scene'.space <=> scene'.wsOf[w] = target
               /\ w \in sticky => scene'.wsOf[w] \in {0, target}
    <3>1. /\ w \in s.space <=> s.wsOf[w] = s.active
          /\ w \in sticky => s.wsOf[w] \in {0, s.active}
      BY <1>6 DEF Tidy
    <3>2. s.active # 0
      BY DEF Workspace
    <3>3. QED
      BY <1>2, <1>3, <3>1, <3>2
  <2>2. QED
    BY <1>3, <2>1 DEF Tidy
<1>7. Calm /\ Neat => Neat'
  BY <1>3, <1>6 DEF Neat, Tidy, Live
<1>8. ASSUME Aiming
      PROVE  Aimed(scene', Live')
  BY <1>3, <1>4, <1>6, <1>8 DEF Aiming, Aimed, Tidy
<1>9. Aiming => Aimed(scene, Live)'
  BY <1>8 DEF Aimed, Live
<1>10. QED
  BY <1>3, <1>5, <1>7, <1>9 DEF Outcome

\* A switch to the workspace that is active changes nothing.
LEMMA SwitchNowhere ==
  ASSUME NEW s
  PROVE  FocusWorkspaceId(s, s.active) = s
BY DEF FocusWorkspaceId

\* Activating a window by id, from wherever it is.
LEMMA ActivateOutcome ==
  ASSUME IInv, Fine(scene), NEW w \in Window, ActivateWindow(w)
  PROVE  Outcome
<1> USE Typing
<1>1. UNCHANGED <<records, modes>>
  BY DEF ActivateWindow
<1>2. UNCHANGED <<sticky, life, painted, grab>> /\ Live' = Live
  BY <1>1 DEF records, modes, Live
<1>3. CASE IsMinimized(w)
  <2> DEFINE mapped == Assign(MapElement(scene, w), w, scene.active)
  <2>1. scene' = FocusWindow(IF mapped.wsOf[w] = 0 THEN mapped
                             ELSE FocusWorkspaceId(mapped, mapped.wsOf[w]), w)
    BY <1>3 DEF ActivateWindow
  <2>2. mapped.wsOf[w] = mapped.active
    BY DEF Assign, MapElement, Scene
  <2> HIDE DEF mapped
  <2>3. scene' = FocusWindow(mapped, w)
    BY <2>1, <2>2, SwitchNowhere
  <2>4. scene' = Restore(scene, w)
    BY <2>3 DEF Restore, mapped
  <2>5. QED
    BY <1>1, <2>4, RestoreOutcome
<1>4. CASE ~IsMinimized(w) /\ scene.wsOf[w] \in {0, scene.active}
  <2>1. scene' = FocusWindow(scene, w)
    BY <1>4, SwitchNowhere DEF ActivateWindow
  <2>2. SameLayout(scene, scene') /\ scene'.focus \in {scene.focus, w}
    BY <2>1, FocusKeepsLayout
  <2>3. /\ Fine(scene') /\ scene'.active = scene.active
        /\ scene'.space = scene.space /\ scene'.wsOf = scene.wsOf
    BY <2>2 DEF SameLayout
  <2>4. ASSUME Calm, Neat
        PROVE  /\ grab' = None /\ painted' = {}
               /\ w \in Live' =>
                    /\ w \in scene'.space <=> scene'.wsOf[w] = scene.active
                    /\ w \in sticky' => scene'.wsOf[w] \in {0, scene.active}
    BY <1>2, <2>3, <2>4 DEF Neat, Tidy
  <2>5. QED
    BY <1>2, <1>4, <2>2, <2>3, <2>4, SettleStep
<1>5. CASE ~IsMinimized(w) /\ scene.wsOf[w] \notin {0, scene.active}
  <2> DEFINE target == scene.wsOf[w]
             t == FocusWorkspaceId(scene, target)
  <2>1. target \in Workspace /\ target # scene.active
    BY <1>5
  <2>2. scene' = FocusWindow(t, w)
    BY <1>5 DEF ActivateWindow
  <2> HIDE DEF target
  <2>3. Kept(scene) /\ minimized \in Stack
    BY KeptScene DEF IInv, TypeOK
  <2>4. Fine(t) /\ (w \in Live => w \in t.space)
    <3>1. target = scene.wsOf[w]
      BY DEF target
    <3>2. QED
      BY <2>1, <2>3, <3>1, SwitchLands
  <2>5. t = FocusWorkspaceId(scene, target)
    OBVIOUS
  <2> HIDE DEF t
  <2>6. SameLayout(t, scene') /\ scene'.focus = IF Locked THEN t.focus ELSE w
    BY <2>2, <2>4, FocusKeepsLayout
  <2>7. Calm /\ Neat => Tidy(scene, Live, sticky) /\ grab' = None /\ painted' = {}
    BY <1>2 DEF Neat
  <2>8. QED
    BY <1>2, <2>1, <2>4, <2>5, <2>6, <2>7, SwitchOutcome
<1>6. QED
  BY <1>3, <1>4, <1>5

\* Moving any window by id.
LEMMA MoveByIdOutcome ==
  ASSUME IInv, Fine(scene), NEW w \in Window, NEW target \in Workspace,
         MoveWindowById(w, target)
  PROVE  Outcome
<1> USE Typing
<1> DEFINE current == scene.wsOf[w]
           put    == Reassign(scene, w, target)
           noted  == RecordFocus(put, target, w)
           filed  == RemoveFromFocus(noted, current, w)
           placed == Place(filed, w, current, target)
<1>1. /\ current \in Workspace /\ current # target /\ w \notin sticky
      /\ scene' = IF target = scene.active THEN placed
                  ELSE HandOff(scene, placed, w)
  BY DEF MoveWindowById
<1>2. UNCHANGED <<sticky, life, painted, grab>> /\ Live' = Live
  BY DEF MoveWindowById, KeepRest, records, modes, Live
<1>3. current = scene.wsOf[w]
  OBVIOUS
<1>4. scene.active # 0 /\ target # 0 /\ current # 0 /\ None \in Focus
  BY <1>1 DEF Workspace, Focus
<1> HIDE DEF current
<1>5. /\ Fine(put) /\ put.active = scene.active /\ put.space = scene.space
      /\ put.focus = scene.focus /\ put.wsOf[w] = target
      /\ \A v \in Window \ {w} : put.wsOf[v] = scene.wsOf[v]
  BY <1>1, <1>3, <1>4 DEF Reassign, Fine, Scene
<1> HIDE DEF put
<1>6. SameLayout(put, noted) /\ noted.focus = put.focus
  BY <1>4, <1>5, FilingKeepsLayout
<1>7. Fine(noted)
  BY <1>6 DEF SameLayout
<1> HIDE DEF noted
<1>8. SameLayout(noted, filed) /\ filed.focus = noted.focus
  BY <1>1, <1>4, <1>7, FilingKeepsLayout
<1> HIDE DEF filed
<1>9. /\ Fine(filed) /\ filed.active = scene.active /\ filed.space = scene.space
      /\ filed.focus = scene.focus /\ filed.wsOf = put.wsOf
  BY <1>5, <1>6, <1>8 DEF SameLayout
<1>10. /\ Fine(placed) /\ placed.active = scene.active
       /\ placed.focus = scene.focus /\ placed.wsOf = put.wsOf
       /\ placed.space \ {w} = scene.space \ {w}
       /\ target = scene.active => w \in placed.space
       /\ current = scene.active => w \notin placed.space
       /\ target # scene.active /\ current # scene.active =>
            (w \in placed.space <=> w \in scene.space)
  BY <1>1, <1>9 DEF Place, MapElement, UnmapElem, Fine, Scene
<1> HIDE DEF placed
<1>11. /\ SameLayout(placed, scene')
       /\ ~Locked => \/ scene'.focus \in placed.space \cup {None}
                     \/ target = scene.active /\ scene'.focus = scene.focus
                     \/ FocusedWindow(scene) # w /\ scene'.focus = scene.focus
  BY <1>1, <1>10, FallbackIsMapped DEF HandOff, SameLayout
<1>12. /\ Fine(scene') /\ scene'.active = scene.active
       /\ scene'.wsOf = put.wsOf /\ scene'.space = placed.space
  BY <1>10, <1>11 DEF SameLayout
<1>13. \A v \in Live' \ {w} : /\ v \in Live /\ scene'.wsOf[v] = scene.wsOf[v]
                              /\ v \in scene'.space <=> v \in scene.space
  <2>1. Live \subseteq Window
    BY DEF Live
  <2>2. QED
    BY <1>2, <1>5, <1>10, <1>12, <2>1
<1>14. ASSUME Calm, Neat
       PROVE  /\ grab' = None /\ painted' = {}
              /\ w \in Live' => (w \in scene'.space <=> scene'.wsOf[w] = scene.active)
  <2>1. w \in Live => (w \in scene.space <=> current = scene.active)
    BY <1>3, <1>14 DEF Neat, Tidy
  <2>2. QED
    BY <1>1, <1>2, <1>5, <1>10, <1>12, <1>14, <2>1 DEF Neat
<1>15. ASSUME Aiming
       PROVE  \/ scene'.focus \in scene'.space \cup {None, Layer}
              \/ scene'.focus = scene.focus /\ scene.focus # w
              \/ scene'.focus = w /\ (w \in Live' => scene'.wsOf[w] \in {0, scene.active})
  <2>1. CASE target = scene.active
    BY <1>5, <1>11, <1>12, <1>15, <2>1 DEF Aiming
  <2>2. ASSUME target # scene.active, scene.focus = w, FocusedWindow(scene) # w,
               w \in Live
        PROVE  FALSE
    <3>1. current = scene.active
      BY <1>1, <1>3, <1>15, <1>4, <2>2 DEF Aiming, Aimed
    <3>2. w \in scene.space
      BY <1>3, <1>15, <2>2, <3>1 DEF Aiming, Neat, Tidy
    <3>3. QED
      BY <2>2, <3>2 DEF FocusedWindow
  <2>3. CASE target # scene.active
    BY <1>2, <1>11, <1>12, <1>15, <2>2, <2>3 DEF Aiming
  <2>4. QED
    BY <2>1, <2>3
<1>16. QED
  BY <1>1, <1>2, <1>12, <1>13, <1>14, <1>15, SettleStep

\* Keys, taskbars and IPC requests on windows and workspaces.
LEMMA WindowOutcomes ==
  ASSUME IInv, Fine(scene), WindowStep
  PROVE  Outcome
<1> USE Typing
<1>1. ASSUME KeepRest
      PROVE  UNCHANGED <<sticky, life, painted, grab>> /\ Live' = Live
  BY <1>1 DEF KeepRest, records, modes, Live
<1>2. ASSUME MinimizeFocused \/ \E w \in Window : MinimizeWindow(w)
      PROVE  Outcome
  <2>1. PICK w \in Opened : Minimize(w)
    BY <1>2 DEF MinimizeFocused, MinimizeWindow, IInv, Untouched
  <2>2. QED
    BY <2>1, MinimizeOutcome
<1>3. ASSUME NEW w \in Window, UnminimizeWindow(w)
      PROVE  Outcome
  BY <1>3, RestoreOutcome DEF UnminimizeWindow
<1>4. CASE UnminimizeLast
  <2>1. UNCHANGED <<records, modes>>
    BY <1>4 DEF UnminimizeLast
  <2>2. CASE UNCHANGED scene
    <3>1. SameLayout(scene, scene') /\ scene'.focus = scene.focus
      BY <2>2 DEF SameLayout
    <3>2. UNCHANGED records /\ grab' = grab
      BY <2>1 DEF modes
    <3>3. QED
      BY <3>1, <3>2, FocusOnlyStep DEF Neat
  <2>3. ASSUME NEW w \in Tops(PopTo(minimized, Live)), scene' = Restore(scene, w)
        PROVE  Outcome
    <3>1. w \in Window
      <4>1. PopTo(minimized, Live) \in Stack
        BY PopToStack DEF IInv, TypeOK
      <4>2. QED
        BY <4>1, MembersStack DEF Tops
    <3>2. QED
      BY <2>1, <2>3, <3>1, RestoreOutcome
  <2>4. QED
    BY <1>4, <2>2, <2>3 DEF UnminimizeLast
<1>5. ASSUME NEW w \in Window, NEW on \in BOOLEAN, SetSticky(w, on)
      PROVE  Outcome
  <2>1. scene' = Reassign(scene, w, scene.active) /\ sticky' \subseteq sticky \cup {w}
    BY <1>5 DEF SetSticky
  <2>2. UNCHANGED <<life, painted, grab>> /\ Live' = Live
    BY <1>5 DEF SetSticky, modes, Live
  <2>3. /\ Fine(scene') /\ scene'.active = scene.active
        /\ scene'.space = scene.space /\ scene'.focus = scene.focus
        /\ \A v \in Window \ {w} : scene'.wsOf[v] = scene.wsOf[v]
        /\ scene'.wsOf[w] = IF scene.wsOf[w] = 0 THEN 0 ELSE scene.active
    BY <2>1 DEF Reassign, Fine, Scene
  <2>4. \A v \in Live' \ {w} : /\ v \in Live /\ scene'.wsOf[v] = scene.wsOf[v]
                               /\ v \in scene'.space <=> v \in scene.space
    BY <2>2, <2>3 DEF Live
  <2>5. ASSUME Calm, Neat, w \in Live
        PROVE  w \in scene'.space <=> scene'.wsOf[w] = scene.active
    <3>1. w \in scene.space \/ IsMinimized(w)
      BY <1>5, <2>5 DEF SetSticky, Calm
    <3>2. w \in scene.space \/ scene.wsOf[w] = 0
      BY <2>5, <3>1 DEF IInv, NoWindowLost
    <3>3. w \in scene.space <=> scene.wsOf[w] = scene.active
      BY <2>5 DEF Neat, Tidy
    <3>4. QED
      BY <2>3, <3>2, <3>3
  <2>6. QED
    BY <2>1, <2>2, <2>3, <2>4, <2>5, SettleStep DEF Neat
<1>6. ASSUME NEW target \in Workspace, FocusWorkspace(target)
      PROVE  Outcome
  <2>1. /\ target # scene.active /\ scene' = FocusWorkspaceId(scene, target)
        /\ KeepRest
    BY <1>6 DEF FocusWorkspace
  <2>2. Kept(scene) /\ minimized \in Stack
    BY KeptScene DEF IInv, TypeOK
  <2>3. /\ Fine(scene')
        /\ ~Locked => scene'.focus \in scene'.space \cup {None}
    BY <2>1, <2>2, SwitchLands
  <2>4. SameLayout(scene', scene')
    BY <2>3 DEF SameLayout
  <2>5. Calm /\ Neat => Tidy(scene, Live, sticky) /\ grab' = None /\ painted' = {}
    BY <1>1, <2>1 DEF Neat
  <2>6. UNCHANGED <<life, sticky>>
    BY <1>1, <2>1
  <2>7. QED
    BY <2>1, <2>3, <2>4, <2>5, <2>6, SwitchOutcome
<1>7. ASSUME NEW target \in Workspace, MoveFocused(target)
      PROVE  Outcome
  <2> DEFINE w == scene.focus
             moved == MoveWindowToWorkspace(scene, sticky, w, target)
  <2>1. /\ w \in scene.space /\ w \in Window /\ KeepRest
        /\ scene' = FocusWorkspaceId(moved, target)
    BY <1>7 DEF MoveFocused
  <2>2. CASE target = scene.active
    <3>1. scene' = scene
      BY <2>1, <2>2, SwitchNowhere DEF MoveWindowToWorkspace
    <3>2. SameLayout(scene, scene') /\ scene'.focus = scene.focus
      BY <3>1 DEF SameLayout
    <3>3. UNCHANGED records /\ grab' = grab
      BY <2>1 DEF KeepRest, modes
    <3>4. QED
      BY <3>2, <3>3, FocusOnlyStep DEF Neat
  <2>3. CASE target # scene.active
    <3> HIDE DEF w
    <3>1. /\ Fine(moved) /\ moved.active = scene.active
          /\ \A v \in Window \ {w} : /\ moved.wsOf[v] = scene.wsOf[v]
                                     /\ v \in moved.space <=> v \in scene.space
          /\ moved.wsOf[w] = 0 <=> scene.wsOf[w] = 0
          /\ w \in sticky => moved = scene
          /\ w \notin sticky =>
               w \notin moved.space /\ moved.wsOf[w] \in {0, target}
      BY <2>1, <2>3, MoveLands
    <3> HIDE DEF moved
    <3>2. \A v \in Live : moved.wsOf[v] = 0 <=> scene.wsOf[v] = 0
      BY <3>1 DEF Live
    <3>3. scene.space \cap sticky \subseteq moved.space
      BY <3>1
    <3>4. Kept(moved) /\ minimized \in Stack
      BY <3>2, KeptScene DEF Kept, IInv, TypeOK
    <3>5. /\ Fine(scene')
          /\ ~Locked => scene'.focus \in scene'.space \cup {None}
      BY <2>1, <2>3, <3>1, <3>4, SwitchLands
    <3>6. SameLayout(scene', scene')
      BY <3>5 DEF SameLayout
    <3>7. scene.active # 0
      BY DEF Workspace
    <3>8. ASSUME Calm, Neat
          PROVE  Tidy(moved, Live, sticky) /\ grab' = None /\ painted' = {}
      <4>1. Live \subseteq Window
        BY DEF Live
      <4>2. CASE w \in sticky
        BY <1>1, <2>1, <3>1, <3>8, <4>2 DEF Neat
      <4>3. CASE w \notin sticky
        BY <1>1, <2>1, <2>3, <3>1, <3>7, <3>8, <4>1, <4>3 DEF Neat, Tidy
      <4>4. QED
        BY <4>2, <4>3
    <3>9. UNCHANGED <<life, sticky>>
      BY <1>1, <2>1
    <3>10. QED
      BY <2>1, <2>3, <3>1, <3>2, <3>3, <3>5, <3>6, <3>8, <3>9, SwitchOutcome
  <2>4. QED
    BY <2>2, <2>3
<1>8. QED
  BY <1>2, <1>3, <1>4, <1>5, <1>6, <1>7, ActivateOutcome, MoveByIdOutcome
  DEF WindowStep

\* The move grab, the edge crossing and its repeat timer.
LEMMA GestureOutcomes ==
  ASSUME IInv, Fine(scene), GestureStep
  PROVE  Outcome
<1> USE Typing
<1>1. ASSUME NEW w \in Window, StartDrag(w)
      PROVE  Outcome
  <2>1. ~Calm
    BY <1>1 DEF StartDrag, Calm
  <2>2. SameLayout(scene, scene')
    BY <1>1 DEF StartDrag, SetFocus, SameLayout, Fine, Scene, Focus
  <2>3. UNCHANGED records
    BY <1>1 DEF StartDrag
  <2>4. QED
    BY <2>1, <2>2, <2>3, FocusOnlyStep DEF Aiming
<1>2. CASE EndDrag
  <2>1. SameLayout(scene, scene') /\ scene'.focus = scene.focus
    BY <1>2 DEF EndDrag, SameLayout
  <2>2. UNCHANGED records /\ grab' = None
    BY <1>2 DEF EndDrag
  <2>3. QED
    BY <2>1, <2>2, FocusOnlyStep
<1>3. CASE DragMotion
  <2>1. grab \in Window /\ ~Neat /\ scene' = MapElement(scene, grab)
    BY <1>3 DEF DragMotion, Neat, IInv, TypeOK
  <2>2. /\ Fine(scene') /\ scene'.active = scene.active
        /\ scene'.space = scene.space \cup {grab} /\ scene'.wsOf = scene.wsOf
    BY <2>1 DEF MapElement, Fine, Scene
  <2>3. sticky' = sticky /\ Live' = Live
    BY <1>3 DEF DragMotion, KeepRest, records, Live
  <2>4. QED
    BY <2>1, <2>2, <2>3, SettleStep DEF Aiming
<1>4. ASSUME NEW target \in Workspace, NEW mapped \in BOOLEAN,
             DragAcross(target, mapped)
      PROVE  Outcome
  <2> DEFINE from == IF mapped THEN MapElement(scene, grab) ELSE scene
             put   == Reassign(from, grab, target)
             noted == RecordFocus(put, target, grab)
             filed == RemoveFromFocus(noted, from.active, grab)
             blank == ClearFocus(filed)
  <2>1. /\ grab \in Window /\ ~Neat /\ target # scene.active
        /\ scene' = MoveWindowFollowing(from, grab, target) /\ KeepRest
    BY <1>4 DEF DragAcross, Neat, IInv, TypeOK, Workspace
  <2>2. /\ Fine(from) /\ from.active = scene.active /\ from.wsOf = scene.wsOf
        /\ scene.space \subseteq from.space
    BY <2>1 DEF MapElement, Fine, Scene
  <2>3. scene' = FocusWorkspaceId(blank, target)
    BY <2>1, <2>2 DEF MoveWindowFollowing
  <2> HIDE DEF from
  <2>4. target # 0 /\ None \in Focus
    BY DEF Workspace
  <2>5. /\ Fine(put) /\ put.active = scene.active /\ put.space = from.space
        /\ \A v \in Window : put.wsOf[v] = 0 <=> scene.wsOf[v] = 0
    BY <2>1, <2>2, <2>4 DEF Reassign, Fine, Scene
  <2> HIDE DEF put
  <2>6. SameLayout(put, noted)
    BY <2>1, <2>4, <2>5, FilingKeepsLayout
  <2>7. Fine(noted)
    BY <2>6 DEF SameLayout
  <2> HIDE DEF noted
  <2>8. SameLayout(noted, filed)
    BY <2>1, <2>2, <2>4, <2>7, FilingKeepsLayout
  <2>9. Fine(filed)
    BY <2>8 DEF SameLayout
  <2> HIDE DEF filed
  <2>10. SameLayout(filed, blank)
    BY <2>1, <2>4, <2>9, FilingKeepsLayout
  <2> HIDE DEF blank
  <2>11. /\ Fine(blank) /\ blank.active = scene.active
         /\ scene.space \cap sticky \subseteq blank.space
         /\ \A v \in Live : blank.wsOf[v] = 0 <=> scene.wsOf[v] = 0
    BY <2>2, <2>5, <2>6, <2>8, <2>10 DEF SameLayout, Live
  <2>12. Kept(blank) /\ minimized \in Stack
    BY <2>11, KeptScene DEF Kept, IInv, TypeOK
  <2>13. /\ Fine(scene')
         /\ ~Locked => scene'.focus \in scene'.space \cup {None}
    BY <2>1, <2>3, <2>11, <2>12, SwitchLands
  <2>14. SameLayout(scene', scene') /\ UNCHANGED <<life, sticky>>
    BY <2>1, <2>13 DEF SameLayout, KeepRest, records
  <2>15. QED
    BY <2>1, <2>3, <2>11, <2>13, <2>14, SwitchOutcome
<1>5. QED
  BY <1>1, <1>2, <1>3, <1>4 DEF GestureStep

\* The picker and the session lock.
LEMMA SessionOutcomes ==
  ASSUME IInv, Fine(scene), SessionStep
  PROVE  Outcome
<1> USE Typing
<1>1. picker \in Focus \cup {Off} /\ lock \in Focus \cup {Off} /\ Off \notin Focus
  BY TargetsAssumption DEF IInv, TypeOK, Focus
<1>2. ASSUME SameLayout(scene, scene'), UNCHANGED <<records, grab>>,
             Aiming => scene'.focus = None
      PROVE  Outcome
  BY <1>2, FocusOnlyStep DEF Neat
<1>3. ASSUME NEW s, SameLayout(scene, s)
      PROVE  /\ \A target \in Focus : SameLayout(scene, SetFocus(s, target))
             /\ SameLayout(scene, PickerDone(s))
  BY <1>1, <1>3 DEF PickerDone, SetFocus, SameLayout, Fine, Scene
<1>4. SameLayout(scene, scene)
  BY DEF SameLayout
<1>5. CASE StartPicker
  <2>1. scene' = SetFocus(scene, None)
    BY <1>5 DEF StartPicker
  <2>2. scene'.focus = None
    BY <2>1 DEF SetFocus, Scene
  <2>3. QED
    BY <1>2, <1>3, <1>4, <1>5, <2>1, <2>2 DEF StartPicker
<1>6. CASE FinishPicker
  BY <1>2, <1>3, <1>4, <1>6 DEF FinishPicker, Aiming
<1>7. CASE LockSession
  BY <1>1, <1>2, <1>3, <1>4, <1>7 DEF LockSession, Aiming
<1>8. CASE NewLockSurface
  BY <1>2, <1>3, <1>4, <1>8 DEF NewLockSurface, KeepRest, modes, Aiming
<1>9. CASE UnlockSession
  BY <1>1, <1>2, <1>3, <1>4, <1>9 DEF UnlockSession, Aiming, Locked
<1>10. QED
  BY <1>5, <1>6, <1>7, <1>8, <1>9 DEF SessionStep

\* What a window rule does to the scene: a window of the active workspace
\* stays there on screen, or leaves both.
LEMMA RuleLands ==
  ASSUME NEW s, Fine(s), NEW w \in Window, w \in s.space,
         NEW stick \in BOOLEAN, NEW target \in Workspace \cup {0}
  PROVE  LET r == ApplyRule(s, w, stick, target)
         IN  /\ Fine(r) /\ r.active = s.active
             /\ \A v \in Window \ {w} : /\ r.wsOf[v] = s.wsOf[v]
                                        /\ v \in r.space <=> v \in s.space
             /\ s.wsOf[w] = s.active =>
                  /\ w \in r.space <=> r.wsOf[w] = s.active
                  /\ stick \/ w \in sticky \/ target = 0 => w \in r.space
             /\ ~Locked => \/ r.focus \in r.space \cup {None}
                           \/ r.focus = s.focus /\ s.focus # w
<1> DEFINE stuck == IF stick /\ w \notin sticky THEN Reassign(s, w, s.active)
                    ELSE s
           pins == IF stick THEN sticky \cup {w} ELSE sticky
           r == ApplyRule(s, w, stick, target)
<1>1. s.active \in Workspace /\ s.active # 0
  BY DEF Fine, Scene, Workspace
<1>2. /\ Fine(stuck) /\ stuck.active = s.active /\ stuck.space = s.space
      /\ stuck.focus = s.focus
      /\ \A v \in Window \ {w} : stuck.wsOf[v] = s.wsOf[v]
      /\ s.wsOf[w] = s.active => stuck.wsOf[w] = s.active
  BY <1>1 DEF Reassign, Fine, Scene
<1>3. r = IF target = 0 THEN stuck ELSE MoveWindowToWorkspace(stuck, pins, w, target)
  BY DEF ApplyRule
<1>4. stick \/ w \in sticky <=> w \in pins
  OBVIOUS
<1> HIDE DEF stuck, pins, r
<1>5. CASE r = stuck
  BY <1>2, <1>5 DEF r
<1>6. CASE target # 0 /\ r # stuck
  <2>1. target \in Workspace /\ r = MoveWindowToWorkspace(stuck, pins, w, target)
    BY <1>3, <1>6
  <2>2. /\ Fine(r) /\ r.active = stuck.active
        /\ \A v \in Window \ {w} : /\ r.wsOf[v] = stuck.wsOf[v]
                                   /\ v \in r.space <=> v \in stuck.space
        /\ target = stuck.active \/ w \in pins => r = stuck
        /\ target # stuck.active /\ w \notin pins =>
             w \notin r.space /\ r.wsOf[w] \in {0, target}
        /\ ~Locked => \/ r = stuck \/ r.focus \in r.space \cup {None}
                      \/ r.focus = stuck.focus /\ FocusedWindow(stuck) # w
    BY <1>2, <2>1, MoveLands
  <2>3. FocusedWindow(stuck) # w => stuck.focus # w
    BY <1>2 DEF FocusedWindow
  <2>4. QED
    BY <1>1, <1>2, <1>4, <1>6, <2>2, <2>3 DEF r
<1>7. QED
  BY <1>3, <1>5, <1>6

\* What clients and the X server do.
LEMMA ClientOutcomes ==
  ASSUME IInv, Fine(scene), ClientStep
  PROVE  Outcome
<1> USE Typing
<1>1. ASSUME NEW w \in Window, NewToplevel(w)
      PROVE  Outcome
  <2>1. scene' = Restore(scene, w)
    BY <1>1 DEF NewToplevel, Restore
  <2>2. /\ Fine(scene') /\ scene'.active = scene.active
        /\ scene'.space = scene.space \cup {w} /\ scene'.wsOf[w] = scene.active
        /\ \A v \in Window \ {w} : scene'.wsOf[v] = scene.wsOf[v]
        /\ scene'.focus = IF Locked THEN scene.focus ELSE w
    BY <2>1, RestoreLands
  <2>3. UNCHANGED <<sticky, painted, grab>>
    BY <1>1 DEF NewToplevel, modes
  <2>4. \A v \in Live' \ {w} : v \in Live /\ v \in Window
    BY <1>1 DEF NewToplevel, Live, IInv, TypeOK
  <2>5. \A v \in Live' \ {w} : /\ v \in Live /\ scene'.wsOf[v] = scene.wsOf[v]
                               /\ v \in scene'.space <=> v \in scene.space
    BY <2>2, <2>4
  <2>6. w \in scene'.space
    BY <2>2
  <2>7. QED
    BY <2>2, <2>3, <2>5, <2>6, SettleStep DEF Neat, Aiming
<1>2. ASSUME NEW w \in Window, NEW stick \in BOOLEAN,
             NEW target \in Workspace \cup {0}, X11MapRequest(w, stick, target)
      PROVE  Outcome
  <2> DEFINE mapped == Assign(MapElement(scene, w), w, scene.active)
             ruled == ApplyRule(mapped, w, stick, target)
  <2>1. /\ Fine(mapped) /\ mapped.active = scene.active
        /\ mapped.space = scene.space \cup {w} /\ mapped.wsOf[w] = scene.active
        /\ \A v \in Window \ {w} : mapped.wsOf[v] = scene.wsOf[v]
    BY DEF Assign, MapElement, Fine, Scene
  <2>2. scene' = FocusWindow(ruled, w)
    BY <1>2 DEF X11MapRequest
  <2> HIDE DEF mapped
  <2>3. /\ Fine(ruled) /\ ruled.active = mapped.active
        /\ \A v \in Window \ {w} : /\ ruled.wsOf[v] = mapped.wsOf[v]
                                   /\ v \in ruled.space <=> v \in mapped.space
        /\ w \in ruled.space <=> ruled.wsOf[w] = mapped.active
        /\ target = 0 => w \in ruled.space
    <3>1. w \in mapped.space /\ mapped.wsOf[w] = mapped.active
      BY <2>1
    <3>2. QED
      BY <2>1, <3>1, RuleLands
  <2> HIDE DEF ruled
  <2>4. SameLayout(ruled, scene')
        /\ scene'.focus = IF Locked THEN ruled.focus ELSE w
    BY <2>2, <2>3, FocusKeepsLayout
  <2>5. /\ Fine(scene') /\ scene'.active = scene.active
        /\ w \in scene'.space <=> scene'.wsOf[w] = scene.active
        /\ target = 0 => w \in scene'.space
        /\ \A v \in Window \ {w} : /\ scene'.wsOf[v] = scene.wsOf[v]
                                   /\ v \in scene'.space <=> v \in scene.space
    BY <2>1, <2>3, <2>4 DEF SameLayout
  <2>6. /\ UNCHANGED <<painted, grab>> /\ sticky' \subseteq sticky \cup {w}
        /\ Calm => target = 0
    BY <1>2 DEF X11MapRequest, modes, Calm
  <2>7. \A v \in Live' \ {w} : v \in Live /\ v \in Window
    BY <1>2 DEF X11MapRequest, Live, IInv, TypeOK
  <2>8. \A v \in Live' \ {w} : /\ v \in Live /\ scene'.wsOf[v] = scene.wsOf[v]
                               /\ v \in scene'.space <=> v \in scene.space
    BY <2>5, <2>7
  <2>9. Aiming => scene'.focus = w /\ w \in scene'.space
    BY <2>4, <2>5, <2>6 DEF Aiming
  <2>10. QED
    BY <2>5, <2>6, <2>8, <2>9, SettleStep DEF Neat
<1>3. ASSUME NEW w \in Window, ToplevelDestroyed(w) \/ X11Unmapped(w)
      PROVE  Outcome
  <2>1. /\ life[w] = "live" /\ life' = [life EXCEPT ![w] = "dead"]
        /\ \/ ForgetWindow(w)
           \/ UNCHANGED <<scene, minimized, sticky, listed, fresh, painted>>
        /\ grab' = grab
    BY <1>3 DEF ToplevelDestroyed, X11Unmapped, modes
  <2>2. w \notin Live' /\ \A v \in Live' : v \in Live /\ v \in Window
    BY <2>1 DEF Live, IInv, TypeOK
  <2>3. sticky' \subseteq sticky /\ painted' \subseteq painted
    BY <2>1 DEF ForgetWindow
  <2>4. /\ Fine(scene') /\ scene'.active = scene.active
        /\ scene'.focus = scene.focus
        /\ \A v \in Window \ {w} : /\ scene'.wsOf[v] = scene.wsOf[v]
                                   /\ v \in scene'.space <=> v \in scene.space
    <3>1. ASSUME NEW ws \in Workspace
          PROVE  /\ Retain(scene.mru[ws], Window \ {w}) \in Stack
                 /\ Ordered(Retain(scene.mru[ws], Window \ {w}))
      <4>1. scene.mru[ws] \in Stack /\ Ordered(scene.mru[ws])
        BY DEF Fine, Scene
      <4>2. QED
        BY <4>1, RetainStack, OrderedStacks
    <3>2. CASE scene' = Forget(UnmapElem(scene, w), w)
      BY <3>1, <3>2 DEF Forget, UnmapElem, Fine, Scene
    <3>3. CASE UNCHANGED scene
      BY <3>3
    <3>4. QED
      BY <2>1, <3>2, <3>3 DEF ForgetWindow
  <2>5. \A v \in Live' \ {w} : /\ v \in Live /\ scene'.wsOf[v] = scene.wsOf[v]
                               /\ v \in scene'.space <=> v \in scene.space
    BY <2>2, <2>4
  <2>6. QED
    BY <2>1, <2>2, <2>3, <2>4, <2>5, SettleStep DEF Neat
<1>4. ASSUME NEW w \in Window, HiddenCommit(w)
      PROVE  Outcome
  <2>1. SameLayout(scene, scene') /\ ~Calm /\ sticky' = sticky /\ Live' = Live
    BY <1>4 DEF HiddenCommit, SameLayout, Calm, Live
  <2>2. /\ Fine(scene') /\ scene'.active = scene.active
        /\ scene'.space = scene.space /\ scene'.wsOf = scene.wsOf
    BY <2>1 DEF SameLayout
  <2>3. QED
    BY <2>1, <2>2, SettleStep DEF Aiming
<1>5. ASSUME NEW w \in Window, NEW stick \in BOOLEAN,
             NEW target \in Workspace \cup {0}, NEW placed \in BOOLEAN,
             FirstCommit(w, stick, target, placed)
      PROVE  Outcome
  <2> DEFINE ruled == ApplyRule(scene, w, stick, target)
  <2>1. /\ w \in Live /\ w \in scene.space
        /\ scene' \in {ruled, MapElement(ruled, w)}
        /\ painted = {} => scene' = ruled /\ painted' = {}
        /\ sticky' = IF stick THEN sticky \cup {w} ELSE sticky
        /\ UNCHANGED <<life, grab>>
    BY <1>5 DEF FirstCommit, modes
  <2>2. /\ Fine(ruled) /\ ruled.active = scene.active
        /\ \A v \in Window \ {w} : /\ ruled.wsOf[v] = scene.wsOf[v]
                                   /\ v \in ruled.space <=> v \in scene.space
        /\ scene.wsOf[w] = scene.active =>
             /\ w \in ruled.space <=> ruled.wsOf[w] = scene.active
             /\ stick \/ w \in sticky => w \in ruled.space
        /\ ~Locked => \/ ruled.focus \in ruled.space \cup {None}
                      \/ ruled.focus = scene.focus /\ scene.focus # w
    BY <2>1, RuleLands
  <2> HIDE DEF ruled
  <2>3. /\ Fine(scene') /\ scene'.active = scene.active
        /\ \A v \in Window \ {w} : /\ scene'.wsOf[v] = scene.wsOf[v]
                                   /\ v \in scene'.space <=> v \in scene.space
    <3>1. CASE scene' = ruled
      BY <2>2, <3>1
    <3>2. CASE scene' = MapElement(ruled, w)
      BY <2>2, <3>2 DEF MapElement, Fine, Scene
    <3>3. QED
      BY <2>1, <3>1, <3>2
  <2>4. Live' = Live /\ sticky' \subseteq sticky \cup {w}
    BY <2>1 DEF Live
  <2>5. \A v \in Live' \ {w} : /\ v \in Live /\ scene'.wsOf[v] = scene.wsOf[v]
                               /\ v \in scene'.space <=> v \in scene.space
    BY <2>3, <2>4 DEF Live
  <2>6. ASSUME Calm, Neat
        PROVE  /\ grab' = None /\ painted' = {} /\ scene' = ruled
               /\ w \in scene'.space <=> scene'.wsOf[w] = scene.active
               /\ w \in sticky' => scene'.wsOf[w] = scene.active
    <3>1. scene.wsOf[w] = scene.active
      BY <2>1, <2>6 DEF Neat, Tidy
    <3>2. QED
      BY <2>1, <2>2, <2>6, <3>1 DEF Neat
  <2>7. QED
    BY <2>2, <2>3, <2>4, <2>5, <2>6, SettleStep DEF Aiming
<1>6. ASSUME NEW w \in Window, LayoutRequest(w)
      PROVE  Outcome
  <2>1. /\ scene' = MapElement(scene, w) /\ (Calm => w \in scene.space)
        /\ UNCHANGED <<sticky, painted, grab>> /\ Live' = Live
    BY <1>6 DEF LayoutRequest, KeepRest, records, modes, Calm, Live
  <2>2. /\ Fine(scene') /\ scene'.active = scene.active
        /\ scene'.space = scene.space \cup {w} /\ scene'.wsOf = scene.wsOf
        /\ scene'.focus = scene.focus
    BY <2>1 DEF MapElement, Fine, Scene
  <2>3. Calm => scene'.space = scene.space
    BY <2>1, <2>2
  <2>4. ASSUME Calm, Neat
        PROVE  /\ grab' = None /\ painted' = {}
               /\ w \in Live' =>
                    /\ w \in scene'.space <=> scene'.wsOf[w] = scene.active
                    /\ w \in sticky' => scene'.wsOf[w] \in {0, scene.active}
    BY <2>1, <2>2, <2>3, <2>4 DEF Neat, Tidy
  <2>5. QED
    BY <2>1, <2>2, <2>4, SettleStep DEF Aiming
<1>7. ASSUME NEW w \in Window, X11LayoutRequest(w)
      PROVE  Outcome
  BY <1>7, FocusMappedStep DEF X11LayoutRequest
<1>8. CASE XwmDisconnected
  <2> DEFINE swept == X11 \cap (scene.space \cup Tracked(scene))
             kept  == Window \ swept
  <2>1. ASSUME NEW ws \in Workspace
        PROVE  /\ Retain(scene.mru[ws], kept) \in Stack
               /\ Ordered(Retain(scene.mru[ws], kept))
    <3>1. scene.mru[ws] \in Stack /\ Ordered(scene.mru[ws])
      BY DEF Fine, Scene
    <3>2. PICK w \in Window : TRUE
      BY <1>8 DEF XwmDisconnected, Tracked, Live
    <3>3. QED
      BY <3>1, <3>2, RetainStack, OrderedStacks
  <2>2. /\ Fine(scene') /\ scene'.active = scene.active
        /\ scene'.focus = scene.focus /\ scene'.space = scene.space \ swept
        /\ \A v \in Window :
             scene'.wsOf[v] = IF v \in swept THEN 0 ELSE scene.wsOf[v]
    BY <1>8, <2>1 DEF XwmDisconnected, Fine, Scene
  <2>3. sticky' \subseteq sticky /\ UNCHANGED <<painted, grab>>
    BY <1>8 DEF XwmDisconnected, modes
  <2>4. \A v \in Live' : v \in Live /\ v \in Window /\ v \notin X11
    BY <1>8 DEF XwmDisconnected, Live
  <2>5. \A v \in Live' \ {None} : /\ v \in Live /\ scene'.wsOf[v] = scene.wsOf[v]
                                  /\ v \in scene'.space <=> v \in scene.space
    BY <2>2, <2>4
  <2>6. None \notin Live'
    BY <2>4, TargetsAssumption
  <2>7. QED
    BY <2>2, <2>3, <2>5, <2>6, SettleStep DEF Neat
<1>9. QED
  BY <1>1, <1>2, <1>3, <1>4, <1>5, <1>6, <1>7, <1>8 DEF ClientStep

\* Every step, stuttering included.
LEMMA NextOutcome ==
  ASSUME IInv, Fine(scene), [Next]_vars
  PROVE  Outcome
<1>1. CASE RefreshSpace
  <2>1. /\ Fine(scene') /\ scene'.active = scene.active
        /\ scene'.focus = scene.focus /\ scene'.space = scene.space \cap Live
        /\ scene'.wsOf = scene.wsOf
    BY <1>1 DEF RefreshSpace, Fine, Scene
  <2>2. UNCHANGED <<sticky, painted, grab>> /\ Live' = Live
    BY <1>1 DEF RefreshSpace, records, modes, Live
  <2>3. None \notin Live'
    BY TargetsAssumption DEF Live
  <2>4. QED
    BY <2>1, <2>2, <2>3, SettleStep DEF Neat
<1>2. CASE UNCHANGED vars
  <2>1. SameLayout(scene, scene') /\ scene'.focus = scene.focus
    BY <1>2 DEF vars, SameLayout
  <2>2. UNCHANGED records /\ grab' = grab
    BY <1>2 DEF vars, records
  <2>3. QED
    BY <2>1, <2>2, FocusOnlyStep DEF Neat
<1>3. QED
  BY <1>1, <1>2, ClientOutcomes, FocusOutcomes, WindowOutcomes, GestureOutcomes,
     SessionOutcomes
  DEF Next

\* The stacks of every reachable scene are orders.
LEMMA SceneInvariance == Spec => [](IInv /\ Fine(scene))
<1>1. Init => IInv /\ Fine(scene)
  BY InitInvariant DEF Init, Fine, Ordered, IInv, TypeOK
<1>2. IInv /\ Fine(scene) /\ [Next]_vars => (IInv /\ Fine(scene))'
  BY NextStep, NextOutcome DEF Outcome, Fine
<1>3. QED
  BY <1>1, <1>2, PTL DEF Spec

\* A desktop nobody disturbs is always neat.
LEMMA NeatInvariance ==
  ASSUME Calm
  PROVE  Spec => []Neat
<1>1. Init => Neat
  BY DEF Init, Neat, Tidy, Live
<1>2. IInv /\ Fine(scene) /\ Neat /\ [Next]_vars => Neat'
  BY NextOutcome DEF Outcome
<1>3. QED
  BY <1>1, <1>2, SceneInvariance, PTL DEF Spec

\* Whatever disturbs the desktop, a switch of workspace leaves the windows of
\* the new one on screen and no others but sticky ones.
THEOREM SwitchesRestoreScene == Spec => SwitchRestoresScene
<1>1. IInv /\ Fine(scene) /\ [Next]_vars =>
        [scene'.active # scene.active =>
           LET open == {w \in Window : life[w] = "live" /\ life'[w] = "live"}
           IN  \A w \in open :
                 /\ scene'.wsOf[w] = scene'.active => w \in scene'.space
                 /\ w \in scene'.space =>
                      scene'.wsOf[w] = scene'.active \/ w \in sticky
                 /\ w \in scene.space \cap sticky => w \in scene'.space]_vars
  BY NextOutcome DEF Outcome, Repairs
<1>2. QED
  BY <1>1, SceneInvariance, PTL DEF Spec, SwitchRestoresScene

\* Whatever disturbs the desktop, a switch gives the keyboard to no open
\* window that is off screen.
THEOREM SwitchesFocusVisible == Spec => SwitchFocusesVisible
<1>1. IInv /\ Fine(scene) /\ [Next]_vars =>
        [scene'.active # scene.active /\ ~Locked =>
           (scene'.focus \in Live => scene'.focus \in scene'.space)]_vars
  BY NextOutcome DEF Outcome, Repairs
<1>2. QED
  BY <1>1, SceneInvariance, PTL DEF Spec, SwitchFocusesVisible

\* Without the requests that break it, the Space holds exactly the windows of
\* the active workspace in every reachable state.
THEOREM SceneIsExact ==
  ASSUME Calm
  PROVE  Spec => []ActiveSceneExact
<1>1. Neat => ActiveSceneExact
  BY DEF Neat, Tidy, ActiveSceneExact, WindowsOn, Live
<1>2. QED
  BY <1>1, NeatInvariance, PTL

\* Without those requests, sticky windows are on screen on every workspace.
THEOREM StickyIsEverywhere ==
  ASSUME Calm
  PROVE  Spec => []StickyEverywhere
<1>1. IInv /\ Neat => StickyEverywhere
  BY DEF IInv, NoWindowLost, IsMinimized, Neat, Tidy, StickyEverywhere, Live
<1>2. QED
  BY <1>1, Invariance, NeatInvariance, PTL

\* Without those requests, grafts and pickers, no unlocked step leaves the
\* keyboard on a window of another workspace.
THEOREM FocusStays ==
  ASSUME Calm, "graft" \notin Env, "picker" \notin Env
  PROVE  Spec => FocusStaysOnActive
<1> DEFINE Idle == picker = Off
<1>1. Init => Idle
  BY DEF Init
<1>2. Idle /\ [Next]_vars => Idle'
  BY PickerSteps DEF LockSession, UnlockSession, StartPicker, FinishPicker
<1>3. IInv /\ Fine(scene) /\ Neat /\ Idle /\ [Next]_vars =>
        [FocusOnActive /\ ~Locked /\ lock' = Off => FocusOnActive']_vars
  <2> SUFFICES ASSUME IInv, Fine(scene), Neat, Idle, [Next]_vars,
                      FocusOnActive, ~Locked, lock' = Off
               PROVE  FocusOnActive'
    OBVIOUS
  <2>1. Aiming
    BY DEF Aiming, FocusOnActive, Aimed
  <2>2. Aimed(scene, Live)'
    BY <2>1, NextOutcome DEF Outcome
  <2>3. QED
    BY <2>2 DEF Aimed, FocusOnActive
<1>4. QED
  BY <1>1, <1>2, <1>3, SceneInvariance, NeatInvariance, PTL
  DEF Spec, FocusStaysOnActive
=============================================================================
