------------------------------ MODULE MachineAxis ------------------------------
(***************************************************************************)
(* The machine axis: the local desktop (view 0) and the remote machines    *)
(* after it, in the order their viewers registered. While a machine is in  *)
(* view the compositor captures the local input and pushes it down that    *)
(* viewer's connection, interleaved with the broadcasts that say which     *)
(* machine is in view. Each viewer is a process of its own: it reads its   *)
(* connection later, compares what it reads with the index it was given    *)
(* when it registered, and relays input only while it thinks it is shown.  *)
(*                                                                         *)
(* A viewer cut off by its backlog is a viewer that leaves (IpcServer has  *)
(* the backlog); Cap bounds what may be waiting on a connection.           *)
(***************************************************************************)
EXTENDS Integers, Sequences, FiniteSets

CONSTANTS
  Machine,  \* viewers that may register
  Width,    \* the width each registers with
  Key,      \* keys without a binding of the axis
  Super,    \* the modifier of the axis' bindings
  Axis,     \* bound, with Super, to "next machine"
  Button,   \* pointer buttons
  Cap,      \* bound: events waiting on one connection
  Env       \* the environments to consider: each a set of "keys", "buttons",
            \* "motion", "lock", "picker"

ASSUME MachineAssumption == IsFiniteSet(Machine)
ASSUME WidthAssumption == Width \in [Machine -> Nat]
ASSUME CapAssumption == Cap \in Nat
ASSUME KeysDistinct == Super # Axis /\ {Super, Axis} \cap (Key \cup Button) = {}

VARIABLES
  machines,  \* remote_clients: machine i of the axis is machines[i]
  view,      \* view_index
  pointer,   \* remote_pointer: where the machine in view has its pointer
  locked,    \* a session lock is up
  picker,    \* a window picker is pending
  phys,      \* what is physically down: keys and buttons
  queue,     \* what each viewer has yet to read
  index,     \* my_index: what each viewer was told when it registered
  active,    \* each viewer's own idea of whether it is in view
  held,      \* what each remote machine has been told is down
  env        \* the environment of this behaviour

vars == <<machines, view, pointer, locked, picker, phys, queue, index, active, held, env>>
viewers == <<index, active, held, env>>

Code == Key \cup {Super, Axis} \cup Button
OnAxis == {machines[i] : i \in DOMAIN machines}

Viewed(i) == [type |-> "view", index |-> i]
Pressed(c, d) == [type |-> "key", code |-> c, down |-> d]
Moved(x) == [type |-> "motion", x |-> x]

Event ==
  [type : {"view"}, index : Nat] \cup [type : {"key"}, code : Code, down : BOOLEAN]
    \cup [type : {"motion"}, x : Nat]

TypeOK ==
  /\ machines \in Seq(Machine)
  /\ \A i, j \in DOMAIN machines : machines[i] = machines[j] => i = j
  /\ view \in 0..Len(machines)
  /\ pointer \in Nat
  /\ locked \in BOOLEAN /\ picker \in BOOLEAN
  /\ phys \subseteq Code /\ env \in Env
  /\ queue \in [Machine -> Seq(Event)] /\ index \in [Machine -> Nat]
  /\ active \in [Machine -> BOOLEAN] /\ held \in [Machine -> SUBSET Code]
  /\ \A m \in Machine :
       /\ Len(queue[m]) <= Cap
       /\ m \notin OnAxis => queue[m] = <<>> /\ held[m] = {} /\ ~active[m]

Init ==
  /\ machines = <<>> /\ view = 0 /\ pointer = 0
  /\ locked = FALSE /\ picker = FALSE
  /\ phys = {} /\ env \in Env
  /\ queue = [m \in Machine |-> <<>>]
  /\ index = [m \in Machine |-> 0]
  /\ active = [m \in Machine |-> FALSE]
  /\ held = [m \in Machine |-> {}]

-----------------------------------------------------------------------------
(* The axis.                                                               *)

\* The machine that gets the local input, if any.
Captured == IF view = 0 \/ locked THEN {} ELSE {machines[view]}

\* The machine that comes into view is not told.
BroadcastOthers(q, ms, i) ==
  [m \in Machine |-> IF \E k \in DOMAIN ms : ms[k] = m /\ k # i THEN Append(q[m], Viewed(i))
                     ELSE q[m]]

\* ViewChanged goes to every registered viewer.
Broadcast(q, ms, i) ==
  [m \in Machine |-> IF \E k \in DOMAIN ms : ms[k] = m THEN Append(q[m], Viewed(i)) ELSE q[m]]

\* Clamps to the machines there are; says so only if the view moves, and then
\* starts the pointer in the middle of the machine it enters.
SetViewMovesTo(ms, v, q, i) ==
  LET target == IF i > Len(ms) THEN Len(ms) ELSE i
  IN IF target = v
     THEN view' = v /\ queue' = q /\ UNCHANGED pointer
     ELSE /\ view' = target
          /\ pointer' = IF target = 0 THEN pointer ELSE Width[ms[target]] \div 2
          /\ queue' = Broadcast(q, ms, target)

\* The new machine is the last of the axis and reads its index off the reply.
Register(m) ==
  /\ m \notin OnAxis
  /\ machines' = Append(machines, m)
  /\ index' = [index EXCEPT ![m] = Len(machines')]
  /\ UNCHANGED <<view, pointer, locked, picker, phys, queue, active, held, env>>

Without(ms, i) == [k \in 1..(Len(ms) - 1) |-> IF k < i THEN ms[k] ELSE ms[k + 1]]

\* Where the view lands when the machine at removed leaves.
ViewAfterRemoval(v, removed) ==
  CASE v = removed -> 0
    [] v > removed -> v - 1
    [] OTHER -> v

\* A viewer quits, loses its server or is cut off. The remote server releases
\* what the session held; the compositor drops the machine from the axis.
Leave(m) ==
  \E i \in DOMAIN machines :
    /\ machines[i] = m
    /\ machines' = Without(machines, i)
    /\ LET v == ViewAfterRemoval(view, i)
           q == [queue EXCEPT ![m] = <<>>]
       IN IF v = view
          THEN queue' = q /\ UNCHANGED <<view, pointer>>
          ELSE SetViewMovesTo(machines', view, q, v)
    /\ index' = [index EXCEPT ![m] = 0]
    /\ active' = [active EXCEPT ![m] = FALSE]
    /\ held' = [held EXCEPT ![m] = {}]
    /\ UNCHANGED <<locked, picker, phys, env>>

\* Someone asks for a view by number: a client, or the break-out key (0).
SetView(i) ==
  /\ SetViewMovesTo(machines, view, queue, i)
  /\ UNCHANGED <<machines, locked, picker, phys, viewers>>

-----------------------------------------------------------------------------
(* Input.                                                                  *)

Push(m, e) == queue' = [queue EXCEPT ![m] = Append(@, e)]

\* The binding of the axis key, looked up with the modifiers of the moment.
AxisBound(c) == c = Axis /\ Super \in phys

\* A key: the picker swallows everything; then capture, which keeps the axis'
\* binding local and acts on its press; then the bindings, none under a lock.
\* What the local clients are told is Desktop's and SeatHeld's.
ProcessKey(c, down) ==
  IF ~picker /\ AxisBound(c) /\ down /\ ~locked
  THEN SetViewMovesTo(machines, view, queue, view + 1)
  ELSE /\ IF picker \/ AxisBound(c) \/ Captured = {} THEN UNCHANGED queue
          ELSE \A m \in Captured : Push(m, Pressed(c, down))
       /\ UNCHANGED <<view, pointer>>

\* A button: capture comes before the picker.
ProcessButton(b, down) ==
  /\ IF Captured # {}
     THEN \A m \in Captured : Push(m, Pressed(b, down))
     ELSE UNCHANGED queue
  /\ picker' = (picker /\ (Captured # {} \/ ~down))
  /\ UNCHANGED <<view, pointer>>

\* The seat passes on what changes what is down.
Input(c, down) ==
  /\ down <=> c \notin phys
  /\ (IF c \in Button THEN "buttons" ELSE "keys") \in env
  /\ phys' = IF down THEN phys \cup {c} ELSE phys \ {c}
  /\ IF c \in Button
     THEN ProcessButton(c, down)
     ELSE ProcessKey(c, down) /\ UNCHANGED picker
  /\ UNCHANGED <<machines, locked, viewers>>

\* Motion moves the machine's pointer, kept on the machine.
Motion(dx) ==
  /\ "motion" \in env
  /\ \E m \in Captured :
       /\ pointer' = IF pointer + dx < 0 THEN 0
                     ELSE IF pointer + dx > Width[m] THEN Width[m] ELSE pointer + dx
       /\ Push(m, Moved(pointer'))
  /\ UNCHANGED <<machines, view, locked, picker, phys, viewers>>

Lock ==
  /\ "lock" \in env /\ ~locked
  /\ locked' = TRUE /\ picker' = FALSE
  /\ UNCHANGED <<machines, view, pointer, phys, queue, viewers>>

Unlock ==
  /\ locked
  /\ locked' = FALSE
  /\ UNCHANGED <<machines, view, pointer, picker, phys, queue, viewers>>

\* Escape, or the client that asked for the picker goes.
PickerToggles ==
  /\ "picker" \in env /\ (picker \/ ~locked)
  /\ picker' = ~picker
  /\ UNCHANGED <<machines, view, pointer, locked, phys, queue, viewers>>

-----------------------------------------------------------------------------
(* A viewer reads one line.                                                *)

\* It maps when its machine is viewed and never unmaps.
ReadViewSticky(m, i) ==
  /\ active' = [active EXCEPT ![m] = @ \/ i = index[m]]
  /\ UNCHANGED held

ReadView(m, i) ==
  /\ active' = [active EXCEPT ![m] = i = index[m]]
  /\ UNCHANGED held

\* Relayed only by a viewer that thinks it is shown.
ReadInput(m, e) ==
  /\ held' = IF ~active[m] \/ e.type # "key" THEN held
             ELSE [held EXCEPT ![m] = IF e.down THEN @ \cup {e.code} ELSE @ \ {e.code}]
  /\ UNCHANGED active

Read(m) ==
  /\ queue[m] # <<>>
  /\ LET e == Head(queue[m])
     IN IF e.type = "view" THEN ReadView(m, e.index) ELSE ReadInput(m, e)
  /\ queue' = [queue EXCEPT ![m] = Tail(@)]
  /\ UNCHANGED <<machines, view, pointer, locked, picker, phys, index, env>>

\* Cap bounds the connections, at each step that writes to them.
Bounded == \A m \in Machine : Len(queue'[m]) <= Cap

Next ==
  \/ \E m \in Machine : Register(m)
  \/ \E m \in Machine : Leave(m) /\ Bounded
  \/ \E i \in 0..Cardinality(Machine) : SetView(i) /\ Bounded
  \/ \E c \in Code, down \in BOOLEAN : Input(c, down) /\ Bounded
  \/ \E dx \in {-1, 1} : Motion(dx) /\ Bounded
  \/ Lock
  \/ Unlock
  \/ PickerToggles
  \/ \E m \in Machine : Read(m)

Spec == Init /\ [][Next]_vars

\* Every viewer keeps reading: its loop polls the connection and never waits
\* on one thing alone.
FairSpec == Spec /\ \A m \in Machine : WF_vars(Read(m))

-----------------------------------------------------------------------------
(* Properties.                                                             *)

\* A viewer that still knows its place on the axis.
KnowsPlace(m) == \E i \in DOMAIN machines : machines[i] = m /\ index[m] = i

\* Once a viewer that knows its place has read everything, it is on screen
\* exactly if its machine is in view: registrations, departures and switches,
\* told in whatever order, add up.
ViewedMachineShown ==
  \A m \in Machine :
    KnowsPlace(m) /\ queue[m] = <<>> => (active[m] <=> view # 0 /\ machines[view] = m)

\* No captured input is thrown away by the viewer it was pushed to: the news
\* that its machine is in view is always ahead of the input.
NoInputDiscarded ==
  \A m \in Machine :
    KnowsPlace(m) /\ queue[m] # <<>> /\ Head(queue[m]).type # "view" => active[m]

\* Back at the local desktop, the viewers get out of the way.
LocalViewClears == view = 0 ~> (view # 0 \/ \A m \in Machine : ~active[m])

\* When a machine earlier on the axis leaves, the view keeps following the
\* machine the user is on: that machine's viewer stays on screen.
ViewFollowsMachine ==
  \A m \in Machine :
    view # 0 /\ machines[view] = m /\ queue[m] = <<>> => active[m]
=============================================================================
