# A verification project for shoestring-wm

TLA+ models of the Wayland compositor `shoestring-wm` and of the programs that
share, control and lock its desktop, checked with TLC on small instances and
proved about with TLAPS. Paths below are relative to the repository's root.

## The system

The compositor (`src/`) is one thread around a calloop event loop. Every
Wayland request, input event, IPC line and timer is a callback that runs to
completion with `&mut ShoestringWm`. So nothing interleaves inside a handler;
what is hard is the order in which clients, the user, scripts and timers call
handlers that share the same records. Around it run separate processes: the
remote server (four kinds of thread, real concurrency), remote viewers, lock
programs, commands it runs, the bar, menu, notification daemon, portal, and
tools on the JSON IPC socket.

| Part | State | Operations | What is hard | What makes it correct |
|---|---|---|---|---|
| Desktop core (`workspace.rs`, `layout.rs`, `state.rs`, `input.rs`, `picker.rs`, `window_rules.rs`, `handlers/xdg_shell.rs`, `xwayland.rs`) | the Space, window→workspace, a most-recently-used stack per workspace, the minimized stack, sticky marks, keyboard focus, taskbar handles | map, unmap, switch, move, minimize, restore, stick, rules, drag | records that must agree, changed by two dozen handlers | no window lost; the Space is the active workspace; focus stays visible |
| Session lock (`handlers/session_lock.rs`, `idle_lock.rs`, `crates/shoestring-lock`) | the lock and its owner, the lock program's child record, its prompt and password | ask, confirm, refuse, draw, type, unlock, time out, crash, report | two lock programs, three who start them, ordered connections, a program that dies | only the right password unlocks; whoever asks is told; once locked, only a lock surface gets the keyboard |
| Seat (`inject.rs`) | what each device and injection hold | note a transition, release a source | many sources, one keyboard | down exactly while somebody holds it |
| Consent gates (`state.rs`, `ipc.rs`, `remote_lease.rs`) | remote, automation, capture gates; lease and idle clock; viewer count | set, couple, expire, fail closed | a gate closes in many ways, viewers come and go | nothing outlives its gate |
| Remote server (`crates/shoestring-remote-server`) | gate copy, listener, sessions, holds, viewers | accept, handshake, inject, end, reset | threads, a stalled viewer, generations, its own death | counts agree; withdrawn consent ends the sessions it finds |
| IPC server (`ipc.rs`, with the waits of `picker.rs`, `drag.rs`) | connections, queues, subscribers, parked requests, lingering replies | dispatch, push, park, answer, time out, flush, drop | one wait, many ends; slow and vanished peers | each request answered once; no event missed; a drag's button released |
| Machine axis (`remote.rs`, `input.rs`, `crates/shoestring-remote-client`) | machines in order, the viewed one, the captured pointer; each viewer's index and whether it is shown | register, leave, switch, capture keys and motion, read | viewers read late; indices shift | the viewed machine is the one shown; no input discarded |
| Helpers (`remote_command.rs`, `child_reaper.rs`, `screenshot.rs`, `confirm.rs`) | children, their descendants and pipes, timers, the dialog | spawn, read, reap, time out, reply, blocking read | exit races output; a descendant keeps a pipe open; a reaper between drain and sweep | one reply, with all the output; every child reaped |
| Capture (`capture_stream.rs`, `window_capture.rs`, `screencopy.rs`, `ext_screencopy.rs`) | subscribers, their queues and resync marks, damage trackers, frames | subscribe, render, push, copy, lock, close | what changed since *this* reader was served; locks in between | what was sent adds up to what is rendered; nothing of the desktop while locked |
| Stacking (`state.rs`, `input.rs`) | z order, always-on-top | raise, lower, cycle | several passes over one list | not modelled |
| Configuration, clipboard, outputs, rendering, protocol glue | | | hardware, pipes of clients, the Wayland library | not modelled |
| Other programs (`crates/*`, `clients/*`) | | | | see `PROJECT.json`, `components` |

`PROJECT.json` lists every component with its sources and status, the hazards
by line, the map from definitions to source lines, and the findings.

### How the parts interact

* Everything in the compositor shares `ShoestringWm`. Window operations end in
  a few functions (`focus_window`, `clear_focus`, `focus_workspace_id`,
  `move_window_to_workspace`), and each is one operator of `Desktop`.
* The lock, the picker, a layer surface and a drag each borrow the keyboard,
  save who had it, and give it back. They do not nest by construction.
* Closing the remote gate closes automation and capture; closing automation
  releases injected keys (`SeatHeld::release`); closing capture ends streams.
* The remote server learns of the gate by an event on its registration
  connection, and of a session's end by the end of its capture stream. Each
  session talks to the compositor on connections of its own.
* A viewer of the machine axis is two things to the compositor: a subscriber
  of its IPC server, cut off when it reads too slowly, and a machine.
* A lock program is a child (reaped, its exit reported as `LockFailed`) and a
  Wayland client (its requests are read in order, also after it died).

## Modules

| Module | Models |
|---|---|
| `Desktop` | the desktop core, with the lock's, picker's, layer surface's, graft's and drag's hold on it |
| `MCDesktop` | `Desktop` for TLC |
| `DesktopProofs` | theorems about `Desktop` |
| `SharedSeat` | the abstract seat: a key is down while a source holds it |
| `SeatHeld` | `SeatHeld` of `inject.rs`, and scripted taps that bypass it |
| `SeatHeldProofs` | `SeatHeld` keeps the seat exact and implements `SharedSeat` |
| `RemoteShare` | gates, lease and injected input in the compositor, composed with the remote server's threads and sessions; extends `SeatHeld` |
| `MCRemote` | `RemoteShare` for TLC (symmetry of sessions) |
| `RemoteShareProofs` | theorems about `RemoteShare` |
| `IpcServer` | connections, queues and deferred requests of the IPC server, and scripted drags |
| `IpcServerProofs` | theorems about `IpcServer` |
| `MachineAxis` | the machine axis in the compositor, composed with the viewers' processes |
| `MCAxis` | `MachineAxis` for TLC (a narrow and a wide machine) |
| `MachineAxisProofs` | theorems about `MachineAxis` |
| `Helpers` | commands, screenshots, detached jobs and the confirmation dialog, with their processes, pipes and reaper |
| `HelpersProofs` | theorems about `Helpers` |
| `ScreenLock` | the session lock's protocol and child records, composed with the lock programs and the idle timer |
| `MCLock` | `ScreenLock` for TLC (the password) |
| `ScreenLockProofs` | theorems about `ScreenLock` |
| `Capture` | output streams, window streams and copies |
| `CaptureProofs` | theorems about `Capture` |

Most modules have a constant `Env` that says which parts of the environment
act. In the modules after `RemoteShare` it is a set of environments, one of
which is chosen at the start: their full product has too many states, and the
combinations a run lists are those that meet.

### Desktop

One action is one handler. `scene` is a record of what `workspace.rs`, the
Space and the seat hold together, so that the functions handlers call in turn
are operators from scene to scene (`FocusWorkspaceId`, `MoveWindowToWorkspace`,
`HandOff`), composed in the order the code calls them. The stacks (`mru`,
`minimized`) hold no window twice, so a stack is the total order of its
members: a set of pairs, which keeps the proofs in set theory.

Some requests break what the documentation says of the scene (a layout request
for a hidden window, sticking one, a late rule, an X11 rule, a drag). They are
all allowed in `desktop_repair`, which shows what holds in spite of them;
`desktop_scene` leaves them out and shows what then holds always. Left out:
geometry, stacking order, pointer positions (the window under the pointer is
any mapped one), more than one layer surface at a time, and override-redirect
windows.

### SeatHeld and SharedSeat

`SeatHeld` counts what each device and raw injection hold and passes on a
transition only when no other source holds the code. `down` is what was passed
on. `SharedSeat` says what that is for. `Shared` is the instance of it whose
sources are the devices and injection.

### RemoteShare

The compositor's handlers are atomic, as above. In the server, each step between
two points where other threads can see its state is one action. The requests
that report a viewer count or a counted key are sent while the server holds the
mutex of that count (`viewers.rs`, `holds.rs`), so counting and the compositor's
handling are one action; they are the code's own argument for reporting under
the lock, and the mutants `KeyUncounted` and `EndHoldsAnyGeneration` show what it
buys.

A session is a program counter (`handshake`, `captured`, `added`, `joined`,
`input`, `stopping`, `leaving`) and what it shares: its stream, its frames
thread, its holds. Generations are compared for equality with the current one
only, so a session records whether its generation still is current. The
supervisor is `waiting`, `listening`, `closed`, `resetting`, `rehold`, `ending`.
`notices` are the `RemoteChanged` events the server has not read; one that
repeats what the server will know anyway is not queued.

Parts of `Env`: `quick` lets the user reopen the gate before the server has
noticed it closed (otherwise only when `Settled`); `decoupled` lets scripts flip
automation and capture apart from the remote gate; `accept_fails` breaks the
listener; `lease` gives leases; `arm_fails` makes timers fail; `crash` kills the
server.

A viewer may stop reading whenever a frames thread writes to it, from the first
frame on and also when the WM has closed the stream, for frames of it may be
buffered. `ConsentEndsSessions` therefore says two things: a session that
`end_all` can find is ended, whatever its viewer does; and if sharing stays off,
every session ends whose viewer does not stop reading for ever. That one which
is added too late, to a viewer that does not read, stays is a divergence (below).

Not modelled: frames, clipboard and pointer motion as data (a refused motion is
an action, for it ends a session); graft sessions; a second server registering
over the first; scripts that report viewers or share the injected source;
a failing bind (the supervisor retries: a stutter); the compositor's exit.

### IpcServer

A connection is a record of its socket (client, lingering, closed), what its
peer does (reads, stalls, is gone), its role (one request, or a subscription:
events, metrics, the remote server, a machine), the queue of lines it is owed,
whether a write-ready source is armed, and how many replies it was given. `park`
is the one deferred request of each connection: a wait for a window to map or
to go, for Xwayland, a pixel probe, the picker, a drag. The server's several
lists of parked requests are keyed by connection and a connection parks at most
one request, so they are one function. `remote.server` is the registered remote
server's connection.

The handlers' loops over connections (`broadcast`, `resolve_*`, `reap`) are sets
and functions over `Conn`; a push that overflows a backlog drops the connection
in the same action, with everything it owned, as `drop_client` does. A line is
a unit of a queue, and a socket takes all of it or none. Of the requests that are
answered at once, what they do to the desktop is left out, but not that the
subscribers are told of it, in up to two events. A commit may bring a title, a
buffer, or both.

### MachineAxis

The compositor side is `machines` (the axis in order), `view`, `pointer` and
what is captured; `queue` is what each viewer has yet to read: views, keys,
motion, in order. A viewer is its `index`, told once when it registered, and
`active`; it reads one event per action, at any later time. `held` is what each
remote machine was told is down. `Widths` give each machine the width it
registered with, and the captured pointer stays within it.

### Helpers

A job is a request and its processes: the child, descendants in its group and
outside (`group`, `stray`), who has each pipe open for writing, what was
written and is unread; and the compositor's record: pending, open pipes, exit
status, timers. The reaper is two steps, `Drain` and `Sweep`, because a signal
may arrive between emptying the self-pipe and looking at the children. The
dialog is one process whose answer is read by a blocking loop on the only
thread: while it is `Blocked` no other handler of the compositor is enabled.
A read of a pipe does not fail (the code takes a failure for the end of the
output, `child_pipe.rs:90`).

### ScreenLock

Each lock program has two ordered channels (`out`, `in`), its state as a
process, its prompt and typed password. The compositor has `session` (whose
lock it is, confirmed or not, and whose surface is listed for the output) and
`child` (the program spawned last, and whether it locked). Programs are started
by the user's key, by the idle timer, or by a stranger, and may crash with
requests unread. There is one output, so a program has one surface.

A program asks for the lock and makes its surface in one go, so the surface of
one that is refused arrives too. `new_surface` asks nobody whose it is: while the
session is locked it lists it in place of the one the output had and gives it the
keyboard, and `maybe_confirm_lock` counts it. So `NewSurface`, `Press` and
`Confirmed` go by the surface listed last, not by the owner. That no key then
makes the refused program unlock is what `UnlockValid` says: it reads `finished`
first. Two parts of `Env` are about the program: `undrawn` lets it fail to draw
(a size of zero, no memory), so that it commits nothing, and `no_user` starts it
without `$USER`, so that it asks nobody and keeps what was typed.

External to the repository and assumed: a second lock request is answered
`finished`; an unlock before `locked` is a protocol error; the lock surfaces of
a refused program are passed on like any other's (`ext-session-lock-v1` in the
Wayland library).

### Capture

What a client was sent is a picture: what it shows of each region. A damage
tracker is the set of regions changed since it last looked. `Streamed(s)` and
`Copied(c)` are what the next render makes of a stream and of a copying client,
so that the properties compare with the screen what is *about to be* sent,
which is where a missed change would show. A stream is open, draining (its
queue is full) or resyncing; a window stream sends the whole window when it is
dirty; a copy takes what its client's own tracker reports.

## Runs

| Run | Instance | Shows |
|---|---|---|
| `desktop_repair` | one xdg and one X11 window, 2 workspaces, every disturbance | no window is lost; a switch repairs the scene and focuses a visible window |
| `desktop_scene` | the same windows, 3 workspaces, lock and layer surface | the scene is exact, sticky windows are everywhere, focus follows moves |
| `desktop_session` | the same, 2 workspaces, lock, layer, picker, graft | a locked session keeps its keyboard |
| `remote_share` | 2 sessions, 1 keyboard, 1 key, leases, failing timers, crashes; fair | the seat is shared exactly, the chip is honest, withdrawn consent ends the sessions it finds and those whose viewers read, an idle lease ends |
| `remote_race` | 2 sessions, 1 key, no device; early reopening, gates apart, failing accepts | nothing outlives its gate; the holds add up |
| `ipc_server` | 2 connections, 1 window; three environments: windows with stalls and hiding; the remote server, metrics and machines; drags, picks and garbage; fair | each request is answered once, no window is missed, a drag releases, the gate needs its server, replies are sent, nothing lingers for ever |
| `machine_axis` | 2 machines, widths 1 and 3; keys, motion or a button, with lock or picker; fair | a viewer that knows its place is shown exactly while viewed, and discards nothing |
| `helpers` | 2 jobs, or 1 in the environments with a timeout; 2 pipes; commands, screenshots, detached jobs, a dialog; fair | replies are complete, commands are answered, no zombies, the loop comes back |
| `screen_lock` | 2 lock programs; five environments: typing with crashes, with failing drawing, without `$USER`, or with the idle timer; the idle timer with crashes and a stranger; fair | unlocks are valid and held, the prompt forgets, whoever asks is answered, an idle desktop locks |
| `capture` | one stream, window stream or copying client; 2 regions, 2 paints, 2 modes; locks, previews, gates, stalls, resizes; fair | what was sent adds up to the screen, and a reader catches up; a lock hides the desktop |
| `minimize_focus`, `view_follows` | smallest that show it | disagreements between code and its comments (below) |

Each property has a mutant in `PROJECT.json`: a plausible bug that TLC must
find under the same run.

### Bounds

*Desktop.* Two windows suffice for one to be focused, hidden, moved or destroyed
while another competes for the keyboard and the top of a stack, and one of each
kind covers both paths; the third workspace in `desktop_scene` separates the
active, the source and the target workspace of a move. A window is created once:
a reused identity would be a different object in the code.

*RemoteShare.* Two sessions are the fewest that share a key; one code is enough
because codes never interact. `MaxNotices` is 1: the user reopens the gate with
no event unread, while any number of closing events may follow, so the
supervisor can miss a whole off–on, which is the case of interest.

*IpcServer.* Two connections: one parks while the other causes, overflows or
supersedes. `Backlog` is one line, so that a stalled subscriber overflows at its
second event; `Steps` is one motion, so that a drag has a press, a motion and a
drop. Connection ids are never reused in the code, so a closed one stays closed;
the server may stop accepting, and `CHECK_DEADLOCK` is off for that reason (all
connections used and closed, nothing left to do).

*MachineAxis.* Two machines: one leaves from before the other. Widths 1 and 3
let a motion stop at an edge or short of it. `Cap` (2) bounds a viewer's queue: an event
waits behind another. One button, and the keys of the bindings.

*Helpers.* Two jobs for the reaper's races, two pipes so that one ends before
the other, two chunks (`MaxOut`) so that some is read and some is not. The two
environments with timeouts have one job (`alone`), since only the reaper is
shared and the other two cover it. `CHECK_DEADLOCK` is off: all jobs are done.

*ScreenLock.* Two programs: one is refused or left behind by the other. One
character and `MaxTyped` 2, which counts keys that are typed and not yet read or
dropped: a password and the Enter that submits it fit, and so does one character
too many, which Backspace and Escape cut off. A wrong password submitted is the
empty one, or the right one refused.

*Capture.* Subscribers do not interact, so one of a kind; two regions so that
damage may miss one; two paints so that a change is seen; two modes.

What TLAPS proves depends on none of these bounds.

### Fairness

*RemoteShare.* Weak fairness of the reader, the supervisor
and every session's own steps: threads run, a handshake times out
(`HANDSHAKE_TIMEOUT`), the grace of `end_all` ends. Of `DropServer`: the kernel
closes a dead process's sockets. Of `LeaseEnds`: a lease that nobody renews
reaches its deadline; with weak fairness an endless renewal is not excluded
from ending, so the liveness results say nothing of a user who renews for ever.
Nothing is asked of users, viewers, devices, or of a failing accept. The
supervisor's `closed` to `waiting` loop after a failed accept sleeps in the
code and is left unbounded here.

*IpcServer.* Weak fairness of `Wake` (calloop dispatches a ping) and of
`LingerTimeout` (a timer fires); strong fairness of `Flush`, since a peer that
stalls and reads again, repeatedly, must find the write source at some time.
Nothing is asked of peers or of the parked requests' timers.

*MachineAxis.* Weak fairness of `Read`: the viewer polls its connection and
blocks on nothing else.

*Helpers.* Strong fairness of `Dispatch`, because the dialog's blocking read
disables it again and again; a killed process dies; a helper that has its answer
leaves. A process that is not killed may run for ever, and nobody has to
answer a dialog.

*ScreenLock.* Weak fairness of the timer, of reading connections, of reaping
children, and of a started program's asking. Nothing of who types.

*Capture.* Weak fairness of `RenderOnce`: the render timer re-arms itself, and
has a one-second heartbeat when parked.

### What the violations show

* `minimize_focus`: minimizing the focused window leaves the keyboard on it,
  because the window leaves the Space before `focused_window` searches it
  (`input.rs:477`; the comment at `input.rs:483` says it surrenders it).
* `view_follows`: a machine earlier on the axis leaves, the compositor shifts
  the later ones down, and the viewer of the machine in view, which learned its
  index once, takes the announced view for another machine's and stays hidden
  (`crates/shoestring-remote-client/src/main.rs:645`; `remote.rs:36` says the
  view keeps following the machine).

### Divergences without a run

Met while modelling, and visible in the actions of the modules. Where a property
is stated only for part of the environment, one of these is the reason.

Desktop and lock:
* Locking with a picker armed hands the keyboard back to the window that had
  it: `session_lock.rs:116` ends the picker before the lock is recorded, so its
  check at 120 still finds the session open. Hence `LockedFocus` only without
  pickers.
* A window closed while minimized is not found, and leaves its handle, stack
  entry and sticky mark behind (`xdg_shell.rs:80`).
* A maximize request shows a window of another workspace (`layout.rs:361`;
  `docs/architecture.md:411` says the Space is the active workspace). Sticking a
  hidden window, and a rule applied late, which recenters and so maps the window
  it moved away, do the same. Hence `Calm` below.
* `focus_window` follows an X11 rule that hid the window (`xwayland.rs:444`); a
  sticky window loses focus on a switch to an empty workspace; a dead X server
  leaves minimized X11 windows on the stack; unlock restores focus wherever the
  window has gone.
* A locker that dies leaves the session locked, and a second one is refused. A
  locker started with no output makes no surface. `LockFailed` may be told for a
  failing second child though the first then locks. `maybe_confirm_lock`
  confirms on any surface's commit once a lock surface exists, though
  `session_lock.rs:37` and 276 say it waits for the lock's own frame.
* The lock surface of a second, refused program replaces the owner's on that
  output and takes the keyboard (`session_lock.rs:165`, 200), though the header
  (9) says that keys go to the lock surface so that the client can read the
  password. When that program exits, its dead surface stays listed, and the owner
  cannot be typed at.
* A lock program whose drawing failed may be typed at, and unlocks without having
  been told `locked` (`crates/shoestring-lock/src/main.rs:979`): hence
  `~proc[l].draws` in `UnlockValid`.

Seat and remote sharing:
* A scripted tap lifts a key that a finger holds (`inject.rs:220`, 772). Hence
  `DownExact` is stated for `Chords = {}`.
* After a quick off and on, a viewer that had stalled stays connected and
  injects while the compositor shows nobody: the server samples the gate
  (`crates/shoestring-remote-server/src/main.rs:275`).
* A failed accept followed by a closing gate skips `end_all`; a handshake in
  flight opens a stream if only the capture gate is open.
* A session is added after its stream was opened. If the gate closes in between
  and `end_all` takes its list before the session is on it, nobody stops that
  session: if its viewer does not read, its frames thread blocks for ever on the
  frames it has yet to write (`session.rs:175`, 195, 256 against 89), though the
  comment at `session.rs:46` has the closing gate end those that do not end on
  their own.
* A second server replaces the first without resetting the viewer count.

IPC server:
* `push_event_to` appends to a machine's queue without the backlog bound. In the
  model `CapturedInput` has one, so no property speaks of that queue's length.
* A window off the active workspace does not answer a wait when it first has a
  buffer, though the comment of `ready_windows` says placement is not awaited.
* A drag can be answered Ok although the automation gate closed, releasing its
  button, and reopened while it ran.

Machine axis:
* The index is a `u8` (`remote.rs:102`): it wraps with 256 machines.
* The release of a binding's key is forwarded if Super is released first (the
  comment near `input.rs:864` and `docs/ipc.rst:1409` say it is swallowed).
* A key held over a switch of view, a lock or a picker stays down on the remote:
  nothing is stated of `held`.
* Touch, tablets and gestures are neither captured nor forwarded
  (`docs/ipc.rst:1402`). Motion is clamped to the size at registration although
  a remote may be resized.

Helpers:
* Escape then Enter in one batch of input accepts the dialog.
* If a pipe cannot be registered the request stays pending and is replied to
  twice.
* The group's id may be reused once the group is empty. A screenshot has no
  timeout.

Capture:
* A failed readback drops the tile yet clears the mark that would resend it
  (`capture_stream.rs:338`); a graft that cannot be rebound, and a failed copy
  after its tracker advanced, lose their damage (`window_capture.rs:392`,
  against 230).
* `copy_with_damage` of regions, or of several frames at once, loses damage
  (`screencopy.rs:451`, against the comment at 78).
* A popup's commit does not mark a grafted window dirty (`compositor.rs:118`).

## Proofs

`TLAPS` proves, for all values of the constants, the theorems `PROJECT.json`
lists: the type invariant of every component but the two seats, and every safety
property the passing runs check: invariants, action properties and both
refinements of `SharedSeat`. The assumptions are those the modules name: the
focus targets are distinct, there is a workspace, injection is no device, the
server has finitely many session slots (`MAX_SESSIONS`) and a slot is no input
device, sets of jobs and machines are finite, `None` is none of the values it
stands beside.

* `DesktopProofs`: first, in any environment, `TypeCorrect`, `NoWindowIsLost`,
  `PickerNeverOutlivesLock`, `LockedKeyboardStays`, and, without pickers,
  `OnlyLockSurfaceFocused`. The inductive invariant adds to those that a window
  not yet created appears in no record (`Untouched`) and that a stack is
  reflexive on its members (`Reflexive`), without which `Tops` of a stack could
  be empty and restoring lose a window. The lemmas are about the operators on
  scenes: what a push, retain, switch or move does to the records (`Extends`),
  then one per action.
  The second part is about what is on screen. `Fine` says that the stacks are
  antisymmetric too, without which the window on top after a pop need not be one
  that was looked for; then `SwitchLands` and `MoveLands` say where a switch
  and a move leave the windows and the keyboard, and each action has one lemma
  (`...Outcome`) that says what it does to the scene. `SwitchesRestoreScene` and
  `SwitchesFocusVisible` hold in any environment. `SceneIsExact`,
  `StickyIsEverywhere` and `FocusStays` hold in a `Calm` one, with the invariant
  `Neat`: open windows are on screen exactly if they are on the active
  workspace, and sticky ones are on no other.
* `SeatHeldProofs`: `SeatIsExact` and `SeatIsShared`, both when no script taps
  keys (`Chords = {}`); the assumption is needed. The refinement rests on
  `SeatIsExact`: each transition is a press, release or
  letting go of one source of the abstract seat.
* `RemoteShareProofs`: `RemoteTypeCorrect`, `RemoteSeatExact`,
  `NothingOutlivesConsent`, `CountsAgree`, with no assumption on `Env`. The
  inductive invariant (`Books`) relates each count to the cardinality of the
  sessions it counts. It is preserved only because of `Stage`: a session that
  holds something is in its input loop or about to end its holds, and one that
  is counted has joined and not left; otherwise ending a session twice, or
  ending one from before a reset, would take a count below zero.
  Two more theorems assume a `Patient` user, who does not reopen the remote
  gate before the server has caught up with its closing; with `"quick"` in
  `Env` TLC finds both properties violated. Crashes, failing calls, accept
  errors and the lease stay. `ViewersShownAreConnected` is `ViewerCountHonest`,
  and its invariant `ShareInv` says why two processes agree on a number they
  tell each other late: what the server will think of the gate once it has read
  its notices is what the gate is (`Told`); while the gate is open the server
  either knows, or is in its accept loop with no session alive (`Serving`,
  `Behind`), so that nothing is reset under a session; and what is shown is
  what the server counts or the gate is closed.
  `ViewersAreSources` shows that the detailed system implements `SharedSeat`
  with each session a source of its own (`Shares`). It assumes besides that no
  script flips the gates that the remote gate is coupled to (`Alone`; violated
  with `"decoupled"`). The first half of the refinement relates states: a code
  is down exactly if a device or a session of this generation holds it
  (`DownShared`), because what is injected is what some session holds
  (`Serving`). The second maps each action: a key is one source's press or
  release, whether or not the server passes it on; an ending session or a
  closing gate is one step of `LetGo`; the rest stutter.
* `IpcServerProofs`: `ServerTypeCorrect`, `RequestsAreAnsweredOnce`,
  `NoWindowIsMissed`, `DragsRelease`, `GateIsServed`, `RepliesAreNotCut`. The
  state a handler changes step by step is one record (`Now`), and the parts of
  the invariant are operators on it: a record is `Half` good after a connection's own change and
  `Whole` again once `Unparked` and `Settled` have dropped what that connection
  owned. Every handler is such a composition, so each operator is shown once to
  keep the parts (`Kept`, `ParksEnd`, `GateHeld`). Beside it stand
  `WindowsPlaced` and `Unmissed`.
  `RepliesAreNotCut` is an action property. A linger timer only closes a queue
  that its peer could still read if nothing will ever write it, so what has to
  be invariant (`ArmedInv`) is that a queue wants a write-ready source unless
  its peer is gone, and that a wanted source is armed or the ping that arms it
  is pending. `Turned` says what any handler may make of a connection; it is
  transitive, each operator keeps it (`Turning`), and `Become` pings for what a
  turned connection has come to want. What is left is the loop itself: the
  wake ping, the flush and the timer.
* `MachineAxisProofs`: `AxisTypeCorrect`, `ViewerIsShown`, `InputIsRelayed`, for
  `Spec` without fairness. The invariant says of each viewer's queue what the
  viewer will believe when it has read it (`Belief`), that input in it comes
  after the news that its machine is in view (`Fits`), and that no viewer's index
  is behind its place on the axis (`Placed`).
* `HelpersProofs`: `HelpersTypeCorrect`, `RepliesAreComplete`. The invariant
  (`Drained`) says that a pipe that has ended was read to its end, and that a
  reply that did not give up left nothing unread.
* `ScreenLockProofs`: `LockTypeCorrect`, `PromptIsForgotten`, `UnlocksAreValid`,
  `LockIsHeld`. The invariant is about what is in a connection: an unlock in it
  is the last request, of the owner, and comes after a commit or a confirmed lock
  unless the program cannot draw (`UnlocksLast`); a program prompts, or has a
  key to read, only if its lock will be confirmed, or it first reads what makes
  it commit, or it first reads that it was refused (`PromptsHeld`). The last is
  what keeps a refused program that has the keyboard from prompting, and it
  needs the order of what a program asks (`Opening`): its surface is read after
  its request, so once the surface is listed the program owns the lock or has
  `finished` to read (`Listed`). One that has not asked for the lock has nothing
  to do with it (`Fresh`).
* `CaptureProofs`: `CaptureTypeCorrect`, `StreamsAreExact`, `CopiesAreExact`,
  `LockHidesDesktop`. The invariant (`Books`) says that a client's picture
  differs from the screen only where its tracker, its resync mark or its
  pending damage says so, and `Consented` that nothing is open without consent.

Only model-checked: liveness (`ConsentEndsSessions`, `IdleLeaseEnds`,
`LingerEnds`, `LocalViewClears`, `CommandAnswered`, `NoZombies`,
`LoopComesBack`, `LockAnswered`, `IdleLocks`, `CatchesUp`), which is out of the
prover's reach, and the two violations.

## Not modelled

* Stacking: raising, lowering, always-on-top and cycling are passes over one
  list that the Wayland library keeps sorted; what they do to focus is in
  `Desktop`. That cycling between two normal windows never reaches a pinned one
  stays a hazard without a property.
* Configuration reload and parsing, outputs, gamma, scale: values that the
  modules leave abstract, changed in one step.
* Rendering, DRM and the backends: I/O whose results no modelled property
  depends on, beyond the render tick of `Capture`.
* Clipboard and selections: pipes between clients, run by the library.
* Protocol glue and the IPC crate's message types: translation of requests into
  the operations that are modelled.
* The bar, menu, notifications, tasks, portal, screenshot and region tools:
  separate programs that draw, and ask one thing at a time.
* Frames and wire formats of the remote protocol as data.

By lines these are most of the repository: the map covers the handlers that
keep shared state, about a tenth of the implementation.

## Plan

1. `Desktop`, `SeatHeld`, `RemoteShare`, `IpcServer`, `MachineAxis`, `Helpers`,
   `ScreenLock`, `Capture` and their proofs: done.
2. Next, if the code grows there: the stacking order under `CycleWindows`;
   failing readbacks and region-limited copies in `Capture`; a second remote
   server and graft sessions in `RemoteShare`.
3. Proofs: every safety property is proved. What could follow is what
   liveness rests on: that the measure which makes a lingering connection or a
   stopping session end decreases in each of the steps that fairness forces.
