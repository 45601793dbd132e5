------------------------------- MODULE IpcServer -------------------------------
(****************************************************************************)
(* The WM's IPC server (ipc.rs), with the requests whose reply is deferred: *)
(* waits for a window or for Xwayland, pixel probes, the window picker      *)
(* (picker.rs) and scripted drags (drag.rs).                                *)
(*                                                                          *)
(* The WM is one event loop, so an action is one callback. What interleaves *)
(* are the peers, which stall, read on or go away at any moment, the timers *)
(* and the loop's own wake ping and write-ready sources.                    *)
(*                                                                          *)
(* Abstractions: what requests, replies and events say beyond the fields    *)
(* here (every query is Query), a queue's bytes (one line is one unit, a    *)
(* socket takes all of it or nothing), and durations. A connection parks at *)
(* most one request, so the server's lists of parked requests, all keyed by *)
(* connection, are one function. A peer that shuts down its writing side    *)
(* counts as gone. Inserting a source into the loop does not fail.          *)
(****************************************************************************)
EXTENDS Naturals, FiniteSets

CONSTANTS
  Conn,     \* connections over the server's life: an id is never used again
  Window,   \* toplevels
  Backlog,  \* SUBSCRIBER_BACKLOG, in lines
  Steps,    \* motions of a drag
  Env,      \* the environments: in each, which of EnvParts act
  None

EnvParts == {"stall", "gone", "windows", "hide", "server", "drag", "pick",
             "metrics", "captured", "garbage"}

ASSUME EnvAssumption == Env \subseteq SUBSET EnvParts
ASSUME BoundAssumption == Backlog \in Nat /\ Steps \in Nat
ASSUME NoneAssumption == None \notin Conn \cup Window

VARIABLES
  conn,      \* Server.clients and Server.lingering, and each Client
  park,      \* the deferred request of each connection
  ping,      \* Server.wake has been pinged
  win,       \* the toplevels, as far as a wait looks at them
  xdisplay,  \* Xwayland is ready
  locked,    \* is_locked
  automation,\* the automation gate
  remote,    \* the remote gate, its server's connection and its viewers
  button,    \* the injected source holds the drag's button
  env        \* the environment, chosen once

vars == <<conn, park, ping, win, xdisplay, locked, automation, remote, button,
          env>>

Roles == {"request", "events", "metrics", "server", "machine"}
Client ==
  [sock : {"none", "client", "linger", "closed"},
   peer : {"reading", "stalled", "gone"}, role : Roles, spent : BOOLEAN,
   queue : Nat, wants : BOOLEAN, flush : BOOLEAN, replies : Nat]

NewClient ==
  [sock |-> "client", peer |-> "reading", role |-> "request", spent |-> FALSE,
   queue |-> 0,       \* out_buf, from out_pos on
   wants |-> FALSE,   \* wants_flush
   flush |-> FALSE,   \* ClientEntry.flush: a write-ready source is armed
   replies |-> 0]     \* replies put into the queue so far

\* A parked request. title: the filter needs a title; watch: the windows an
\* unmap wait still counts; timed: its timer runs; target: a drag's window.
NoPark == [kind |-> "none", title |-> FALSE, watch |-> {}, timed |-> FALSE,
           target |-> None, underLock |-> FALSE, next |-> 0]
Parks ==
  [kind : {"none", "map", "unmap", "ready", "probe", "pick", "drag"},
   title : BOOLEAN, watch : SUBSET Window, timed : BOOLEAN,
   target : Window \cup {None}, underLock : BOOLEAN, next : 0..(Steps + 1)]

Windows == [listed : BOOLEAN, shown : BOOLEAN, titled : BOOLEAN,
            buffer : BOOLEAN, sized : BOOLEAN, centre : BOOLEAN]
NoWindow == [listed |-> FALSE, shown |-> FALSE, titled |-> FALSE,
             buffer |-> FALSE,  \* its client has committed one
             sized |-> FALSE,   \* Window::on_commit has seen it
             centre |-> FALSE]  \* in pending_initial_center

NoServer == [on |-> FALSE, server |-> None, viewers |-> FALSE]

TypeOK ==
  /\ conn \in [Conn -> Client]
  /\ park \in [Conn -> Parks]
  /\ win \in [Window -> Windows]
  /\ {ping, xdisplay, locked, automation, button} \subseteq BOOLEAN
  /\ env \in Env
  /\ remote \in [on : BOOLEAN, server : Conn \cup {None}, viewers : BOOLEAN]

Connected(c) == conn[c].sock = "client"
Parked(c) == park[c].kind # "none"
Dragging == \E c \in Conn : park[c].kind = "drag"
Picking == \E c \in Conn : park[c].kind = "pick"
----------------------------------------------------------------------------
(* A connection's queue. These operators take and return a Client.          *)

\* send_line of n lines: behind what is queued, as much as the socket takes.
Sent(k, n) ==
  CASE k.peer = "reading" -> [k EXCEPT !.queue = 0]
    [] k.peer = "stalled" -> [k EXCEPT !.queue = @ + n, !.wants = TRUE]
    [] k.peer = "gone"    -> [k EXCEPT !.queue = @ + 1]  \* the first write fails

\* write_response: marks the connection spent unless the write failed.
Replied(k) ==
  IF k.peer = "gone" THEN Sent(k, 1)
  ELSE [Sent(k, 1) EXCEPT !.spent = TRUE, !.replies = @ + 1]

\* The client map's part of drop_ipc_client: a queued reply still goes out.
Dropped(k) ==
  IF k.sock # "client" THEN k
  ELSE IF k.queue > 0 THEN [k EXCEPT !.sock = "linger"]
  ELSE [k EXCEPT !.sock = "closed", !.wants = FALSE, !.flush = FALSE]

Answered(k) == Dropped(Replied(k))

\* send_subscribed of n lines: too far behind, its queue is discarded and it
\* is dropped; a write that fails drops it too.
Subscribed(k, n) ==
  LET s == Sent(k, n)
  IN IF k.peer = "gone" THEN Dropped(s)
     ELSE IF s.queue > Backlog THEN Dropped([s EXCEPT !.queue = 0])
     ELSE s

IsSubscriber(k) == k.sock = "client" /\ k.role \in {"events", "server", "machine"}

\* emit_ipc of n events to every subscriber.
Pushed(cn, n) ==
  [c \in Conn |-> IF IsSubscriber(cn[c]) /\ n > 0 THEN Subscribed(cn[c], n) ELSE cn[c]]
----------------------------------------------------------------------------
(* The rest of drop_ipc_client. Whatever ends a connection, the requests it *)
(* parked end with it; a drag's button is released; and if it was the       *)
(* remote server's, the remote gate and what it coupled close, which the    *)
(* remaining subscribers are told: being told can end more of them.         *)

Now == [conn |-> conn, park |-> park, remote |-> remote,
        automation |-> automation, button |-> button]

Become(s) ==
  /\ conn' = s.conn
  /\ park' = s.park
  /\ remote' = s.remote
  /\ automation' = s.automation
  /\ button' = s.button
  /\ ping' = (ping \/ \E c \in Conn : s.conn[c].wants /\ ~conn[c].wants)

\* cancel_waits_owned_by, cancel_drag_owned_by, cancel_picker_if_owned_by
UnparkedLate(s) ==
  LET gone == {c \in Conn : s.conn[c].sock # "client"}
  IN [s EXCEPT !.button = @ /\ ~\E c \in gone : s.park[c].kind = "drag"]

Unparked(s) ==
  LET gone == {c \in Conn : s.conn[c].sock # "client"}
  IN [s EXCEPT !.button = @ /\ ~\E c \in gone : s.park[c].kind = "drag",
               !.park = [c \in Conn |-> IF c \in gone THEN NoPark ELSE @[c]]]

\* set_automation: closing the gate releases what was injected.
GateSetOnly(s, on) == [s EXCEPT !.automation = on]
GateSet(s, on) ==
  [s EXCEPT !.automation = on, !.button = @ /\ on]

ServerLost(s) == s.remote.server # None /\ s.conn[s.remote.server].sock # "client"
ServerForgotten(s) == [s EXCEPT !.remote.server = None]
ServerTornDown(s) == IF s.remote.on THEN [GateSet(s, FALSE) EXCEPT !.remote = NoServer]
                     ELSE [s EXCEPT !.remote = NoServer]
\* RemoteChanged, and the coupled gates' events when they changed
TeardownNews(s) == IF s.remote.on /\ s.automation THEN 3 ELSE 1

\* s, once n events have gone to every subscriber and the connections that
\* this ended are dropped.
Settled(s, n) ==
  LET told == [s EXCEPT !.conn = Pushed(@, n)]
      down == [ServerTornDown(told) EXCEPT !.conn = Pushed(@, TeardownNews(told))]
  IN Unparked(IF ServerLost(told) THEN down ELSE told)

\* Answer the connections cs, whatever they were parked on, and drop them.
Resolved(s, cs) ==
  [s EXCEPT !.conn = [c \in Conn |-> IF c \in cs THEN Answered(@[c]) ELSE @[c]],
            !.park = [c \in Conn |-> IF c \in cs THEN NoPark ELSE @[c]]]

\* A one-shot request: reply, n events, drop.
ReplyTo(c, n) == Become(Settled(Resolved(Now, {c}), n))
Drop(c) == Become(Settled([Now EXCEPT !.conn[c] = Dropped(@)], 0))
----------------------------------------------------------------------------
(* Connections and their peers.                                             *)

Init ==
  /\ conn = [c \in Conn |-> [NewClient EXCEPT !.sock = "none"]]
  /\ park = [c \in Conn |-> NoPark]
  /\ win = [w \in Window |-> NoWindow]
  /\ remote = NoServer
  /\ ping = FALSE /\ xdisplay = FALSE /\ locked = FALSE
  /\ automation \in BOOLEAN
  /\ button = FALSE
  /\ env \in Env

world == <<win, xdisplay, locked, env>>

Accept(c) ==
  /\ conn[c].sock = "none"
  /\ conn' = [conn EXCEPT ![c] = NewClient]
  /\ UNCHANGED <<park, ping, remote, automation, button, world>>

\* The peer stops reading, reads on, or closes its end.
PeerTurns(c, peer) ==
  /\ conn[c].sock \in {"client", "linger"}
  /\ conn[c].peer # "gone" /\ conn[c].peer # peer
  /\ peer = "stalled" => "stall" \in env
  /\ peer = "gone" => "gone" \in env
  /\ conn' = [conn EXCEPT ![c].peer = peer]
  /\ UNCHANGED <<park, ping, remote, automation, button, world>>

\* handle_readable: end of file, or a second request on a spent connection.
Hangup(c) ==
  /\ Connected(c)
  /\ conn[c].peer = "gone" \/ (conn[c].spent /\ "garbage" \in env)
  /\ Drop(c)
  /\ UNCHANGED world

\* Not UTF-8, not a request, or too long: an error and a drop, even where a
\* request is parked or a stream has begun.
Garbage(c) ==
  /\ "garbage" \in env
  /\ Connected(c)
  /\ Become(Settled([Resolved(Now, {c}) EXCEPT !.park[c] = park[c]], 0))
  /\ UNCHANGED world

\* The ping's handler: a write-ready source for every queue that wants one,
\* lingering connections included (arm_ipc_flushers).
WakeConnected ==
  /\ ping
  /\ ping' = FALSE
  /\ conn' = [c \in Conn |->
       IF Connected(c) /\ conn[c].wants THEN [conn[c] EXCEPT !.flush = TRUE] ELSE conn[c]]
  /\ UNCHANGED <<park, remote, automation, button, world>>

Wake ==
  /\ ping
  /\ ping' = FALSE
  /\ conn' = [c \in Conn |->
       IF conn[c].sock \in {"client", "linger"} /\ conn[c].wants
         THEN [conn[c] EXCEPT !.flush = TRUE] ELSE conn[c]]
  /\ UNCHANGED <<park, remote, automation, button, world>>

\* flush_ipc_client: the socket takes the rest, or the write fails.
Flush(c) ==
  /\ conn[c].flush
  /\ conn[c].peer # "stalled"
  /\ LET drained == [conn[c] EXCEPT !.queue = 0, !.flush = FALSE,
                                    !.wants = @ /\ conn[c].peer = "gone"]
         closed == [drained EXCEPT !.sock = "closed", !.wants = FALSE]
     IN CASE conn[c].sock = "linger" -> Become([Now EXCEPT !.conn[c] = closed])
          [] conn[c].sock # "linger" /\ conn[c].peer = "gone" ->
               Become(Settled([Now EXCEPT !.conn[c] = Dropped(drained)], 0))
          [] OTHER -> Become([Now EXCEPT !.conn[c] = drained])
  /\ UNCHANGED world

\* check_ipc_linger finds no progress for LINGER_TIMEOUT. The loop does not
\* leave its ping or a ready socket waiting for that long.
LingerTimeoutArmed(c) ==
  /\ conn[c].sock = "linger"
  /\ conn[c].flush /\ conn[c].peer = "stalled"
  /\ conn' = [conn EXCEPT ![c].sock = "closed", ![c].flush = FALSE]
  /\ UNCHANGED <<park, ping, remote, automation, button, world>>

LingerTimeout(c) ==
  /\ conn[c].sock = "linger"
  /\ IF conn[c].flush THEN conn[c].peer = "stalled" ELSE ~(ping /\ conn[c].wants)
  /\ conn' = [conn EXCEPT ![c].sock = "closed", ![c].flush = FALSE]
  /\ UNCHANGED <<park, ping, remote, automation, button, world>>
----------------------------------------------------------------------------
(* Requests. A connection's first is the one that counts.                   *)

Asks(c) == Connected(c) /\ conn[c].role = "request" /\ ~conn[c].spent

\* The requests answered at once, whatever the answer: a query, a command to
\* the session, to a window, or injected input (an error if its gate is off).
\* What they do to the desktop, the subscribers are told in up to two events
\* (a bound): a gate, a workspace, a window's state, the focus.
OneShot(c, news) == Asks(c) /\ ReplyTo(c, news) /\ UNCHANGED world
Query(c) == OneShot(c, 0)
SessionRequest(c) == \E news \in 0..2 : OneShot(c, news)
WindowRequest(c) == \E news \in 0..2 : OneShot(c, news)
InputRequest(c) == \E news \in 0..2 : OneShot(c, news)

SetAutomation(c, on) ==
  /\ Asks(c)
  /\ Become(Settled(Resolved(GateSet(Now, on), {c}),
                    IF on # automation THEN 2 ELSE 0))
  /\ UNCHANGED world

\* event_stream, metrics_stream: a reply, then the connection stays open.
Subscribe(c, role) ==
  /\ Asks(c)
  /\ role \in {"events", "metrics"}
  /\ role = "metrics" => "metrics" \in env
  /\ IF conn[c].peer = "gone" THEN ReplyTo(c, 0)
     ELSE Become([Now EXCEPT !.conn[c] = [Replied(@) EXCEPT !.role = role]])
  /\ UNCHANGED world

\* The newest registration is the server; nobody tells the one before it.
RegisterRemoteServer(c) ==
  /\ "server" \in env
  /\ Asks(c)
  /\ Become(Settled([Now EXCEPT !.conn[c] = [Replied(@) EXCEPT !.role = "server"],
                                !.remote.server = c], 1))
  /\ UNCHANGED world

\* A machine joins the axis; what the axis does is MachineAxis's.
RegisterRemoteClient(c) ==
  /\ "captured" \in env
  /\ Asks(c)
  /\ Become([Now EXCEPT !.conn[c] = [Replied(@) EXCEPT !.role = "machine"]])
  /\ UNCHANGED world

SetRemote(c, on) ==
  /\ "server" \in env
  /\ Asks(c)
  /\ IF on /\ remote.server = None THEN ReplyTo(c, 0)
     ELSE LET set == [GateSet(Now, on) EXCEPT !.remote.on = on,
                                             !.remote.viewers = @ /\ on]
              news == (IF on # remote.on THEN 1 ELSE 0)
                      + (IF on # automation THEN 2 ELSE 0)
          IN Become(Settled(Resolved(set, {c}), news))
  /\ UNCHANGED world

ReportRemoteViewers(c, some) ==
  /\ "server" \in env
  /\ Asks(c)
  /\ Become(Settled(Resolved([Now EXCEPT !.remote.viewers = some], {c}),
                    IF some # remote.viewers THEN 1 ELSE 0))
  /\ UNCHANGED world

\* Hold the connection open, and spent, for the reply.
Hold(c, request) ==
  Become([Now EXCEPT !.conn[c].spent = TRUE, !.park[c] = request])

\* Of a toplevel x of win.
Matches(p, x) == x.listed /\ (p.title => x.titled)
\* ready_windows: its first buffer has been seen, and it is placed.
Ready(x) == x.sized /\ ~(x.centre /\ x.shown)

WaitWindow(c, title, unmap, timed) ==
  /\ "windows" \in env
  /\ Asks(c)
  /\ LET p == [NoPark EXCEPT !.kind = IF unmap THEN "unmap" ELSE "map",
                             !.title = title, !.timed = timed]
         matching == {w \in Window : Matches(p, win[w])}
         done == IF unmap THEN matching = {}
                 ELSE \E w \in matching : Ready(win[w])
     IN IF done THEN ReplyTo(c, 0)
        ELSE Hold(c, IF unmap THEN [p EXCEPT !.watch = matching] ELSE p)
  /\ UNCHANGED world

WaitReady(c, timed) ==
  /\ "windows" \in env
  /\ Asks(c)
  /\ IF xdisplay THEN ReplyTo(c, 0)
     ELSE Hold(c, [NoPark EXCEPT !.kind = "ready", !.timed = timed])
  /\ UNCHANGED world

\* get_pixel, hash_region
Probe(c) ==
  /\ "pick" \in env
  /\ Asks(c)
  /\ IF ~automation THEN ReplyTo(c, 0)
     ELSE Hold(c, [NoPark EXCEPT !.kind = "probe"])
  /\ UNCHANGED world

PickWindow(c) ==
  /\ "pick" \in env
  /\ Asks(c)
  /\ IF Picking \/ locked THEN ReplyTo(c, 0)
     ELSE Hold(c, [NoPark EXCEPT !.kind = "pick"])
  /\ UNCHANGED world

\* The press comes at once, the rest on a timer (start_drag).
StartDrag(c, target) ==
  /\ "drag" \in env
  /\ Asks(c)
  /\ target # None => win[target].listed
  /\ IF ~automation \/ Dragging \/ (target # None /\ locked) THEN ReplyTo(c, 0)
     ELSE Become([Now EXCEPT
            !.conn[c].spent = TRUE, !.button = TRUE,
            !.park[c] = [NoPark EXCEPT !.kind = "drag", !.target = target,
                                       !.underLock = locked, !.next = 1]])
  /\ UNCHANGED world
----------------------------------------------------------------------------
(* What answers a parked request.                                           *)

\* on_wait_window_timeout, on_wait_ready_timeout
WaitTimeout(c) ==
  /\ park[c].timed
  /\ Become(Unparked(Resolved(Now, {c})))
  /\ UNCHANGED world

\* resolve_map_waiters, for the windows ws
MapResolved(s, ws) ==
  Resolved(s, {c \in Conn : s.park[c].kind = "map"
                            /\ \E w \in Window : Matches(s.park[c], ws[w]) /\ Ready(ws[w])})

\* resolve_unmap_waiters, for window w, just closed
UnmapResolved(s, w) ==
  LET left == [s EXCEPT !.park = [c \in Conn |-> [s.park[c] EXCEPT !.watch = @ \ {w}]]]
  IN Resolved(left, {c \in Conn : left.park[c].kind = "unmap" /\ left.park[c].watch = {}})

\* A toplevel is listed from its creation, before any buffer or title.
WindowOpens(w) ==
  /\ {"windows", "drag"} \cap env # {}
  /\ ~win[w].listed
  /\ win' = [win EXCEPT ![w] = [NoWindow EXCEPT !.listed = TRUE, !.shown = TRUE,
                                               !.centre = TRUE]]
  /\ Become(Unparked(MapResolved(Settled(Now, 1), win')))
  /\ UNCHANGED <<xdisplay, locked, env>>

\* A commit: a toolkit sets a title before it draws a buffer. Only a window in
\* the space has its size read and its title told; the waits are looked at
\* either way.
Committed(x, titled, drawn) ==
  LET new == [x EXCEPT !.buffer = @ \/ drawn, !.titled = @ \/ titled]
  IN IF new.shown /\ new.buffer THEN [new EXCEPT !.sized = TRUE, !.centre = FALSE] ELSE new

WindowCommitsQuietly(w, titled, drawn) ==
  /\ win[w].listed
  /\ win' = [win EXCEPT ![w] = Committed(@, titled, drawn)]
  /\ Become(IF win[w].shown /\ titled /\ ~win[w].titled
             THEN Unparked(MapResolved(Settled(Now, 1), win')) ELSE Now)
  /\ UNCHANGED <<xdisplay, locked, env>>

WindowCommits(w, titled, drawn) ==
  /\ win[w].listed
  /\ win' = [win EXCEPT ![w] = Committed(@, titled, drawn)]
  /\ LET told == win[w].shown /\ titled /\ ~win[w].titled
     IN Become(Unparked(MapResolved(Settled(Now, IF told THEN 1 ELSE 0), win')))
  /\ UNCHANGED <<xdisplay, locked, env>>

\* It leaves the space, or returns: minimized, or a workspace switched.
WindowMoves(w) ==
  /\ "hide" \in env
  /\ win[w].listed
  /\ win' = [win EXCEPT ![w].shown = ~@]
  /\ UNCHANGED <<conn, park, ping, remote, automation, button, xdisplay, locked, env>>

\* set_window_name: a title of the WM's own, told to the subscribers.
SetWindowName(c, w) ==
  /\ win[w].listed
  /\ Asks(c)
  /\ win' = [win EXCEPT ![w].titled = TRUE]
  /\ Become(Unparked(Resolved(MapResolved(Settled(Now, 1), win'), {c})))
  /\ UNCHANGED <<xdisplay, locked, env>>

WindowCloses(w) ==
  /\ win[w].listed
  /\ win' = [win EXCEPT ![w] = NoWindow]
  /\ Become(Unparked(UnmapResolved(Settled(Now, 1), w)))
  /\ UNCHANGED <<xdisplay, locked, env>>

\* XWaylandEvent::Ready, and the WM losing Xwayland.
XwaylandReady ==
  /\ "windows" \in env
  /\ ~xdisplay
  /\ xdisplay' = TRUE
  /\ Become(Unparked(Resolved(Now, {c \in Conn : park[c].kind = "ready"})))
  /\ UNCHANGED <<win, locked, env>>

XwaylandDies ==
  /\ xdisplay
  /\ xdisplay' = FALSE
  /\ UNCHANGED <<conn, park, ping, remote, automation, button, win, locked, env>>

\* process_pending_probes, with the gate not looked at again
Render ==
  /\ \E c \in Conn : park[c].kind = "probe"
  /\ Become(Unparked(Resolved(Now, {c \in Conn : park[c].kind = "probe"})))
  /\ UNCHANGED world

\* A click or Escape (finish_picker).
PickerFinishes(c) ==
  /\ park[c].kind = "pick"
  /\ Become(Unparked(Resolved(Now, {c})))
  /\ UNCHANGED world

\* lock: a picker ends first.
LockSession ==
  /\ {"pick", "drag"} \cap env # {}
  /\ ~locked
  /\ locked' = TRUE
  /\ Become(Unparked(Resolved(Now, {c \in Conn : park[c].kind = "pick"})))
  /\ UNCHANGED <<win, xdisplay, env>>

UnlockSession ==
  /\ locked
  /\ locked' = FALSE
  /\ UNCHANGED <<conn, park, ping, remote, automation, button, win, xdisplay, env>>

\* drag_tick. A closed gate has already released the button.
DragStops(c) ==
  \/ ~automation
  \/ locked /\ ~park[c].underLock
  \/ park[c].target # None /\ ~win[park[c].target].listed

DragMoves(c) ==
  /\ park[c].kind = "drag" /\ ~DragStops(c)
  /\ park[c].next <= Steps
  /\ Become([Now EXCEPT !.park[c].next = @ + 1])
  /\ UNCHANGED world

DragFails(c) ==
  /\ park[c].kind = "drag" /\ DragStops(c)
  /\ Become(Unparked(Resolved([Now EXCEPT !.button = @ /\ ~automation], {c})))
  /\ UNCHANGED world

DragDrops(c) ==
  /\ park[c].kind = "drag" /\ ~DragStops(c)
  /\ park[c].next > Steps
  /\ Become(Unparked(Resolved([Now EXCEPT !.button = FALSE], {c})))
  /\ UNCHANGED world

\* push_metrics_to_subscribers, for one whose interval has passed
Sampled(c) ==
  /\ Connected(c) /\ conn[c].role = "metrics"
  /\ Become([Now EXCEPT !.conn[c] = Subscribed(@, 1)])
  /\ UNCHANGED world

\* push_event_to: one line to one connection, without the subscriber's bound;
\* a failed write is only logged. The bound here is the model's.
CapturedInput(c) ==
  /\ Connected(c) /\ conn[c].role = "machine"
  /\ conn[c].queue <= Backlog
  /\ Become([Now EXCEPT !.conn[c] = Sent(@, 1)])
  /\ UNCHANGED world
----------------------------------------------------------------------------
Loop == Wake \/ \E c \in Conn : Flush(c) \/ LingerTimeout(c)

Peers ==
  \E c \in Conn :
    \/ Accept(c)
    \/ \E peer \in {"reading", "stalled", "gone"} : PeerTurns(c, peer)
    \/ Hangup(c)
    \/ Garbage(c)

Requests ==
  \E c \in Conn :
    \/ Query(c) \/ SessionRequest(c) \/ WindowRequest(c) \/ InputRequest(c)
    \/ \E on \in BOOLEAN :
         SetAutomation(c, on) \/ SetRemote(c, on) \/ ReportRemoteViewers(c, on)
    \/ \E role \in Roles : Subscribe(c, role)
    \/ RegisterRemoteServer(c)
    \/ RegisterRemoteClient(c)
    \/ \E title, unmap, timed \in BOOLEAN : WaitWindow(c, title, unmap, timed)
    \/ \E timed \in BOOLEAN : WaitReady(c, timed)
    \/ Probe(c)
    \/ PickWindow(c)
    \/ \E target \in Window \cup {None} : StartDrag(c, target)
    \/ \E w \in Window : SetWindowName(c, w)

Answers ==
  \/ \E w \in Window :
       \/ WindowOpens(w)
       \/ \E titled, drawn \in BOOLEAN : WindowCommits(w, titled, drawn)
       \/ WindowMoves(w)
       \/ WindowCloses(w)
  \/ XwaylandReady \/ XwaylandDies
  \/ LockSession \/ UnlockSession
  \/ Render
  \/ \E c \in Conn :
       \/ WaitTimeout(c)
       \/ PickerFinishes(c)
       \/ DragMoves(c) \/ DragFails(c) \/ DragDrops(c)
       \/ Sampled(c)
       \/ CapturedInput(c)

Next == Loop \/ Peers \/ Requests \/ Answers

\* The loop runs a source that is ready, the ping's and the linger timers
\* included. A socket with room keeps it until the WM writes (SF). Nothing is
\* assumed of the peers, the session or the requests' timers.
Fairness ==
  /\ WF_vars(Wake)
  /\ \A c \in Conn : SF_vars(Flush(c))
  /\ \A c \in Conn : WF_vars(LingerTimeout(c))

Spec == Init /\ [][Next]_vars /\ Fairness
----------------------------------------------------------------------------
(* Properties.                                                              *)

\* A one-shot request is answered once: whichever of its event, its timer,
\* its connection's end or a second line comes first takes the request out
\* of its list, so none of the others finds it. And a connection kept open
\* for a reply is always in some list, so something can still answer it.
AnsweredOnce ==
  \A c \in Conn :
    /\ conn[c].role = "request" => conn[c].replies <= 1
    /\ Parked(c) => Connected(c) /\ conn[c].replies = 0
    /\ Connected(c) /\ conn[c].role = "request" /\ conn[c].spent => Parked(c)

\* A map wait is answered as soon as a window it can resolve with exists: it
\* is never left parked while a ready window matches (ready_windows,
\* resolve_map_waiters).
NoMissedWindow ==
  \A c \in Conn, w \in Window :
    ~(park[c].kind = "map" /\ Matches(park[c], win[w]) /\ Ready(win[w]))

\* However a drag ends, its button is not left down (drag.rs, "releasing the
\* button, if its connection closes, the automation gate closes, ...").
DragReleases == button => Dragging /\ automation

\* Screen sharing needs a live server: whatever ends its connection, be it a
\* broadcast it was too slow for, closes the remote gate in the same step.
GateNeedsServer == remote.on => remote.server # None /\ Connected(remote.server)

\* A reply that has been queued is sent: a dropped connection that owes its
\* peer bytes is only closed when the peer has read them, or does not read.
ReplyNotCut ==
  [][\A c \in Conn :
       conn[c].sock = "linger" /\ conn'[c].sock = "closed" /\ conn[c].queue > 0
         => conn'[c].queue = 0 \/ conn[c].peer # "reading"]_vars

\* ... and it does not linger for ever.
LingerEnds == \A c \in Conn : conn[c].sock = "linger" ~> conn[c].sock = "closed"
=============================================================================
