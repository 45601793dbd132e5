------------------------------ MODULE RemoteShare ------------------------------
(****************************************************************************)
(* Sharing the desktop: the WM's consent gates, lease and injected input    *)
(* (state.rs, remote_lease.rs, ipc.rs, inject.rs), and the remote server    *)
(* that admits viewers (shoestring-remote-server: main.rs, session.rs,      *)
(* holds.rs, viewers.rs). They are two processes. The server's threads are  *)
(* the event reader, the supervisor and two per session; the WM sees them   *)
(* as separate connections.                                                 *)
(*                                                                          *)
(* A request to the WM is synchronous, and the server sends the ones that   *)
(* report a count or a key while it holds the mutex of that count. So one   *)
(* action takes the count and the WM's handling of the request together:    *)
(* nobody can look at the count in between.                                 *)
(*                                                                          *)
(* A generation is only ever compared with the current one, so a session    *)
(* records whether its generation still is (holding, counted).              *)
(*                                                                          *)
(* Abstractions: what frames, the clipboard and pointer motion carry, time  *)
(* (a timer with a deadline may fire at any moment), protocol versions, and *)
(* a second server registering over the first.                              *)
(****************************************************************************)
EXTENDS Naturals, FiniteSets, Sequences, SeatHeld

CONSTANTS
  Session,    \* the server's session slots (SessionSlot, MAX_SESSIONS of them)
  Env,        \* which parts of the environment act, a subset of EnvParts
  MaxNotices  \* bound: the gate reopens with fewer notices than this unread

EnvParts == {"quick", "decoupled", "accept_fails", "lease", "arm_fails",
             "crash"}

ASSUME EnvAssumption == Env \subseteq EnvParts
ASSUME BoundAssumption == MaxNotices \in Nat
ASSUME SessionsAssumption == IsFiniteSet(Session) /\ Device \cap Session = {}

VARIABLES
  \* the WM
  gate,        \* the remote, automation and screen capture gates
  lease,       \* Lease: its limits, and whether its idle clock runs
  shown,       \* remote_viewers, what the bar's chip shows
  registered,  \* remote_server is set
  \* between the two
  notices,     \* RemoteChanged events the server has not read
  \* the server
  enabled,     \* GateInner.enabled
  sup,         \* where the supervisor is
  viewers,     \* Viewers.viewers
  counts,      \* Holds: how many sessions hold each code
  sess         \* the sessions

wm == <<gate, lease, shown, registered, notices>>
server == <<enabled, sup, viewers, counts>>
vars == <<seat, wm, server, sess>>

Gates == [remote : BOOLEAN, automation : BOOLEAN, capture : BOOLEAN]
Leases == [limit : BOOLEAN, idle : BOOLEAN, clock : BOOLEAN]
NoLease == [limit |-> FALSE, idle |-> FALSE, clock |-> FALSE]

SessionState ==
  [pc : {"none", "handshake", "captured", "added", "joined", "input",
         "stopping", "leaving"},
   capture : BOOLEAN, frames : BOOLEAN, stalled : BOOLEAN, stopped : BOOLEAN,
   holding : BOOLEAN, counted : BOOLEAN, held : SUBSET Code]

NoSession ==
  [pc       |-> "none",
   capture  |-> FALSE,  \* the WM still streams to it
   frames   |-> FALSE,  \* its frames thread runs
   stalled  |-> FALSE,  \* its viewer has stopped reading
   stopped  |-> FALSE,  \* Teardown.done
   holding  |-> FALSE,  \* its holds are of the current generation
   counted  |-> FALSE,  \* its viewer guard is of the current generation
   held     |-> {}]     \* SessionHolds.held

At(s, pc) == sess[s].pc = pc
Alive(s) == sess[s].pc # "none"
Goto(s, pc) == [sess EXCEPT ![s].pc = pc]

HasLease == lease.limit \/ lease.idle
\* Lease::deadline
HasDeadline(l) == l.limit \/ (l.idle /\ l.clock)

----------------------------------------------------------------------------
Init ==
  /\ SeatInit
  /\ gate = [remote |-> FALSE, automation |-> FALSE, capture |-> FALSE]
  /\ lease = NoLease
  /\ shown = 0
  /\ registered = FALSE
  /\ notices = <<>>
  /\ enabled = FALSE
  /\ sup = "down"
  /\ viewers = 0
  /\ counts = [c \in Code |-> 0]
  /\ sess = [s \in Session |-> NoSession]

(***************************************************************************)
(* The WM's gates.                                                         *)
(***************************************************************************)
\* emit_remote_changed. Only what the server does not already know (or is
\* about to read) can make a difference to it.
Announce(remote) ==
  notices' = IF sup # "down" /\ (<<enabled>> \o notices)[Len(notices) + 1] # remote
             THEN Append(notices, remote) ELSE notices

\* set_screen_capture: closing the gate ends every capture stream.
EndCaptures(f) == [s \in Session |-> [f[s] EXCEPT !.capture = FALSE]]

\* set_automation, with the capture gate it couples.
AutomationKeepsInput(on) ==
  /\ UNCHANGED seat
  /\ sess' = IF ~on /\ gate.capture THEN EndCaptures(sess) ELSE sess

Automation(on) ==
  /\ IF on THEN UNCHANGED seat ELSE ReleaseInjected(Code)
  /\ sess' = IF ~on /\ gate.capture THEN EndCaptures(sess) ELSE sess

\* set_remote
Remote(on, newLease) ==
  /\ gate' = [remote |-> on, automation |-> on, capture |-> on]
  /\ lease' = newLease
  /\ shown' = IF on THEN shown ELSE 0
  /\ Automation(on)

TurnOff == Remote(FALSE, NoLease)

SetAutomation(on) ==
  /\ "decoupled" \in Env
  /\ gate' = [gate EXCEPT !.automation = on, !.capture = on]
  /\ Automation(on)
  /\ UNCHANGED <<lease, shown, registered, notices, server>>

SetScreenCapture(on) ==
  /\ "decoupled" \in Env
  /\ gate' = [gate EXCEPT !.capture = on]
  /\ sess' = IF on THEN sess ELSE EndCaptures(sess)
  /\ UNCHANGED <<seat, lease, shown, registered, notices, server>>

\* Whether the server has caught up with the gate being off. Without "quick"
\* the user reopens the gate only then.
Settled ==
  /\ notices = <<>> /\ ~enabled /\ sup = "waiting"
  /\ \A s \in Session : ~Alive(s)

\* Turning the gate on needs a server. A lease whose timer cannot be armed
\* turns it off again.
SetRemoteOn(limit, idle, armed) ==
  LET clock == shown = 0
      new == IF limit \/ idle
             THEN [limit |-> limit, idle |-> idle, clock |-> clock] ELSE NoLease
  IN  /\ registered
      /\ gate.remote \/ "quick" \in Env \/ Settled
      /\ limit \/ idle => "lease" \in Env
      /\ Len(notices) < MaxNotices
      /\ armed \/ (HasDeadline(new) /\ "arm_fails" \in Env)
      /\ IF armed THEN Remote(TRUE, new) ELSE TurnOff
      /\ Announce(gate'.remote)
      /\ UNCHANGED <<registered, server>>

SetRemoteOff ==
  /\ TurnOff
  /\ Announce(FALSE)
  /\ UNCHANGED <<registered, server>>

\* remote_lease_tick, at the deadline.
LeaseEnds ==
  /\ HasDeadline(lease)
  /\ TurnOff
  /\ Announce(FALSE)
  /\ UNCHANGED <<registered, server>>

\* Lease::viewers_changed: the idle clock runs while nobody is connected.
ViewersChangedStops(n) == [lease EXCEPT !.clock = @ /\ n = 0]
ViewersChanged(n) == [lease EXCEPT !.clock = HasLease /\ n = 0]

(***************************************************************************)
(* ReportRemoteViewers: the WM follows the count with the idle clock. If   *)
(* the clock's timer cannot be armed the gate goes off instead.            *)
(***************************************************************************)
Report(n, armed, f) ==
  LET ticking == ViewersChanged(n)
  IN  \/ /\ armed
         /\ shown' = n
         /\ lease' = IF n # shown THEN ticking ELSE lease
         /\ sess' = f
         /\ UNCHANGED <<gate, notices, seat>>
      \/ /\ ~armed /\ "arm_fails" \in Env
         /\ n # shown /\ HasDeadline(ticking)
         /\ gate' = [remote |-> FALSE, automation |-> FALSE, capture |-> FALSE]
         /\ lease' = NoLease
         /\ shown' = 0
         /\ ReleaseInjected(Code)
         /\ sess' = IF gate.capture THEN EndCaptures(f) ELSE f
         /\ Announce(FALSE)

(***************************************************************************)
(* Sessions.                                                               *)
(***************************************************************************)
\* The supervisor accepts a connection.
Accept(s) ==
  /\ sup = "listening"
  /\ At(s, "none")
  /\ sess' = Goto(s, "handshake")
  /\ UNCHANGED <<seat, wm, server>>

\* The first message is refused, malformed, or late (HANDSHAKE_TIMEOUT).
HandshakeFails(s) ==
  /\ At(s, "handshake")
  /\ sess' = [sess EXCEPT ![s] = NoSession]
  /\ UNCHANGED <<seat, wm, server>>

\* The WM opens the capture stream if its capture gate is open.
OpenCapture(s) ==
  /\ At(s, "handshake")
  /\ sess' = IF gate.capture
             THEN [sess EXCEPT ![s].pc = "captured", ![s].capture = TRUE]
             ELSE [sess EXCEPT ![s] = NoSession]
  /\ UNCHANGED <<seat, wm, server>>

\* Sessions::add
AddSession(s) ==
  /\ At(s, "captured")
  /\ sess' = Goto(s, "added")
  /\ UNCHANGED <<seat, wm, server>>

\* Viewers::join
Join(s, armed) ==
  /\ At(s, "added")
  /\ viewers' = viewers + 1
  /\ Report(viewers + 1, armed,
            [sess EXCEPT ![s].pc = "joined", ![s].counted = TRUE])
  /\ UNCHANGED <<registered, enabled, sup, counts>>

\* The frames thread starts, and the input loop with its holds.
Begin(s) ==
  /\ At(s, "joined")
  /\ sess' = [sess EXCEPT ![s].pc = "input", ![s].frames = TRUE,
                          ![s].holding = TRUE]
  /\ UNCHANGED <<seat, wm, server>>

\* No frames thread: the guards unwind.
BeginFails(s) ==
  /\ At(s, "joined")
  /\ sess' = Goto(s, "leaving")
  /\ UNCHANGED <<seat, wm, server>>

\* Holds::transition_then: the first press and the last release of a code go
\* to the WM, whose refusal ends the input loop.
KeyUncounted(s, c, pressed) ==
  LET mine == sess[s]
      moved == [sess EXCEPT ![s].held = IF pressed THEN @ \cup {c} ELSE @ \ {c}]
  IN  /\ mine.pc = "input" /\ mine.holding
      /\ pressed # (c \in mine.held)
      /\ counts' = [counts EXCEPT ![c] = IF pressed THEN @ + 1 ELSE @ - 1]
      /\ IF gate.automation
         THEN sess' = moved /\ InjectedNote(c, pressed)
         ELSE sess' = [moved EXCEPT ![s].pc = "stopping"] /\ UNCHANGED seat
      /\ UNCHANGED <<wm, enabled, sup, viewers>>

Key(s, c, pressed) ==
  LET mine == sess[s]
      moved == [sess EXCEPT ![s].held = IF pressed THEN @ \cup {c} ELSE @ \ {c}]
      deliver == IF pressed THEN counts[c] = 0 ELSE counts[c] = 1
  IN  /\ mine.pc = "input" /\ mine.holding
      /\ pressed # (c \in mine.held)
      /\ counts' = [counts EXCEPT ![c] = IF pressed THEN @ + 1 ELSE @ - 1]
      /\ IF ~deliver
         THEN sess' = moved /\ UNCHANGED seat
         ELSE IF gate.automation
              THEN sess' = moved /\ InjectedNote(c, pressed)
              ELSE /\ sess' = [moved EXCEPT ![s].pc = "stopping"]
                   /\ UNCHANGED seat
      /\ UNCHANGED <<wm, enabled, sup, viewers>>

\* Pointer motion is injected uncounted: it matters here when it is refused.
Motion(s) ==
  /\ At(s, "input") /\ ~gate.automation
  /\ sess' = Goto(s, "stopping")
  /\ UNCHANGED <<seat, wm, server>>

\* The viewer says Bye or its connection drops.
ViewerLeaves(s) ==
  /\ At(s, "input")
  /\ sess' = Goto(s, "stopping")
  /\ UNCHANGED <<seat, wm, server>>

\* The sockets were shut down: the input loop reads the end.
InputEnds(s) ==
  /\ At(s, "input") /\ sess[s].stopped
  /\ sess' = Goto(s, "stopping")
  /\ UNCHANGED <<seat, wm, server>>

\* The viewer stops reading, and starts again. It may do so at any time, the
\* stream closed or not (frames of it are still to be written); it makes a
\* difference to a running frames thread.
Stall(s) ==
  /\ sess[s].frames /\ ~sess[s].stopped
  /\ sess' = [sess EXCEPT ![s].stalled = ~@]
  /\ UNCHANGED <<seat, wm, server>>

\* The WM drops the stream: its output or window has gone, or it lags.
CaptureEnds(s) ==
  /\ sess[s].capture
  /\ sess' = [sess EXCEPT ![s].capture = FALSE]
  /\ UNCHANGED <<seat, wm, server>>

\* The frames thread reads the end of the stream, unless it is blocked writing
\* to a viewer that does not read, or finds the sockets shut down.
FramesEnd(s) ==
  /\ sess[s].frames
  /\ sess[s].stopped \/ ~(sess[s].capture \/ sess[s].stalled)
  /\ sess' = [sess EXCEPT ![s].frames = FALSE, ![s].stopped = TRUE]
  /\ UNCHANGED <<seat, wm, server>>

\* Teardown::stop, then Holds::end_then: what nobody else holds is released.
EndHoldsAnyGeneration(s) ==
  LET mine == sess[s]
      last == {c \in mine.held : counts[c] = 1}
  IN  /\ mine.pc = "stopping"
      /\ sess' = [sess EXCEPT ![s] = [@ EXCEPT !.pc = "leaving",
                                               !.stopped = TRUE, !.held = {}]]
      /\ counts' = [c \in Code |->
                      IF c \in mine.held THEN counts[c] - 1 ELSE counts[c]]
      /\ IF gate.automation THEN ReleaseInjected(last) ELSE UNCHANGED seat
      /\ UNCHANGED <<wm, enabled, sup, viewers>>

EndHolds(s) ==
  LET mine == sess[s]
      last == {c \in mine.held : mine.holding /\ counts[c] = 1}
  IN  /\ mine.pc = "stopping"
      /\ sess' = [sess EXCEPT ![s] = [@ EXCEPT !.pc = "leaving",
                                               !.stopped = TRUE, !.held = {}]]
      /\ counts' = [c \in Code |->
                      IF mine.holding /\ c \in mine.held THEN counts[c] - 1
                      ELSE counts[c]]
      /\ IF gate.automation THEN ReleaseInjected(last) ELSE UNCHANGED seat
      /\ UNCHANGED <<wm, enabled, sup, viewers>>

\* The frames thread is joined and the viewer guard drops (Viewers::leave).
Leave(s, armed) ==
  LET gone == [sess EXCEPT ![s] = NoSession]
  IN  /\ At(s, "leaving") /\ ~sess[s].frames
      /\ IF sess[s].counted
         THEN /\ viewers' = viewers - 1
              /\ Report(viewers - 1, armed, gone)
         ELSE /\ armed
              /\ sess' = gone
              /\ UNCHANGED <<viewers, gate, lease, shown, notices, seat>>
      /\ UNCHANGED <<registered, enabled, sup, counts>>

(***************************************************************************)
(* The event reader and the supervisor.                                    *)
(***************************************************************************)
ReadNotice ==
  /\ sup \notin {"down", "crashed"}
  /\ notices # <<>>
  /\ enabled' = Head(notices)
  /\ notices' = Tail(notices)
  /\ UNCHANGED <<seat, gate, lease, shown, registered, sup, viewers, counts,
                 sess>>

Supervise(from, to) ==
  /\ sup = from
  /\ sup' = to
  /\ UNCHANGED enabled

Bind ==
  /\ Supervise("waiting", "listening")
  /\ enabled
  /\ UNCHANGED <<seat, wm, viewers, counts, sess>>

\* The listener is closed; then the gate is looked at again.
CloseListener ==
  /\ Supervise("listening", "closed")
  /\ ~enabled \/ "accept_fails" \in Env
  /\ UNCHANGED <<seat, wm, viewers, counts, sess>>

SeeGate ==
  /\ Supervise("closed", IF enabled THEN "waiting" ELSE "resetting")
  /\ UNCHANGED <<seat, wm, viewers, counts, sess>>

\* Viewers::reset
ResetViewersKept(armed) ==
  /\ Supervise("resetting", "rehold")
  /\ Report(0, armed, [s \in Session |-> [sess[s] EXCEPT !.counted = FALSE]])
  /\ UNCHANGED <<registered, counts, viewers>>

ResetViewers(armed) ==
  /\ Supervise("resetting", "rehold")
  /\ viewers' = 0
  /\ Report(0, armed, [s \in Session |-> [sess[s] EXCEPT !.counted = FALSE]])
  /\ UNCHANGED <<registered, counts>>

\* Holds::reset
ResetHoldsSameGeneration ==
  /\ Supervise("rehold", "ending")
  /\ counts' = [c \in Code |-> 0]
  /\ UNCHANGED <<seat, wm, viewers, sess>>

ResetHolds ==
  /\ Supervise("rehold", "ending")
  /\ counts' = [c \in Code |-> 0]
  /\ sess' = [s \in Session |-> [sess[s] EXCEPT !.holding = FALSE]]
  /\ UNCHANGED <<seat, wm, viewers>>

\* Sessions::end_all, when its grace is over or nobody is left. It finds only
\* the sessions that were added.
Listed(s) == sess[s].pc \in {"added", "joined", "input", "stopping", "leaving"}

EndAllWaits ==
  /\ Supervise("ending", "waiting")
  /\ UNCHANGED <<seat, wm, viewers, counts, sess>>

EndAll ==
  /\ Supervise("ending", "waiting")
  /\ sess' = [s \in Session |->
                IF Listed(s) THEN [sess[s] EXCEPT !.stopped = TRUE] ELSE sess[s]]
  /\ UNCHANGED <<seat, wm, viewers, counts>>

(***************************************************************************)
(* The server starts, dies, and the WM notices.                            *)
(***************************************************************************)
\* RegisterRemoteServer; the server starts from the reply.
Register ==
  /\ sup = "down"
  /\ sup' = "waiting"
  /\ registered' = TRUE
  /\ enabled' = gate.remote
  /\ notices' = <<>>
  /\ UNCHANGED <<seat, gate, lease, shown, viewers, counts, sess>>

\* What it held and showed stays until the WM sees its connections end.
Crash ==
  /\ "crash" \in Env
  /\ sup \notin {"down", "crashed"}
  /\ sup' = "crashed"
  /\ UNCHANGED <<seat, wm, enabled, viewers, counts, sess>>

\* drop_ipc_client for the registration connection, and the others.
DropServer ==
  /\ sup = "crashed"
  /\ sup' = "down"
  /\ registered' = FALSE
  /\ notices' = <<>>
  /\ enabled' = FALSE
  /\ viewers' = 0
  /\ counts' = [c \in Code |-> 0]
  /\ sess' = [s \in Session |-> NoSession]
  /\ shown' = 0
  /\ IF gate.remote
     THEN /\ gate' = [remote |-> FALSE, automation |-> FALSE, capture |-> FALSE]
          /\ lease' = NoLease
          /\ ReleaseInjected(Code)
     ELSE UNCHANGED <<gate, lease, seat>>

----------------------------------------------------------------------------
LocalInput == PhysicalStep /\ UNCHANGED <<wm, server, sess>>

UserStep ==
  \/ \E on \in BOOLEAN : SetAutomation(on) \/ SetScreenCapture(on)
  \/ \E limit, idle, armed \in BOOLEAN : SetRemoteOn(limit, idle, armed)
  \/ SetRemoteOff

\* What a session's threads do by themselves.
SessionStep(s) ==
  \/ OpenCapture(s) \/ HandshakeFails(s) \/ AddSession(s) \/ Begin(s)
  \/ InputEnds(s) \/ FramesEnd(s) \/ EndHolds(s)
  \/ \E armed \in BOOLEAN : Join(s, armed) \/ Leave(s, armed)

ViewerStep(s) ==
  \/ Accept(s) \/ BeginFails(s)
  \/ \E c \in Code, pressed \in BOOLEAN : Key(s, c, pressed)
  \/ Motion(s) \/ ViewerLeaves(s) \/ Stall(s) \/ CaptureEnds(s)

SupervisorStep ==
  \/ ReadNotice \/ Bind \/ CloseListener \/ SeeGate
  \/ \E armed \in BOOLEAN : ResetViewers(armed)
  \/ ResetHolds \/ EndAll

Next ==
  \/ LocalInput \/ UserStep \/ LeaseEnds
  \/ Register \/ Crash \/ DropServer
  \/ sup # "crashed" /\ SupervisorStep
  \/ sup # "crashed" /\ \E s \in Session : SessionStep(s) \/ ViewerStep(s)

Spec == Init /\ [][Next]_vars

(***************************************************************************)
(* Fairness. The server's threads and the WM's event loop run, the wait    *)
(* for a first message and the grace end, the kernel closes the sockets of *)
(* a dead server, and a lease nobody renews reaches its deadline. Nothing  *)
(* is asked of users, viewers or devices.                                  *)
(***************************************************************************)
Running(A) == sup # "crashed" /\ A

Fairness ==
  /\ WF_vars(Running(ReadNotice))
  /\ WF_vars(Running(Bind))
  /\ WF_vars(Running(~enabled /\ CloseListener))
  /\ WF_vars(Running(SeeGate))
  /\ WF_vars(Running(ResetViewers(TRUE)))
  /\ WF_vars(Running(ResetHolds))
  /\ WF_vars(Running(EndAll))
  /\ \A s \in Session : WF_vars(Running(SessionStep(s)))
  /\ WF_vars(DropServer)
  /\ WF_vars(LeaseEnds)

FairSpec == Spec /\ Fairness

----------------------------------------------------------------------------
(***************************************************************************)
(* Properties.                                                             *)
(***************************************************************************)
Viewing(s) == sess[s].pc \in {"joined", "input", "stopping", "leaving"}

TypeOK ==
  /\ SeatTypeOK
  /\ gate \in Gates
  /\ lease \in Leases
  /\ shown \in Nat /\ viewers \in Nat
  /\ registered \in BOOLEAN /\ enabled \in BOOLEAN
  /\ notices \in Seq(BOOLEAN)
  /\ sup \in {"down", "waiting", "listening", "closed", "resetting", "rehold",
              "ending", "crashed"}
  /\ counts \in [Code -> Nat]
  /\ sess \in [Session -> SessionState]

\* Consent is never outlived: with the automation gate closed nothing that was
\* injected is still held, and with the capture gate closed nobody is streamed
\* to, whichever of the ways closed it.
NothingWithoutConsent ==
  /\ ~gate.automation => injected = {}
  /\ ~gate.capture => \A s \in Session : ~sess[s].capture

Holders(c) == {s \in Session : sess[s].holding /\ c \in sess[s].held}

\* The shared counts agree with the sessions: as many sessions of the current
\* generation hold a code as are counted, through ends and resets.
CountsExact == \A c \in Code : counts[c] = Cardinality(Holders(c))

\* While sharing is on, the bar shows as many viewers as are connected.
ViewerCountHonest ==
  gate.remote => shown = Cardinality({s \in Session : Viewing(s)})

\* The viewers behind the server share the seat as if each were a source of
\* its own: the two layers of counting add up to one.
Sharing == INSTANCE SharedSeat WITH
  Source <- Device \cup Session,
  held <- [x \in Device \cup Session |->
             IF x \in Device THEN physical[x]
             ELSE IF gate.automation /\ sess[x].holding THEN sess[x].held
             ELSE {}]
ViewersShareSeat == Sharing!Spec

\* Withdrawn consent ends sessions (session.rs, Sessions): those the supervisor
\* can find before it has ended them, whatever their viewers do, and, if sharing
\* stays off, every other one whose viewer keeps reading. A session whose
\* handshake is still under way is not found; if its viewer then does not read,
\* nothing ends it.
ConsentEndsSessions ==
  \A s \in Session :
    /\ (~gate.remote /\ sup # "waiting" /\ Listed(s))
         ~> (~Alive(s) \/ gate.remote)
    /\ (<>[]~gate.remote /\ <>[]~sess[s].stalled) => <>[]~Alive(s)

\* Sharing with an idle limit does not stay on with nobody connected.
IdleLeaseEnds ==
  ~<>[](gate.remote /\ lease.idle /\ \A s \in Session : ~Alive(s))
=============================================================================
