-------------------------------- MODULE Capture --------------------------------
(****************************************************************************)
(* Capturing the screen: streams of an output (capture_stream.rs), streams  *)
(* of one window (window_capture.rs) and one-shot copies (screencopy.rs,    *)
(* ext_screencopy.rs), all served by the render tick of the headless        *)
(* backend. The nested backend serves all but the output's streams, and     *)
(* only its output is ever resized. What a client is sent depends on what   *)
(* changed since it was last served, and in between the scene changes, the  *)
(* session locks, the lock screen is previewed, consent is withdrawn and    *)
(* readers stall.                                                           *)
(*                                                                          *)
(* There is one output and one grafted window. A damage tracker is the set  *)
(* of regions that changed since it last looked; it may report more than    *)
(* changed, and the model's reports exactly that. Rendering and reading     *)
(* back do not fail here. A copying client has one frame at a time, of the  *)
(* whole output.                                                            *)
(****************************************************************************)
EXTENDS Naturals

CONSTANTS
  Stream,  \* connections that stream the output
  Graft,   \* connections that stream the window
  Copier,  \* clients of the copy protocols
  Region,  \* the regions of the output
  Paint,   \* what can be drawn
  Mode,    \* the output's sizes
  Env,     \* environments: sets of "lock", "gate", "mode", "stall", "stream",
           \* "graft", "copy"
  None

\* The backend that streams its output never resizes it.
ASSUME EnvAssumption == \A e \in Env : ~({"mode", "stream"} \subseteq e)
ASSUME NoneAssumption == None \notin Paint \cup Mode

VARIABLES
  desk,     \* what the desktop shows in each region
  face,     \* what the lock screen shows
  win,      \* what the grafted window shows; None once it is closed
  mode,     \* the output's current mode
  locked,   \* is_locked
  preview,  \* lock_preview_active
  gate,     \* screen_capture_enabled
  due,      \* the output's damage tracker
  stream,   \* each CaptureSub
  graft,    \* each WindowCaptureSub
  copier,   \* each client's frame and damage tracker
  env

vars == <<desk, face, win, mode, locked, preview, gate, due, stream, graft, copier, env>>

Draws == {"desk", "lock", "fill", "none"} \X (Paint \cup {None})
Picture == [Region -> Draws]
Drawn(what, p) == [r \in Region |-> <<what, p>>]
Blank == Drawn("none", None)
Filled == Drawn("fill", None)   \* LOCKED_FILL

\* What compose_scene puts on the output.
Screen == IF locked THEN Drawn("lock", face) ELSE [r \in Region |-> <<"desk", desk[r]>>]
\* Streams of the output get the static frame.
Static == locked /\ ~preview

Streams ==
  [open : BOOLEAN, stalled : BOOLEAN,
   draining : BOOLEAN,    \* a frame is still in the connection's queue
   ready : BOOLEAN,       \* sent_ready
   last : Mode \cup {None},  \* last_size
   resync : BOOLEAN, lockedSent : BOOLEAN,
   said : Picture]        \* what its frames, delivered, add up to
Grafts ==
  [open : BOOLEAN, stalled : BOOLEAN, draining : BOOLEAN, ready : BOOLEAN,
   dirty : BOOLEAN,
   due : BOOLEAN,         \* its damage tracker
   said : Paint \cup {None}]
Copiers ==
  [frame : {"none", "copy", "damage"},
   due : SUBSET Region,   \* its tracker; all of it where there is none yet
   got : Picture]         \* its picture: what it was told changed is copied

NewStream == [open |-> FALSE, stalled |-> FALSE, draining |-> FALSE, ready |-> FALSE,
              last |-> None, resync |-> FALSE, lockedSent |-> FALSE, said |-> Blank]
NewGraft == [open |-> FALSE, stalled |-> FALSE, draining |-> FALSE, ready |-> FALSE,
             dirty |-> TRUE, due |-> FALSE, said |-> None]
NewCopier == [frame |-> "none", due |-> Region, got |-> Blank]

TypeOK ==
  /\ desk \in [Region -> Paint] /\ face \in Paint
  /\ win \in Paint \cup {None} /\ mode \in Mode
  /\ {locked, preview, gate} \subseteq BOOLEAN
  /\ due \subseteq Region
  /\ stream \in [Stream -> Streams]
  /\ graft \in [Graft -> Grafts]
  /\ copier \in [Copier -> Copiers]
  /\ env \in Env

Init ==
  /\ \E p \in Paint :
       desk = [r \in Region |-> p] /\ face = p /\ win = p
  /\ mode \in Mode
  /\ locked = FALSE /\ preview = FALSE /\ gate = TRUE
  /\ due = Region  \* nothing has been rendered
  /\ stream = [s \in Stream |-> NewStream]
  /\ graft = [g \in Graft |-> NewGraft]
  /\ copier = [c \in Copier |-> NewCopier]
  /\ env \in Env

----------------------------------------------------------------------------
(* The scene. A change is damage to every tracker that looks at it.         *)

Damages(rs) ==
  /\ due' = due \cup rs
  /\ copier' = [c \in Copier |-> [copier[c] EXCEPT !.due = @ \cup rs]]

Draw(r, p) ==
  /\ desk[r] # p
  /\ desk' = [desk EXCEPT ![r] = p]
  /\ IF locked THEN UNCHANGED <<due, copier>> ELSE Damages({r})
  /\ UNCHANGED <<face, win, mode, locked, preview, gate, stream, graft, env>>

DrawLock(p) ==
  /\ locked /\ face # p
  /\ face' = p
  /\ Damages(Region)
  /\ UNCHANGED <<desk, win, mode, locked, preview, gate, stream, graft, env>>

\* The window commits, wherever it is: mark_window_capture_dirty.
WindowCommits(p) ==
  /\ "graft" \in env
  /\ win \notin {None, p}
  /\ win' = p
  /\ graft' = [g \in Graft |-> [graft[g] EXCEPT !.dirty = TRUE, !.due = TRUE]]
  /\ UNCHANGED <<desk, face, mode, locked, preview, gate, due, stream, copier, env>>

WindowCloses ==
  /\ "graft" \in env
  /\ win # None
  /\ win' = None
  /\ UNCHANGED <<desk, face, mode, locked, preview, gate, due, stream, graft, copier, env>>

\* The nested backend's window is resized: the next render is of a fresh
\* target, all of it damaged.
Resize(m) ==
  /\ "mode" \in env
  /\ mode # m
  /\ mode' = m
  /\ Damages(Region)
  /\ UNCHANGED <<desk, face, win, locked, preview, gate, stream, graft, env>>

SetLocked(on) ==
  /\ "lock" \in env
  /\ locked # on
  /\ locked' = on
  /\ preview' = FALSE
  /\ Damages(Region)
  /\ UNCHANGED <<desk, face, win, mode, gate, stream, graft, env>>

\* Input while locked opens the preview; it ends with time.
SetPreview ==
  /\ locked
  /\ preview' = ~preview
  /\ UNCHANGED <<desk, face, win, mode, locked, gate, due, stream, graft, copier, env>>

----------------------------------------------------------------------------
(* The clients.                                                             *)

\* CaptureStream, CaptureWindow: refused without consent; a window's also
\* while the session is locked or the window is gone.
OpenStream(s) ==
  /\ "stream" \in env
  /\ gate /\ ~stream[s].open
  /\ stream' = [stream EXCEPT ![s] = [NewStream EXCEPT !.open = TRUE]]
  /\ UNCHANGED <<desk, face, win, mode, locked, preview, gate, due, graft, copier, env>>

OpenGraft(g) ==
  /\ "graft" \in env
  /\ gate /\ ~locked /\ win # None /\ ~graft[g].open
  /\ graft' = [graft EXCEPT ![g] = [NewGraft EXCEPT !.open = TRUE]]
  /\ UNCHANGED <<desk, face, win, mode, locked, preview, gate, due, stream, copier, env>>

\* A reader stops reading, or reads on and drains what was queued.
Turned(k) == [k EXCEPT !.stalled = ~k.stalled, !.draining = k.draining /\ ~k.stalled]

\* It does so, or is gone.
StreamTurns(s, open) ==
  /\ stream[s].open
  /\ "stall" \in env
  /\ stream' = [stream EXCEPT ![s] =
       IF open THEN Turned(stream[s]) ELSE NewStream]
  /\ UNCHANGED <<desk, face, win, mode, locked, preview, gate, due, graft, copier, env>>

GraftTurns(g, open) ==
  /\ graft[g].open
  /\ "stall" \in env
  /\ graft' = [graft EXCEPT ![g] =
       IF open THEN Turned(graft[g]) ELSE NewGraft]
  /\ UNCHANGED <<desk, face, win, mode, locked, preview, gate, due, stream, copier, env>>

\* copy, copy_with_damage; refused without consent.
Copy(c, frame) ==
  /\ "copy" \in env
  /\ gate /\ copier[c].frame = "none" /\ frame # "none"
  /\ copier' = [copier EXCEPT ![c].frame = frame]
  /\ UNCHANGED <<desk, face, win, mode, locked, preview, gate, due, stream, graft, env>>

\* The client destroys its frame, or its manager: that forgets its tracker.
DestroyFrame(c) ==
  /\ copier[c].frame # "none"
  /\ copier' = [copier EXCEPT ![c].frame = "none"]
  /\ UNCHANGED <<desk, face, win, mode, locked, preview, gate, due, stream, graft, env>>

DestroyManager(c) ==
  /\ "copy" \in env
  /\ copier[c].frame = "none"
  /\ copier' = [copier EXCEPT ![c].due = Region]
  /\ UNCHANGED <<desk, face, win, mode, locked, preview, gate, due, stream, graft, env>>

\* set_screen_capture: closing the gate fails the frames and ends the streams.
SetScreenCapture(on) ==
  /\ "gate" \in env
  /\ gate' = on
  /\ IF on THEN UNCHANGED <<stream, graft, copier>>
     ELSE /\ stream' = [s \in Stream |-> NewStream]
          /\ graft' = [g \in Graft |-> NewGraft]
          /\ copier' = [c \in Copier |-> [copier[c] EXCEPT !.frame = "none"]]
  /\ UNCHANGED <<desk, face, win, mode, locked, preview, due, env>>

----------------------------------------------------------------------------
(* The render tick: the copies, the windows, then the output.               *)

\* A frame that wants damage is held back while there is none.
CopyHolds(k) == k.frame = "none" \/ (k.frame = "damage" /\ k.due = {})

\* Every render is shown to the trackers, a copy waiting or not.
CopiedAndFed(k) ==
  IF CopyHolds(k) THEN [k EXCEPT !.due = {}]
  ELSE [k EXCEPT !.frame = "none",
                 !.got = [r \in Region |-> IF k.frame = "copy" \/ r \in k.due
                                           THEN Screen[r] ELSE @[r]],
                 !.due = {}]

\* Only copy_with_damage looks at the tracker.
Copied(k) ==
  IF CopyHolds(k) THEN k
  ELSE [k EXCEPT !.frame = "none",
                 !.got = [r \in Region |-> IF k.frame = "copy" \/ r \in k.due
                                           THEN Screen[r] ELSE @[r]],
                 !.due = IF k.frame = "damage" THEN {} ELSE @]

\* What was committed while an earlier frame drained is forgotten.
GraftedOrDrained(k) ==
  IF ~k.open \/ locked THEN k
  ELSE IF win = None THEN NewGraft
  ELSE IF k.ready /\ ~k.dirty THEN k
  ELSE IF k.draining THEN [k EXCEPT !.dirty = FALSE, !.due = FALSE]
  ELSE [k EXCEPT !.ready = TRUE, !.dirty = FALSE, !.due = FALSE, !.said = win,
                 !.draining = k.stalled]

\* The window is rendered by itself, locked or not.
GraftedThroughLock(k) ==
  IF ~k.open THEN k
  ELSE IF win = None THEN NewGraft
  ELSE IF k.draining \/ (k.ready /\ ~k.dirty) THEN k
  ELSE [k EXCEPT !.ready = TRUE, !.dirty = FALSE, !.due = FALSE,
                 !.said = IF ~k.ready \/ k.due THEN win ELSE @,
                 !.draining = k.stalled /\ (~k.ready \/ k.due)]

\* push_window_capture: nothing while locked, while an earlier frame drains,
\* or while nothing was committed.
Grafted(k) ==
  CASE ~k.open \/ locked -> k
    [] k.open /\ ~locked /\ win = None -> NewGraft
    [] k.open /\ ~locked /\ win # None ->
         IF k.draining \/ (k.ready /\ ~k.dirty) THEN k
         ELSE [k EXCEPT !.ready = TRUE, !.dirty = FALSE, !.due = FALSE,
                        !.said = IF ~k.ready \/ k.due THEN win ELSE @,
                        !.draining = k.stalled /\ (~k.ready \/ k.due)]

\* It forgets that the viewer holds the static frame.
NeedsFullUnlessLocked(k) == ~k.ready \/ k.last # mode \/ k.resync \/ Static

NeedsFull(k) ==
  ~k.ready \/ k.last # mode \/ k.resync \/ Static \/ k.lockedSent

Sent(k) ==
  LET regions == IF NeedsFull(k) THEN Region ELSE due
      before == IF k.ready /\ k.last = mode THEN k.said ELSE Blank
      now == IF Static THEN Filled ELSE Screen
  IN [k EXCEPT !.ready = TRUE, !.last = mode, !.resync = FALSE,
               !.lockedSent = Static, !.draining = k.stalled,
               !.said = [r \in Region |-> IF r \in regions THEN now[r] ELSE before[r]]]

\* push_capture: a stream that is behind is marked, and gets all of it later.
Streamed(k) ==
  CASE ~k.open -> k
    [] k.open /\ k.draining -> [k EXCEPT !.resync = TRUE]
    [] k.open /\ ~k.draining ->
         IF \/ Static /\ k.lockedSent /\ k.last = mode
            \/ ~NeedsFull(k) /\ due = {}
         THEN k ELSE Sent(k)

Served ==
  /\ copier' = [c \in Copier |-> Copied(copier[c])]
  /\ graft' = IF gate THEN [g \in Graft |-> Grafted(graft[g])] ELSE graft
  /\ stream' = IF gate THEN [s \in Stream |-> Streamed(stream[s])] ELSE stream

RenderOnce ==
  /\ Served
  /\ due' = {}
  /\ UNCHANGED <<desk, face, win, mode, locked, preview, gate, env>>

Next ==
  \/ RenderOnce
  \/ \E p \in Paint : DrawLock(p) \/ WindowCommits(p) \/ \E r \in Region : Draw(r, p)
  \/ WindowCloses
  \/ \E m \in Mode : Resize(m)
  \/ \E on \in BOOLEAN : SetLocked(on) \/ SetScreenCapture(on)
  \/ SetPreview
  \/ \E s \in Stream : OpenStream(s) \/ \E open \in BOOLEAN : StreamTurns(s, open)
  \/ \E g \in Graft : OpenGraft(g) \/ \E open \in BOOLEAN : GraftTurns(g, open)
  \/ \E c \in Copier :
       DestroyFrame(c) \/ DestroyManager(c) \/ \E f \in {"copy", "damage"} : Copy(c, f)

\* The render timer is re-armed whether or not there was damage; parked, it
\* still has its heartbeat.
Spec == Init /\ [][Next]_vars /\ WF_vars(RenderOnce)

----------------------------------------------------------------------------
(* Properties.                                                              *)

\* A stream that has room is, with the next render, exactly what is rendered,
\* or the static frame: whatever it missed while its queue was full or the
\* session was locked.
StreamExact ==
  \A s \in Stream :
    stream[s].open /\ ~stream[s].draining =>
      Streamed(stream[s]).said = (IF Static THEN Filled ELSE Screen)

\* A copying client that the next render serves then shows the screen, having
\* copied only what it was told had changed; and one that the render holds
\* back has missed nothing.
CopyExact ==
  \A c \in Copier :
    copier[c].frame # "none" => Copied(copier[c]).got = Screen

\* While the session is locked no stream, of the output or of a window, and no
\* copy shows anything of the desktop that it did not show before.
LockHides ==
  [][locked' =>
       /\ \A s \in Stream, r \in Region :
            stream'[s].said[r] # stream[s].said[r] => stream'[s].said[r][1] # "desk"
       /\ \A c \in Copier, r \in Region :
            copier'[c].got[r] # copier[c].got[r] => copier'[c].got[r][1] # "desk"
       /\ \A g \in Graft : graft'[g].said \in {graft[g].said, None}]_vars

\* A reader that reads catches up with a scene that comes to rest, however far
\* it had fallen behind.
CatchesUp ==
  /\ \A s \in Stream, p \in Picture :
       <>[](stream[s].open /\ ~stream[s].stalled /\ ~Static /\ Screen = p)
         => <>[](stream[s].said = p)
  /\ \A g \in Graft, p \in Paint :
       <>[](graft[g].open /\ ~graft[g].stalled /\ ~locked /\ win = p)
         => <>[](graft[g].said = p)
=============================================================================
