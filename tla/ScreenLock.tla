------------------------------ MODULE ScreenLock ------------------------------
(***************************************************************************)
(* Locking the session: the compositor's side (spawn_lock, idle_lock.rs,   *)
(* handlers/session_lock.rs) and the lock programs, each a process of its  *)
(* own that asks for the lock over its Wayland connection, draws, reads    *)
(* keys and unlocks when the password is right.                            *)
(*                                                                         *)
(* A connection carries requests and events in order, each way; a program  *)
(* may die at any time, and what it had sent is still read. The Wayland    *)
(* library refuses a second lock by "finished", and an unlock before       *)
(* "locked" by a protocol error, which kills the program. It passes on the *)
(* lock surfaces of a refused program as it does any other's.              *)
(*                                                                         *)
(* There is one output, so a program has one lock surface.                 *)
(***************************************************************************)
EXTENDS Naturals, Sequences

CONSTANTS
  Locker,    \* lock programs that may be started
  Char,      \* what can be typed
  Password,  \* the right password
  MaxTyped,  \* bound: keys typed and not yet submitted or dropped
  Env,       \* environments: sets of "crash", "foreign", "idle", "typing",
             \* "undrawn", "no_user"
  None

ASSUME LockerAssumption == None \notin Locker
ASSUME CharAssumption ==
  Char \cap {"configure", "locked", "finished", "enter", "escape", "backspace"} = {}
ASSUME PasswordAssumption == Password \in Seq(Char) /\ MaxTyped \in Nat

VARIABLES
  session,  \* lock_session: whose lock, pending or confirmed, and whose
            \* surface is listed for the output
  child,    \* lock_child: the program spawned last, and LockChild.locked
  proc,     \* the programs
  waiting,  \* a lock was asked for, and neither came nor was said to fail
  told,     \* LockFailed went out since the user was last active
  idle,     \* the idle period has passed
  armed,    \* the idle timer
  inhibit,  \* a visible client inhibits idling
  env

vars == <<session, child, proc, waiting, told, idle, armed, inhibit, env>>
clock == <<idle, armed, inhibit, env>>

Request == {"lock", "surface", "commit", "unlock"}
Event == {"configure", "locked", "finished", "enter", "escape", "backspace"} \cup Char

Sessions == [owner : Locker \cup {None}, confirmed : BOOLEAN, surface : Locker \cup {None}]
Programs ==
  [state : {"none", "starting", "running", "done", "zombie", "gone"},
   spawned : BOOLEAN, draws : BOOLEAN, out : Seq(Request), in : Seq(Event),
   prompt : BOOLEAN, password : Seq(Char), verified : BOOLEAN]

NoSession == [owner |-> None, confirmed |-> FALSE, surface |-> None]
NoChild == [pid |-> None, locked |-> FALSE]
Program ==
  [state |-> "none",      \* none, starting, running, done, zombie, gone
   spawned |-> FALSE,     \* by the compositor, whose child it is
   draws |-> TRUE,        \* redraw has a size and the memory for it
   out |-> <<>>,          \* its requests the compositor has yet to read
   in |-> <<>>,           \* the events it has yet to read
   prompt |-> FALSE,      \* prompt_visible
   password |-> <<>>,     \* typed so far
   verified |-> FALSE]    \* the password it last submitted was right

TypeOK ==
  /\ session \in Sessions /\ (session.owner = None => session = NoSession)
  /\ child \in [pid : Locker \cup {None}, locked : BOOLEAN]
  /\ proc \in [Locker -> Programs]
  /\ {waiting, told, idle, armed, inhibit} \subseteq BOOLEAN /\ env \in Env

Init ==
  /\ session = NoSession /\ child = NoChild
  /\ proc = [l \in Locker |-> Program]
  /\ waiting = FALSE /\ told = FALSE
  /\ idle = FALSE /\ armed \in BOOLEAN /\ inhibit = FALSE
  /\ env \in Env

Locked == session.owner # None
Runs(l) == proc[l].state \in {"running", "done"}

-----------------------------------------------------------------------------
(* Starting a lock program.                                                *)

\* lock_failed
Told == waiting' = FALSE /\ told' = TRUE

\* A second start while the first program has not locked yet keeps the old
\* one on record.
SpawnLockKeepsOld ==
  IF Locked THEN UNCHANGED <<child, proc, waiting, told>>
  ELSE \/ \E l \in Locker :
            /\ proc[l].state = "none"
            /\ proc' = [proc EXCEPT ![l].state = "starting", ![l].spawned = TRUE]
            /\ child' = IF child.pid = None THEN [pid |-> l, locked |-> FALSE] ELSE child
            /\ waiting' = TRUE
            /\ UNCHANGED told
       \/ Told /\ UNCHANGED <<child, proc>>

\* Nothing to do in a locked session. The command may be empty or not start;
\* one that starts takes the place of the one on record.
SpawnLock ==
  IF Locked THEN UNCHANGED <<child, proc, waiting, told>>
  ELSE \/ \E l \in Locker :
            /\ proc[l].state = "none"
            /\ proc' = [proc EXCEPT ![l].state = "starting", ![l].spawned = TRUE]
            /\ child' = [pid |-> l, locked |-> FALSE]
            /\ waiting' = TRUE
            /\ UNCHANGED told
       \/ Told /\ UNCHANGED <<child, proc>>

\* The key binding, the menu or a client of the IPC asks for the lock.
LockRequested == SpawnLock /\ UNCHANGED <<session, clock>>

\* Somebody else's lock program starts, and is no child of the compositor.
ForeignStarts(l) ==
  /\ "foreign" \in env
  /\ proc[l].state = "none"
  /\ proc' = [proc EXCEPT ![l].state = "starting"]
  /\ UNCHANGED <<session, child, waiting, told, clock>>

\* No second program while one is on record.
IdleTickAlone ==
  /\ armed /\ idle
  /\ IF inhibit \/ child.pid # None THEN UNCHANGED <<child, proc, waiting, told>> ELSE SpawnLock
  /\ UNCHANGED <<session, clock>>

\* idle_lock_tick: whatever it finds, it arms the timer again.
IdleTick ==
  /\ armed /\ idle
  /\ IF inhibit THEN UNCHANGED <<child, proc, waiting, told>> ELSE SpawnLock
  /\ UNCHANGED <<session, clock>>

\* The period passes, input comes, a client inhibits or stops to. The
\* timer itself comes and goes with the configuration (sync_idle_lock).
IdleChanges ==
  /\ "idle" \in env
  /\ \/ ~idle /\ idle' = TRUE /\ UNCHANGED <<inhibit, armed, told>>
     \/ idle /\ idle' = FALSE /\ told' = FALSE /\ UNCHANGED <<inhibit, armed>>
     \/ inhibit' = ~inhibit /\ UNCHANGED <<idle, armed, told>>
     \/ armed' = ~armed /\ UNCHANGED <<idle, inhibit, told>>
  /\ UNCHANGED <<session, child, proc, waiting, env>>

\* A child is reaped. If it is the one on record, and no lock has begun since
\* it was spawned, the session was left open.
Reap(l) ==
  /\ proc[l].state = "zombie"
  /\ proc' = [proc EXCEPT ![l].state = "gone"]
  /\ child' = IF child.pid = l THEN NoChild ELSE child
  /\ IF child.pid = l /\ ~child.locked /\ ~Locked
     THEN Told ELSE UNCHANGED <<waiting, told>>
  /\ UNCHANGED <<session, clock>>

-----------------------------------------------------------------------------
(* The compositor reads a request.                                         *)

\* The events a program gets; one that has died gets none.
Tell(p, l, e) == IF p[l].state = "running" THEN [p EXCEPT ![l].in = Append(@, e)] ELSE p

\* maybe_confirm_lock, after the commit of any surface: a lock surface exists,
\* drawn or not, and whoever made it.
Confirmed(s) == s.owner # None /\ ~s.confirmed /\ s.surface # None

\* p is proc with the request taken off l's connection.
Locks(l, p) ==
  IF Locked
  THEN proc' = Tell(p, l, "finished") /\ UNCHANGED <<session, child, waiting>>
  ELSE /\ session' = [owner |-> l, confirmed |-> FALSE, surface |-> None]
       /\ child' = [child EXCEPT !.locked = child.pid # None]
       /\ proc' = p
       /\ waiting' = FALSE

\* While locked, any program's surface is listed, in the place of the one the
\* output had, and gets the keyboard (focus_lock_surface). A dead one stays.
NewSurface(l, p) ==
  /\ session' = IF Locked THEN [session EXCEPT !.surface = l] ELSE session
  /\ proc' = Tell(p, l, "configure")
  /\ UNCHANGED <<child, waiting>>

\* Whoever's surface it is.
Commits(p) ==
  /\ session' = IF Confirmed(session) THEN [session EXCEPT !.confirmed = TRUE] ELSE session
  /\ proc' = IF Confirmed(session) THEN Tell(p, session.owner, "locked") ELSE p
  /\ UNCHANGED <<child, waiting>>

Unlocks(l, p) ==
  /\ IF session.owner = l /\ session.confirmed
     THEN session' = NoSession ELSE UNCHANGED session
  /\ proc' = p
  /\ UNCHANGED <<child, waiting>>

Reads(l) ==
  /\ proc[l].out # <<>>
  /\ LET p == [proc EXCEPT ![l].out = Tail(@)]
     IN CASE Head(proc[l].out) = "lock" -> Locks(l, p)
          [] Head(proc[l].out) = "surface" -> NewSurface(l, p)
          [] Head(proc[l].out) = "commit" -> Commits(p)
          [] Head(proc[l].out) = "unlock" -> Unlocks(l, p)
  /\ UNCHANGED <<told, clock>>

\* A window, the bar, any client draws.
OtherCommits == Commits(proc) /\ Confirmed(session) /\ UNCHANGED <<told, clock>>

\* The surface listed last has the keyboard.
Press(k) ==
  /\ "typing" \in env
  /\ Locked /\ session.surface # None /\ proc[session.surface].state = "running"
  /\ LET p == proc[session.surface] IN Len(p.in) + Len(p.password) < MaxTyped
  /\ proc' = Tell(proc, session.surface, k)
  /\ idle' = FALSE /\ told' = FALSE
  /\ UNCHANGED <<session, child, waiting, armed, inhibit, env>>

-----------------------------------------------------------------------------
(* A lock program.                                                         *)

\* It asks for the lock and makes its surface in one go.
Asks(l) ==
  /\ proc[l].state = "starting"
  /\ \E draws \in BOOLEAN :
       /\ draws \/ "undrawn" \in env
       /\ proc' = [proc EXCEPT ![l].state = "running", ![l].draws = draws,
                              ![l].out = <<"lock", "surface">>]
  /\ UNCHANGED <<session, child, waiting, told, clock>>

\* It waits for the next frame to commit.
ConfiguredLater(p) == p

\* Drawn, and committed, in the handler of the configure event.
Configured(p) == IF p.draws THEN [p EXCEPT !.out = Append(@, "commit")] ELSE p

\* The prompt goes, but not what was typed.
HidePromptOnly(p) == [p EXCEPT !.prompt = FALSE]
HidePrompt(p) == [p EXCEPT !.prompt = FALSE, !.password = <<>>]

\* verify_password: a right one may still be refused (a disabled account).
\* Without $USER it asks nobody, and keeps what was typed. The program unlocks
\* without having to have been told "locked".
Submitted(p, accepted) ==
  IF "no_user" \in env THEN p
  ELSE IF accepted
  THEN [p EXCEPT !.password = <<>>, !.verified = TRUE,
                 !.out = Append(@, "unlock"), !.state = "done"]
  ELSE [p EXCEPT !.password = <<>>]

\* A key. The first one only brings the prompt up.
Keyed(p, k, accepted) ==
  CASE ~p.prompt -> [p EXCEPT !.prompt = TRUE]
    [] p.prompt /\ k = "enter" -> Submitted(p, accepted /\ p.password = Password)
    [] p.prompt /\ k = "escape" -> HidePrompt(p)
    [] p.prompt /\ k = "backspace" ->
         IF p.password = <<>> THEN p
         ELSE [p EXCEPT !.password = SubSeq(@, 1, Len(@) - 1)]
    [] p.prompt /\ k \in Char -> [p EXCEPT !.password = Append(@, k)]

Hears(l) ==
  /\ proc[l].state = "running" /\ proc[l].in # <<>>
  /\ LET e == Head(proc[l].in)
         p == [proc[l] EXCEPT !.in = Tail(@)]
     IN \E accepted \in BOOLEAN :
          proc' = [proc EXCEPT ![l] =
            CASE e = "configure" -> Configured(p)
              [] e = "locked" -> p
              [] e = "finished" -> [p EXCEPT !.state = "done"]
              [] OTHER -> Keyed(p, e, accepted)]
  /\ UNCHANGED <<session, child, waiting, told, clock>>

\* No key for PROMPT_TIMEOUT.
PromptTimeout(l) ==
  /\ proc[l].state = "running" /\ proc[l].prompt
  /\ proc' = [proc EXCEPT ![l] = HidePrompt(@)]
  /\ UNCHANGED <<session, child, waiting, told, clock>>

Ended(p) == [p EXCEPT !.state = IF p.spawned THEN "zombie" ELSE "gone",
                      !.in = <<>>, !.password = <<>>, !.prompt = FALSE]

Exits(l) ==
  /\ proc[l].state = "done"
  /\ proc' = [proc EXCEPT ![l] = Ended(@)]
  /\ UNCHANGED <<session, child, waiting, told, clock>>

\* It dies; the lock it holds stays.
CrashesOpen(l) ==
  /\ "crash" \in env
  /\ proc[l].state \in {"starting", "running", "done"}
  /\ proc' = [proc EXCEPT ![l] = Ended(@)]
  /\ session' = IF session.owner = l THEN NoSession ELSE session
  /\ UNCHANGED <<child, waiting, told, clock>>

Crashes(l) ==
  /\ "crash" \in env
  /\ proc[l].state \in {"starting", "running", "done"}
  /\ proc' = [proc EXCEPT ![l] = Ended(@)]
  /\ UNCHANGED <<session, child, waiting, told, clock>>

Next ==
  \/ LockRequested
  \/ IdleTick
  \/ IdleChanges
  \/ OtherCommits
  \/ \E k \in Char \cup {"enter", "escape", "backspace"} : Press(k)
  \/ \E l \in Locker :
       \/ ForeignStarts(l)
       \/ Reap(l)
       \/ Reads(l)
       \/ Asks(l)
       \/ Hears(l)
       \/ PromptTimeout(l)
       \/ Exits(l)
       \/ Crashes(l)

\* The compositor reads its connections, reaps its children and runs its
\* timer; a lock program gets as far as asking, and an ended one exits.
\* Nothing is assumed of who types.
Fairness ==
  /\ WF_vars(IdleTick)
  /\ \A l \in Locker : WF_vars(Reads(l))
  /\ \A l \in Locker : WF_vars(Reap(l))
  /\ \A l \in Locker : WF_vars(Asks(l))

Spec == Init /\ [][Next]_vars /\ Fairness

-----------------------------------------------------------------------------
(* Properties.                                                             *)

\* An unlock that the compositor reads is its sender's to ask for, also where a
\* refused program's surface has the keyboard, and finds the lock confirmed,
\* unless the sender could not draw. The lock program checks neither, and a
\* protocol error would leave the session locked for good: the order of
\* requests, events and keys sees to it.
UnlockValid ==
  \A l \in Locker : proc[l].out # <<>> /\ Head(proc[l].out) = "unlock" =>
    session.owner = l /\ (session.confirmed \/ ~proc[l].draws)

\* Only the program that holds the lock ends it, after the right password:
\* not its crash, nor another program, nor a new request.
LockHeld ==
  [][Locked /\ session'.owner # session.owner => proc[session.owner].verified]_vars

\* Nothing typed survives under a hidden prompt, to be taken as the start of
\* the next attempt.
PromptForgets == \A l \in Locker : ~proc[l].prompt => proc[l].password = <<>>

\* Whoever asks for the lock gets it or is told that it failed, also if two
\* are asked for, programs crash, and others lock in between.
LockAnswered == waiting ~> ~waiting

\* A desktop left alone locks, or says that it could not, unless somebody
\* inhibits it or turns the timer off.
IdleLocks == idle /\ armed /\ ~inhibit ~> ~idle \/ ~armed \/ inhibit \/ Locked \/ waiting \/ told
=============================================================================
