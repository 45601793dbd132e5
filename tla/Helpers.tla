-------------------------------- MODULE Helpers --------------------------------
(***************************************************************************)
(* The compositor's helper processes: commands run for a client, the       *)
(* screenshot tool, detached tools, and the confirmation dialog.           *)
(*                                                                         *)
(* A child and what it starts run beside the compositor: they write, close *)
(* their pipes and die at any time, a descendant possibly outside the      *)
(* child's process group. The compositor learns of it through a wake-up on *)
(* a self-pipe, by polling the children it tracks, and through the pipes;  *)
(* a reply goes out once the output is read to its end and the status is   *)
(* known, or when a timer gives up on the pipes. The dialog's pipe is read *)
(* with blocking reads, on the compositor's only thread.                   *)
(*                                                                         *)
(* A read of a child's pipe yields a chunk, its end, or that there is      *)
(* nothing to read; the code takes any other failure for the end.          *)
(***************************************************************************)
EXTENDS Integers, Sequences, FiniteSets

CONSTANTS
  Job,      \* requests that start a process
  Pipe,     \* the child's output pipes
  MaxOut,   \* bound: chunks written to one pipe
  Env,      \* environments: sets of "command", "shot", "detach", "timeout",
            \* "group", "stray", "output", "closes", "gone", "confirm";
            \* with "alone" one request only (a bound)
  None

ASSUME JobAssumption == IsFiniteSet(Job)
ASSUME BoundAssumption == MaxOut \in Nat

VARIABLES
  job,      \* each request and its processes
  wake,     \* a byte waits in the SIGCHLD self-pipe
  drained,  \* the reaper has emptied the pipe and not yet swept
  dialog,   \* pending_confirm and the helper behind it
  env

vars == <<job, wake, drained, dialog, env>>

Who == {"child", "group", "stray"}

Idle ==
  [kind    |-> "none",      \* what was asked for
   child   |-> "none",      \* the process: running, a zombie, reaped
   alive   |-> {},          \* its descendants that hold the pipes
   killed  |-> FALSE,       \* SIGKILL is on its way to the group
   writers |-> [p \in Pipe |-> {}],
   written |-> [p \in Pipe |-> 0],
   unread  |-> [p \in Pipe |-> 0],
   pending |-> FALSE,       \* in pending_commands or pending_screenshots
   open    |-> {},          \* stdout_open, stderr_open
   status  |-> FALSE,       \* exit_status is there
   timer   |-> FALSE,       \* the timeout's timer is armed
   grace   |-> FALSE,       \* the output grace timer is armed
   client  |-> "waiting",
   reply   |-> None]        \* what the client was told, and what was unread

NoDialog == [phase |-> "none", answer |-> "cancel", digit |-> "none"]

Init ==
  /\ job = [j \in Job |-> Idle]
  /\ wake = FALSE /\ drained = FALSE
  /\ dialog = NoDialog
  /\ env \in Env

\* The loop is inside a blocking read of the dialog's pipe.
Blocked == dialog.phase # "none" /\ dialog.digit = "read"

\* What the compositor does waits for its loop.
Loop == ~Blocked

Jobs ==
  [kind : {"none", "command", "shot", "detach"},
   child : {"none", "running", "zombie", "reaped"}, alive : SUBSET {"group", "stray"},
   killed : BOOLEAN, writers : [Pipe -> SUBSET Who], written : [Pipe -> 0..MaxOut],
   unread : [Pipe -> 0..MaxOut], pending : BOOLEAN, open : SUBSET Pipe,
   status : BOOLEAN, timer : BOOLEAN, grace : BOOLEAN,
   client : {"waiting", "gone", "answered"},
   reply : {None} \cup [unread : {0, 1}, given_up : BOOLEAN]]

TypeOK ==
  /\ job \in [Job -> Jobs]
  /\ {wake, drained} \subseteq BOOLEAN /\ env \in Env
  /\ dialog \in [phase : {"none", "asking", "leaving", "left", "gone"},
                 answer : {"confirm", "cancel"}, digit : {"none", "sent", "read"}]

-----------------------------------------------------------------------------
(* Requests.                                                               *)

Started(kind, timeout) ==
  [Idle EXCEPT !.kind = kind, !.child = "running",
               !.writers = [p \in Pipe |-> IF kind = "detach" THEN {} ELSE {"child"}],
               !.pending = kind # "detach",
               !.open = IF kind = "detach" THEN {} ELSE Pipe,
               !.timer = timeout,
               !.reply = IF kind = "detach" THEN [unread |-> 0, given_up |-> FALSE] ELSE None]

\* run_command, with or without a timeout or detached, and screenshot.
Request(j, kind, timeout) ==
  /\ Loop /\ kind \in env
  /\ timeout => kind = "command" /\ "timeout" \in env
  /\ job[j].kind = "none"
  /\ "alone" \in env => \A k \in Job : job[k].kind = "none"
  /\ job' = [job EXCEPT ![j] = Started(kind, timeout)]
  /\ UNCHANGED <<wake, drained, dialog, env>>

\* The client goes away; its job does not.
ClientGone(j) ==
  /\ Loop /\ "gone" \in env
  /\ job[j].pending /\ job[j].client = "waiting"
  /\ job' = [job EXCEPT ![j].client = "gone"]
  /\ UNCHANGED <<wake, drained, dialog, env>>

-----------------------------------------------------------------------------
(* Processes.                                                              *)

Lives(j, w) == IF w = "child" THEN job[j].child = "running" ELSE w \in job[j].alive

\* The child starts a process that inherits the pipes, in its group or not. One
\* with a SIGKILL pending forks no more.
Forks(j, w) ==
  /\ w \in env \cap {"group", "stray"}
  /\ job[j].child = "running" /\ ~job[j].killed /\ w \notin job[j].alive
  /\ job[j].kind # "detach"
  /\ job' = [job EXCEPT ![j].alive = @ \cup {w},
                        ![j].writers = [p \in Pipe |-> @[p] \cup {w}]]
  /\ UNCHANGED <<wake, drained, dialog, env>>

Writes(j, w, p) ==
  /\ "output" \in env
  /\ Lives(j, w) /\ w \in job[j].writers[p] /\ job[j].written[p] < MaxOut
  /\ p \in job[j].open /\ job[j].pending
  /\ job' = [job EXCEPT ![j].written[p] = @ + 1, ![j].unread[p] = @ + 1]
  /\ UNCHANGED <<wake, drained, dialog, env>>

Closes(j, p) ==
  /\ "closes" \in env
  /\ Lives(j, "child") /\ "child" \in job[j].writers[p]
  /\ job' = [job EXCEPT ![j].writers[p] = @ \ {"child"}]
  /\ UNCHANGED <<wake, drained, dialog, env>>

\* A process ends; SIGCHLD follows the child's end.
Dies(j, w) ==
  /\ Lives(j, w)
  /\ job' = [job EXCEPT ![j].writers = [p \in Pipe |-> @[p] \ {w}],
                        ![j].alive = @ \ {w},
                        ![j].child = IF w = "child" THEN "zombie" ELSE @]
  /\ wake' = (wake \/ w = "child")
  /\ UNCHANGED <<drained, dialog, env>>

KilledDies(j, w) == w # "stray" /\ job[j].killed /\ Dies(j, w)

-----------------------------------------------------------------------------
(* Replies.                                                                *)

Unread(r) == \E p \in Pipe : r.unread[p] > 0

\* Reply, stop watching the pipes and the timers, let the client go.
Finalized(r, given_up) ==
  [r EXCEPT !.pending = FALSE, !.timer = FALSE, !.grace = FALSE, !.open = {},
            !.client = IF @ = "gone" THEN "gone" ELSE "answered",
            !.reply = [unread |-> IF Unread(r) THEN 1 ELSE 0, given_up |-> given_up]]

MaybeFinalizedOnExit(r) ==
  IF r.pending /\ r.status THEN Finalized(r, FALSE) ELSE r

\* Only once every pipe has ended and the status is there.
MaybeFinalized(r) ==
  IF r.pending /\ r.open = {} /\ r.status THEN Finalized(r, FALSE) ELSE r

\* The pipe's source reads a chunk, and keeps it up to a cap. One wake-up
\* reads a bounded amount, so anything may come between two chunks.
ReadChunk(j, p) ==
  /\ Loop
  /\ job[j].pending /\ p \in job[j].open /\ job[j].unread[p] > 0
  /\ job' = [job EXCEPT ![j].unread[p] = @ - 1]
  /\ UNCHANGED <<wake, drained, dialog, env>>

\* It reads the end of the pipe: all read and nobody left to write.
ReadEnd(j, p) ==
  /\ Loop
  /\ job[j].pending /\ p \in job[j].open
  /\ job[j].unread[p] = 0 /\ job[j].writers[p] = {}
  /\ job' = [job EXCEPT ![j] = MaybeFinalized([job[j] EXCEPT !.open = job[j].open \ {p}])]
  /\ UNCHANGED <<wake, drained, dialog, env>>

ReapedNoGrace(r) == MaybeFinalized([r EXCEPT !.child = "reaped", !.status = TRUE])

\* A status is routed to its request. A command that ended with its pipes
\* open gets a grace period; without the timer it waits for the pipes.
Reaped(r) ==
  LET f == MaybeFinalized([r EXCEPT !.child = "reaped", !.status = TRUE])
  IN [f EXCEPT !.grace = f.pending /\ f.kind = "command"]

\* The self-pipe's source empties the pipe,
Drain ==
  /\ Loop /\ wake /\ ~drained
  /\ wake' = FALSE /\ drained' = TRUE
  /\ UNCHANGED <<job, dialog, env>>

\* It forgets a wake-up that came in between.
SweepLate ==
  /\ Loop /\ drained
  /\ job' = [j \in Job |-> IF job[j].child = "zombie" /\ ~wake THEN Reaped(job[j]) ELSE job[j]]
  /\ drained' = FALSE /\ wake' = FALSE
  /\ UNCHANGED <<dialog, env>>

\* then polls the tracked children and routes the status of each that ended.
Sweep ==
  /\ Loop /\ drained
  /\ job' = [j \in Job |-> IF job[j].child = "zombie" THEN Reaped(job[j]) ELSE job[j]]
  /\ drained' = FALSE
  /\ UNCHANGED <<wake, dialog, env>>

\* The timeout: kill the group; the reply follows the processes' end.
OnTimeout(j) ==
  /\ Loop /\ job[j].timer
  /\ job' = [job EXCEPT ![j].timer = FALSE, ![j].killed = TRUE]
  /\ UNCHANGED <<wake, drained, dialog, env>>

\* The grace period: kill what is left of the group and reply at once.
OnGraceOver(j) ==
  /\ Loop /\ job[j].grace
  /\ job' = [job EXCEPT ![j] = Finalized([job[j] EXCEPT !.killed = TRUE], TRUE)]
  /\ UNCHANGED <<wake, drained, dialog, env>>

-----------------------------------------------------------------------------
(* The dialog.                                                             *)

\* A second request while one is open is dropped. Its job j, if the user
\* agrees, is the tool the action starts.
ConfirmAction ==
  /\ Loop /\ "confirm" \in env
  /\ dialog' = IF dialog.phase = "none" THEN [NoDialog EXCEPT !.phase = "asking"] ELSE dialog
  /\ UNCHANGED <<job, wake, drained, env>>

\* The user answers; of a batch of input the last key or click counts.
HelperHears(answer) ==
  /\ Loop /\ dialog.phase = "asking"
  /\ dialog' = [dialog EXCEPT !.phase = "leaving", !.answer = answer]
  /\ UNCHANGED <<job, wake, drained, env>>

\* Its surfaces are gone for the compositor, which has to answer for that,
HelperLeaves ==
  /\ Loop /\ dialog.phase = "leaving"
  /\ dialog' = [dialog EXCEPT !.phase = "left"]
  /\ UNCHANGED <<job, wake, drained, env>>

HelperPrintsEarly ==
  /\ dialog.phase \in {"leaving", "left"} /\ dialog.digit = "none"
  /\ dialog' = [dialog EXCEPT !.digit = "sent"]
  /\ UNCHANGED <<job, wake, drained, env>>

\* before it prints its digit. Or it crashes and prints none.
HelperPrints ==
  /\ dialog.phase = "left" /\ dialog.digit = "none"
  /\ dialog' = [dialog EXCEPT !.digit = "sent"]
  /\ UNCHANGED <<job, wake, drained, env>>

HelperExits ==
  /\ dialog.phase = "left" /\ dialog.digit # "none"
  /\ dialog' = [dialog EXCEPT !.phase = "gone"]
  /\ UNCHANGED <<job, wake, drained, env>>

HelperCrashes ==
  /\ "gone" \in env /\ dialog.phase \in {"asking", "leaving", "left"}
  /\ dialog' = [dialog EXCEPT !.phase = "gone"]
  /\ UNCHANGED <<job, wake, drained, env>>

\* The pipe is readable: the loop reads the digit and goes on to read, which
\* blocks until the helper is gone.
ReadDigit ==
  /\ dialog.phase # "none" /\ dialog.digit = "sent"
  /\ dialog' = [dialog EXCEPT !.digit = "read"]
  /\ UNCHANGED <<job, wake, drained, env>>

\* End of the pipe: the action runs if the digit was the agreeing one. The
\* actions that start a tool track it like any child.
FinalizeConfirm ==
  /\ dialog.phase = "gone" /\ dialog.digit # "sent"
  /\ dialog' = NoDialog
  /\ IF dialog.digit = "read" /\ dialog.answer = "confirm"
     THEN \/ \E j \in Job : /\ job[j].kind = "none"
                            /\ job' = [job EXCEPT ![j] = Started("detach", FALSE)]
          \/ UNCHANGED job  \* no tool, or none that starts
     ELSE UNCHANGED job
  /\ UNCHANGED <<wake, drained, env>>

Next ==
  \/ \E j \in Job, kind \in {"command", "shot", "detach"}, t \in BOOLEAN : Request(j, kind, t)
  \/ \E j \in Job : ClientGone(j) \/ OnTimeout(j) \/ OnGraceOver(j)
  \/ \E j \in Job, w \in Who : Forks(j, w) \/ Dies(j, w)
  \/ \E j \in Job, w \in Who, p \in Pipe : Writes(j, w, p)
  \/ \E j \in Job, p \in Pipe : Closes(j, p) \/ ReadChunk(j, p) \/ ReadEnd(j, p)
  \/ Drain
  \/ Sweep
  \/ ConfirmAction
  \/ \E answer \in {"confirm", "cancel"} : HelperHears(answer)
  \/ HelperLeaves
  \/ HelperPrints
  \/ HelperExits
  \/ HelperCrashes
  \/ ReadDigit
  \/ FinalizeConfirm

Spec == Init /\ [][Next]_vars

\* What the compositor's loop does for the children,
Dispatch ==
  \/ Drain
  \/ Sweep
  \/ \E j \in Job : OnTimeout(j) \/ OnGraceOver(j) \/ (\E p \in Pipe : ReadChunk(j, p) \/ ReadEnd(j, p))

\* and the steps that bring an answered dialog to its end.
DialogEnds == HelperLeaves \/ HelperPrints \/ HelperExits \/ ReadDigit \/ FinalizeConfirm

\* The loop dispatches what is ready each time round: its own stops in the
\* dialog's pipe, however often they come, do not starve the rest for ever
\* (strong fairness). A killed process dies, and a helper that has its answer
\* leaves. Nobody has to answer a dialog, and a process that is not killed may
\* run for ever.
Fairness ==
  /\ SF_vars(Dispatch)
  /\ WF_vars(\E j \in Job, w \in Who : KilledDies(j, w))
  /\ WF_vars(DialogEnds)

FairSpec == Spec /\ Fairness

-----------------------------------------------------------------------------
(* Properties.                                                             *)

\* A reply that did not give up on the pipes carries all of the output: not a
\* chunk was left in a pipe, in whatever order the child ended, its output
\* closed and its status arrived.
ReplyComplete ==
  \A j \in Job : job[j].reply # None /\ ~job[j].reply.given_up => job[j].reply.unread = 0

\* A command with a timeout is answered, whatever it started and whoever of
\* that holds its output open; and so is every command that has ended.
CommandAnswered ==
  \A j \in Job :
    job[j].pending /\ job[j].kind = "command" /\ (job[j].timer \/ job[j].child = "zombie")
      ~> ~job[j].pending

\* Every child that ends is reaped, though its signal comes while the reaper
\* is between emptying its pipe and looking.
NoZombies == \A j \in Job : job[j].child = "zombie" ~> job[j].child = "reaped"

\* The loop does not hang in the dialog's pipe: a helper that has printed
\* needs nothing of the compositor any more.
LoopComesBack == Blocked ~> ~Blocked
=============================================================================
