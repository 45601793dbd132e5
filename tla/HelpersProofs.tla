----------------------------- MODULE HelpersProofs -----------------------------
(***************************************************************************)
(* The theorems of Helpers: its variables keep their types, and a reply    *)
(* that did not give up on the pipes has all that was written to them.     *)
(***************************************************************************)
EXTENDS Helpers, TLAPS

\* A pipe that has ended has been read to its end, and a reply that did not
\* give up left nothing unread.
Drained(r) ==
  /\ r.pending => \A p \in Pipe : p \notin r.open => r.unread[p] = 0
  /\ r.reply # None /\ ~r.reply.given_up => r.reply.unread = 0
  /\ \A p \in Pipe : r.unread[p] <= r.written[p]

Good(r) == r \in Jobs /\ Drained(r)

IInv == TypeOK /\ \A j \in Job : Good(job[j])

-----------------------------------------------------------------------------
(* One request.                                                            *)

LEMMA IdleGood == Good(Idle)
<1>1. 0 \in 0..MaxOut
  BY BoundAssumption
<1>2. [p \in Pipe |-> 0] \in [Pipe -> 0..MaxOut] /\ [p \in Pipe |-> {}] \in [Pipe -> SUBSET Who]
  BY <1>1
<1>3. Idle \in Jobs
  BY <1>2 DEF Idle, Jobs
<1>4. Drained(Idle)
  BY DEF Idle, Drained
<1>5. QED
  BY <1>3, <1>4 DEF Good

LEMMA StartedGood ==
  ASSUME NEW kind \in {"command", "shot", "detach"}, NEW timeout \in BOOLEAN
  PROVE  Good(Started(kind, timeout))
<1> DEFINE r == Started(kind, timeout)
<1>1. 0 \in 0..MaxOut
  BY BoundAssumption
<1>2. /\ Idle.written = [p \in Pipe |-> 0] /\ Idle.unread = [p \in Pipe |-> 0]
      /\ r.written = Idle.written /\ r.unread = Idle.unread
      /\ r.reply = IF kind = "detach" THEN [unread |-> 0, given_up |-> FALSE] ELSE None
  BY DEF Started, Idle
<1>3. [p \in Pipe |-> 0] \in [Pipe -> 0..MaxOut]
  BY <1>1
<1>4. [p \in Pipe |-> IF kind = "detach" THEN {} ELSE {"child"}] \in [Pipe -> SUBSET Who]
  BY DEF Who
<1>5. r \in Jobs
  BY <1>3, <1>4 DEF Started, Idle, Jobs
<1>6. Drained(r)
  BY <1>2 DEF Drained
<1>7. QED
  BY <1>5, <1>6 DEF Good

\* A reply is complete if everything had been read, or gives up.
LEMMA FinalizedGood ==
  ASSUME NEW r \in Jobs, Drained(r), NEW given_up \in BOOLEAN,
         ~given_up => \A p \in Pipe : r.unread[p] = 0
  PROVE  Good(Finalized(r, given_up))
<1> DEFINE f == Finalized(r, given_up)
<1>1. /\ ~f.pending /\ f.unread = r.unread /\ f.written = r.written
      /\ f.reply = [unread |-> IF Unread(r) THEN 1 ELSE 0, given_up |-> given_up]
  BY DEF Finalized, Jobs
<1>2. ~given_up => ~Unread(r)
  BY DEF Unread
<1>3. f \in Jobs
  <2> DEFINE told == [unread |-> IF Unread(r) THEN 1 ELSE 0, given_up |-> given_up]
  <2>1. told \in {None} \cup [unread : {0, 1}, given_up : BOOLEAN]
    OBVIOUS
  <2> HIDE DEF told
  <2>2. /\ r.client \in {"waiting", "gone", "answered"}
        /\ (IF r.client = "gone" THEN "gone" ELSE "answered") \in {"waiting", "gone", "answered"}
    BY DEF Jobs
  <2>3. f = [r EXCEPT !.pending = FALSE, !.open = {}, !.timer = FALSE, !.grace = FALSE,
                      !.client = IF r.client = "gone" THEN "gone" ELSE "answered",
                      !.reply = told]
    BY DEF Finalized, told
  <2> DEFINE client == IF r.client = "gone" THEN "gone" ELSE "answered"
             h == [r EXCEPT !.pending = FALSE, !.open = {}, !.timer = FALSE, !.grace = FALSE]
  <2>4. client \in {"waiting", "gone", "answered"}
    BY <2>2
  <2> HIDE DEF client
  <2>5. h \in Jobs
    BY DEF Jobs
  <2>6. f = [h EXCEPT !.client = client, !.reply = told]
    BY <2>3 DEF client
  <2> HIDE DEF h, f
  <2>7. QED
    BY <2>1, <2>4, <2>5, <2>6 DEF Jobs
<1>4. ~f.reply.given_up => f.reply.unread = 0
  <2>1. f.reply.given_up = given_up /\ f.reply.unread = (IF Unread(r) THEN 1 ELSE 0)
    BY <1>1
  <2>2. QED
    BY <1>2, <2>1
<1>5. \A p \in Pipe : f.unread[p] <= f.written[p]
  BY <1>1 DEF Drained
<1>6. QED
  BY <1>1, <1>3, <1>4, <1>5 DEF Good, Drained

LEMMA MaybeFinalizedGood ==
  ASSUME NEW r, Good(r)
  PROVE  Good(MaybeFinalized(r))
<1>1. CASE r.pending /\ r.open = {} /\ r.status
  <2>1. \A p \in Pipe : r.unread[p] = 0
    BY <1>1 DEF Good, Drained
  <2>2. QED
    BY <1>1, <2>1, FinalizedGood DEF Good, MaybeFinalized
<1>2. CASE ~(r.pending /\ r.open = {} /\ r.status)
  BY <1>2 DEF MaybeFinalized
<1>3. QED
  BY <1>1, <1>2

\* What a reply rests on is kept by a step that neither writes nor reads.
LEMMA SameOutput ==
  ASSUME NEW r, Good(r), NEW q \in Jobs, q.pending = r.pending, q.open = r.open,
         q.unread = r.unread, q.written = r.written, q.reply = r.reply
  PROVE  Good(q)
BY DEF Good, Drained

LEMMA ReapedGood ==
  ASSUME NEW r, Good(r)
  PROVE  Good(Reaped(r))
<1> DEFINE q == [r EXCEPT !.child = "reaped", !.status = TRUE]
           f == MaybeFinalized(q)
           g == [f EXCEPT !.grace = f.pending /\ f.kind = "command"]
<1>1. /\ q \in Jobs /\ q.pending = r.pending /\ q.open = r.open /\ q.unread = r.unread
      /\ q.written = r.written /\ q.reply = r.reply
  BY DEF Good, Jobs
<1>2. Good(f)
  BY <1>1, SameOutput, MaybeFinalizedGood
<1>3. Reaped(r) = g
  BY DEF Reaped
<1> HIDE DEF f
<1>4. /\ g \in Jobs /\ g.pending = f.pending /\ g.open = f.open /\ g.unread = f.unread
      /\ g.written = f.written /\ g.reply = f.reply
  <2>1. \A b \in BOOLEAN : LET h == [f EXCEPT !.grace = b]
          IN /\ h \in Jobs /\ h.pending = f.pending /\ h.open = f.open
             /\ h.unread = f.unread /\ h.written = f.written /\ h.reply = f.reply
    BY <1>2 DEF Good, Jobs
  <2>2. (f.pending /\ f.kind = "command") \in BOOLEAN
    OBVIOUS
  <2>3. QED
    BY <2>1, <2>2
<1>5. QED
  BY <1>2, <1>3, <1>4, SameOutput

-----------------------------------------------------------------------------
(* The steps.                                                              *)

LEMMA OneChanges ==
  ASSUME IInv, NEW j \in Job, NEW r, Good(r), job' = [job EXCEPT ![j] = r],
         {wake', drained'} \subseteq BOOLEAN, UNCHANGED <<dialog, env>>
  PROVE  IInv'
BY DEF IInv, TypeOK, Good

LEMMA RequestKeeps ==
  ASSUME IInv, NEW j \in Job, NEW kind \in {"command", "shot", "detach"},
         NEW t \in BOOLEAN, Request(j, kind, t)
  PROVE  IInv'
BY StartedGood, OneChanges DEF Request, IInv, TypeOK

LEMMA FlagsKeep ==
  ASSUME IInv, NEW j \in Job, ClientGone(j) \/ OnTimeout(j)
  PROVE  IInv'
<1>1. Good(job[j]) /\ job[j] \in Jobs
  BY DEF IInv, Good
<1>2. CASE ClientGone(j)
  <2> DEFINE q == [job[j] EXCEPT !.client = "gone"]
  <2>1. /\ q \in Jobs /\ q.pending = job[j].pending /\ q.open = job[j].open
        /\ q.unread = job[j].unread /\ q.written = job[j].written /\ q.reply = job[j].reply
    BY <1>1 DEF Jobs
  <2>2. job' = [job EXCEPT ![j] = q] /\ UNCHANGED <<wake, drained, dialog, env>>
    BY <1>2 DEF ClientGone
  <2>3. QED
    BY <1>1, <2>1, <2>2, SameOutput, OneChanges DEF IInv, TypeOK
<1>3. CASE OnTimeout(j)
  <2> DEFINE q == [job[j] EXCEPT !.timer = FALSE, !.killed = TRUE]
  <2>1. /\ q \in Jobs /\ q.pending = job[j].pending /\ q.open = job[j].open
        /\ q.unread = job[j].unread /\ q.written = job[j].written /\ q.reply = job[j].reply
    BY <1>1 DEF Jobs
  <2>2. job' = [job EXCEPT ![j] = q] /\ UNCHANGED <<wake, drained, dialog, env>>
    BY <1>3 DEF OnTimeout, IInv, TypeOK
  <2>3. QED
    BY <1>1, <2>1, <2>2, SameOutput, OneChanges DEF IInv, TypeOK
<1>4. QED
  BY <1>2, <1>3

LEMMA GraceKeeps ==
  ASSUME IInv, NEW j \in Job, OnGraceOver(j)
  PROVE  IInv'
<1> DEFINE q == [job[j] EXCEPT !.killed = TRUE]
<1>1. Good(job[j])
  BY DEF IInv
<1>2. /\ q \in Jobs /\ q.pending = job[j].pending /\ q.open = job[j].open
      /\ q.unread = job[j].unread /\ q.written = job[j].written /\ q.reply = job[j].reply
  BY <1>1 DEF Good, Jobs
<1>3. Good(q)
  BY <1>1, <1>2, SameOutput
<1>4. Good(Finalized(q, TRUE))
  BY <1>3, FinalizedGood DEF Good
<1>5. QED
  BY <1>4, OneChanges DEF OnGraceOver, IInv, TypeOK

LEMMA ProcessKeeps ==
  ASSUME IInv, NEW j \in Job, NEW w \in Who, Forks(j, w) \/ Dies(j, w)
  PROVE  IInv'
<1>1. Good(job[j]) /\ job[j] \in Jobs
  BY DEF IInv, Good
<1>2. CASE Forks(j, w)
  <2> DEFINE q == [job[j] EXCEPT !.alive = job[j].alive \cup {w},
                                 !.writers = [p \in Pipe |-> job[j].writers[p] \cup {w}]]
  <2>1. w \in {"group", "stray"} /\ [p \in Pipe |-> job[j].writers[p] \cup {w}] \in [Pipe -> SUBSET Who]
    BY <1>1, <1>2 DEF Forks, Jobs
  <2>2. /\ q \in Jobs /\ q.pending = job[j].pending /\ q.open = job[j].open
        /\ q.unread = job[j].unread /\ q.written = job[j].written /\ q.reply = job[j].reply
    BY <1>1, <2>1 DEF Jobs
  <2>3. job' = [job EXCEPT ![j] = q] /\ UNCHANGED <<wake, drained, dialog, env>>
    BY <1>2 DEF Forks, IInv, TypeOK
  <2>4. QED
    BY <1>1, <2>2, <2>3, SameOutput, OneChanges DEF IInv, TypeOK
<1>3. CASE Dies(j, w)
  <2> DEFINE q == [job[j] EXCEPT !.writers = [p \in Pipe |-> job[j].writers[p] \ {w}],
                                 !.alive = job[j].alive \ {w},
                                 !.child = IF w = "child" THEN "zombie" ELSE job[j].child]
  <2>1. [p \in Pipe |-> job[j].writers[p] \ {w}] \in [Pipe -> SUBSET Who]
    BY <1>1 DEF Jobs
  <2>2. /\ q \in Jobs /\ q.pending = job[j].pending /\ q.open = job[j].open
        /\ q.unread = job[j].unread /\ q.written = job[j].written /\ q.reply = job[j].reply
    BY <1>1, <2>1 DEF Jobs
  <2>3. job' = [job EXCEPT ![j] = q] /\ wake' \in BOOLEAN /\ UNCHANGED <<drained, dialog, env>>
    BY <1>3 DEF Dies, IInv, TypeOK
  <2>4. QED
    BY <1>1, <2>2, <2>3, SameOutput, OneChanges DEF IInv, TypeOK
<1>4. QED
  BY <1>2, <1>3

LEMMA PipeKeeps ==
  ASSUME IInv, NEW j \in Job, NEW p \in Pipe, Closes(j, p) \/ ReadChunk(j, p) \/ ReadEnd(j, p)
  PROVE  IInv'
<1>1. Good(job[j]) /\ job[j] \in Jobs
  BY DEF IInv, Good
<1>2. CASE Closes(j, p)
  <2> DEFINE q == [job[j] EXCEPT !.writers[p] = job[j].writers[p] \ {"child"}]
  <2>1. /\ q \in Jobs /\ q.pending = job[j].pending /\ q.open = job[j].open
        /\ q.unread = job[j].unread /\ q.written = job[j].written /\ q.reply = job[j].reply
    BY <1>1 DEF Jobs
  <2>2. job' = [job EXCEPT ![j] = q] /\ UNCHANGED <<wake, drained, dialog, env>>
    BY <1>2 DEF Closes, IInv, TypeOK
  <2>3. QED
    BY <1>1, <2>1, <2>2, SameOutput, OneChanges DEF IInv, TypeOK
<1>3. CASE ReadChunk(j, p)
  <2> DEFINE q == [job[j] EXCEPT !.unread[p] = job[j].unread[p] - 1]
  <2>1. /\ job[j].unread[p] > 0 /\ job[j].unread \in [Pipe -> 0..MaxOut] /\ MaxOut \in Nat
        /\ job[j].written \in [Pipe -> 0..MaxOut]
    BY <1>1, <1>3, BoundAssumption DEF ReadChunk, Jobs
  <2>2. job[j].unread[p] - 1 \in 0..MaxOut
    BY <2>1
  <2>3. /\ q \in Jobs /\ q.pending = job[j].pending /\ q.open = job[j].open
        /\ q.unread = [job[j].unread EXCEPT ![p] = job[j].unread[p] - 1]
        /\ q.written = job[j].written /\ q.reply = job[j].reply
    BY <1>1, <2>2 DEF Jobs
  <2>4. p \in job[j].open
    BY <1>3 DEF ReadChunk
  <2>5. \A o \in Pipe : q.unread[o] <= q.written[o] /\ (o # p => q.unread[o] = job[j].unread[o])
    BY <1>1, <2>1, <2>3 DEF Good, Drained
  <2>6. Good(q)
    BY <1>1, <2>3, <2>4, <2>5 DEF Good, Drained
  <2>7. job' = [job EXCEPT ![j] = q] /\ UNCHANGED <<wake, drained, dialog, env>>
    BY <1>3 DEF ReadChunk, IInv, TypeOK
  <2>8. QED
    BY <2>6, <2>7, OneChanges DEF IInv, TypeOK
<1>4. CASE ReadEnd(j, p)
  <2> DEFINE q == [job[j] EXCEPT !.open = job[j].open \ {p}]
  <2>1. /\ q \in Jobs /\ q.pending = job[j].pending /\ q.open = job[j].open \ {p}
        /\ q.unread = job[j].unread /\ q.written = job[j].written /\ q.reply = job[j].reply
    BY <1>1 DEF Jobs
  <2>2. job[j].unread[p] = 0
    BY <1>4 DEF ReadEnd
  <2>3. Good(q)
    BY <1>1, <2>1, <2>2 DEF Good, Drained
  <2>4. Good(MaybeFinalized(q))
    BY <2>3, MaybeFinalizedGood
  <2>5. QED
    BY <1>4, <2>4, OneChanges DEF ReadEnd, IInv, TypeOK
<1>5. QED
  BY <1>2, <1>3, <1>4

LEMMA WritesKeep ==
  ASSUME IInv, NEW j \in Job, NEW w \in Who, NEW p \in Pipe, Writes(j, w, p)
  PROVE  IInv'
<1> DEFINE q == [job[j] EXCEPT !.written[p] = job[j].written[p] + 1,
                               !.unread[p] = job[j].unread[p] + 1]
<1>1. Good(job[j]) /\ job[j] \in Jobs
  BY DEF IInv, Good
<1>2. /\ job[j].unread \in [Pipe -> 0..MaxOut] /\ job[j].written \in [Pipe -> 0..MaxOut]
      /\ MaxOut \in Nat /\ job[j].written[p] < MaxOut /\ p \in job[j].open
      /\ job[j].unread[p] <= job[j].written[p]
  BY <1>1, BoundAssumption DEF Writes, Jobs, Good, Drained
<1>3. job[j].written[p] + 1 \in 0..MaxOut /\ job[j].unread[p] + 1 \in 0..MaxOut
  BY <1>2
<1>4. /\ q \in Jobs /\ q.pending = job[j].pending /\ q.open = job[j].open
      /\ q.unread = [job[j].unread EXCEPT ![p] = job[j].unread[p] + 1]
      /\ q.written = [job[j].written EXCEPT ![p] = job[j].written[p] + 1]
      /\ q.reply = job[j].reply
  BY <1>1, <1>3 DEF Jobs
<1>5. \A o \in Pipe : q.unread[o] <= q.written[o] /\ (o # p => q.unread[o] = job[j].unread[o])
  BY <1>1, <1>2, <1>4 DEF Good, Drained
<1>6. Good(q)
  BY <1>1, <1>2, <1>4, <1>5 DEF Good, Drained
<1>7. job' = [job EXCEPT ![j] = q] /\ UNCHANGED <<wake, drained, dialog, env>>
  BY DEF Writes, IInv, TypeOK
<1>8. QED
  BY <1>6, <1>7, OneChanges DEF IInv, TypeOK

LEMMA ReaperKeeps ==
  ASSUME IInv, Drain \/ Sweep
  PROVE  IInv'
<1>1. CASE Drain
  BY <1>1 DEF Drain, IInv, TypeOK
<1>2. CASE Sweep
  <2>1. ASSUME NEW j \in Job
        PROVE  Good(job'[j]) /\ job'[j] \in Jobs
    BY <1>2, ReapedGood DEF Sweep, IInv, Good
  <2>2. job' = [j \in Job |-> job'[j]] /\ drained' = FALSE /\ UNCHANGED <<wake, dialog, env>>
    BY <1>2 DEF Sweep
  <2>3. job' \in [Job -> Jobs]
    BY <2>1, <2>2
  <2>4. QED
    BY <2>1, <2>2, <2>3 DEF IInv, TypeOK
<1>3. QED
  BY <1>1, <1>2

LEMMA DialogKeeps ==
  ASSUME IInv,
         \/ ConfirmAction \/ HelperLeaves \/ HelperPrints \/ HelperExits \/ HelperCrashes
         \/ ReadDigit \/ \E answer \in {"confirm", "cancel"} : HelperHears(answer)
  PROVE  IInv'
BY DEF ConfirmAction, HelperLeaves, HelperPrints, HelperExits, HelperCrashes, ReadDigit,
       HelperHears, NoDialog, IInv, TypeOK

LEMMA FinalizeKeeps ==
  ASSUME IInv, FinalizeConfirm
  PROVE  IInv'
<1>1. /\ dialog' = NoDialog /\ UNCHANGED <<wake, drained, env>>
      /\ \/ \E j \in Job : job' = [job EXCEPT ![j] = Started("detach", FALSE)]
         \/ UNCHANGED job
  BY DEF FinalizeConfirm
<1>2. dialog' \in [phase : {"none", "asking", "leaving", "left", "gone"},
                   answer : {"confirm", "cancel"}, digit : {"none", "sent", "read"}]
  BY <1>1 DEF NoDialog
<1>3. Good(Started("detach", FALSE))
  BY StartedGood
<1>4. job' \in [Job -> Jobs] /\ \A j \in Job : Good(job'[j])
  BY <1>1, <1>3 DEF IInv, TypeOK, Good
<1>5. QED
  BY <1>1, <1>2, <1>4 DEF IInv, TypeOK

-----------------------------------------------------------------------------
(* The invariant.                                                          *)

LEMMA HelpersInit == Init => IInv
<1> SUFFICES ASSUME Init
             PROVE  IInv
  OBVIOUS
<1>1. /\ job = [j \in Job |-> Idle] /\ dialog = NoDialog
      /\ wake = FALSE /\ drained = FALSE /\ env \in Env
  BY DEF Init
<1>2. Idle \in Jobs /\ Good(Idle)
  BY IdleGood DEF Good
<1> HIDE DEF Init
<1>3. job \in [Job -> Jobs] /\ \A j \in Job : Good(job[j])
  BY <1>1, <1>2
<1>4. dialog \in [phase : {"none", "asking", "leaving", "left", "gone"},
                  answer : {"confirm", "cancel"}, digit : {"none", "sent", "read"}]
  BY <1>1 DEF NoDialog
<1>5. QED
  BY <1>1, <1>3, <1>4 DEF IInv, TypeOK

LEMMA HelpersStep == IInv /\ [Next]_vars => IInv'
<1> SUFFICES ASSUME IInv, [Next]_vars
             PROVE  IInv'
  OBVIOUS
<1>1. CASE \E j \in Job, kind \in {"command", "shot", "detach"}, t \in BOOLEAN : Request(j, kind, t)
  BY <1>1, RequestKeeps
<1>2. CASE \E j \in Job : ClientGone(j) \/ OnTimeout(j) \/ OnGraceOver(j)
  BY <1>2, FlagsKeep, GraceKeeps
<1>3. CASE \E j \in Job, w \in Who : Forks(j, w) \/ Dies(j, w)
  BY <1>3, ProcessKeeps
<1>4. CASE \E j \in Job, w \in Who, p \in Pipe : Writes(j, w, p)
  BY <1>4, WritesKeep
<1>5. CASE \E j \in Job, p \in Pipe : Closes(j, p) \/ ReadChunk(j, p) \/ ReadEnd(j, p)
  BY <1>5, PipeKeeps
<1>6. CASE Drain \/ Sweep
  BY <1>6, ReaperKeeps
<1>7. CASE \/ ConfirmAction \/ HelperLeaves \/ HelperPrints \/ HelperExits \/ HelperCrashes
           \/ ReadDigit \/ \E answer \in {"confirm", "cancel"} : HelperHears(answer)
  BY <1>7, DialogKeeps
<1>8. CASE FinalizeConfirm
  BY <1>8, FinalizeKeeps
<1>9. CASE UNCHANGED vars
  BY <1>9 DEF vars, IInv, TypeOK
<1>10. QED
  BY <1>1, <1>2, <1>3, <1>4, <1>5, <1>6, <1>7, <1>8, <1>9 DEF Next

LEMMA Invariant == Spec => []IInv
BY HelpersInit, HelpersStep, PTL DEF Spec

-----------------------------------------------------------------------------
(* The theorems.                                                           *)

\* Every variable of Helpers keeps its type.
THEOREM HelpersTypeCorrect == Spec => []TypeOK
<1>1. IInv => TypeOK
  BY DEF IInv
<1>2. QED
  BY <1>1, Invariant, PTL

\* A reply that did not give up on the pipes has all of the output
\* (maybe_finalize_remote_command, on_command_pipe_closed).
THEOREM RepliesAreComplete == Spec => []ReplyComplete
<1>1. IInv => ReplyComplete
  BY DEF IInv, Good, Drained, ReplyComplete
<1>2. QED
  BY <1>1, Invariant, PTL
=============================================================================
