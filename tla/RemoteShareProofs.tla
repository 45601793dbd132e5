--------------------------- MODULE RemoteShareProofs ---------------------------
(****************************************************************************)
(* Theorems about RemoteShare, for any sessions, devices, codes and         *)
(* environment: reopening the gate early, gates flipped apart and crashes   *)
(* included.                                                                *)
(****************************************************************************)
EXTENDS RemoteShare, SeatHeldProofs, FiniteSetTheorems, SequenceTheorems

(***************************************************************************)
(* The inductive invariant. Books relates the sessions f to the counts cs  *)
(* and the number n of viewers. The counts agree only because a session    *)
(* that holds something is in its input loop or about to end its holds,    *)
(* and one that is counted has joined.                                     *)
(***************************************************************************)
HoldersIn(f, c) == {s \in Session : f[s].holding /\ c \in f[s].held}
CountedIn(f) == {s \in Session : f[s].counted}

Stage(r) ==
  /\ r.pc \notin {"input", "stopping"} => r.held = {}
  /\ r.counted => r.pc \in {"joined", "input", "stopping", "leaving"}

Books(f, cs, n) ==
  /\ \A c \in Code : cs[c] = Cardinality(HoldersIn(f, c))
  /\ n = Cardinality(CountedIn(f))
  /\ \A s \in Session : Stage(f[s])

IInv ==
  /\ TypeOK /\ SeatOK
  /\ NothingWithoutConsent
  /\ Books(sess, counts, viewers)

Sessions == [Session -> SessionState]

LEMMA HoldersFinite ==
  ASSUME NEW f, NEW c
  PROVE  IsFiniteSet(HoldersIn(f, c)) /\ Cardinality(HoldersIn(f, c)) \in Nat
  BY SessionsAssumption, FS_Subset, FS_CardinalityType DEF HoldersIn

LEMMA CountedFinite ==
  ASSUME NEW f
  PROVE  IsFiniteSet(CountedIn(f)) /\ Cardinality(CountedIn(f)) \in Nat
  BY SessionsAssumption, FS_Subset, FS_CardinalityType DEF CountedIn

LEMMA RemoteInit == Init => IInv
<1> SUFFICES ASSUME Init
             PROVE  IInv
  OBVIOUS
<1>1. SeatOK
  BY InitOK DEF Init
<1>2. TypeOK
  <2>1. NoSession \in SessionState
    BY DEF NoSession, SessionState
  <2>2. gate \in Gates /\ lease \in Leases
    BY DEF Init, Gates, Leases, NoLease
  <2>3. notices \in Seq(BOOLEAN) /\ counts \in [Code -> Nat]
    BY DEF Init
  <2>4. QED
    BY <1>1, <2>1, <2>2, <2>3 DEF Init, TypeOK, SeatOK
<1>3. NothingWithoutConsent
  BY DEF Init, SeatInit, NothingWithoutConsent, NoSession
<1>4. Books(sess, counts, viewers)
  <2>1. \A c \in Code : HoldersIn(sess, c) = {}
    BY DEF Init, HoldersIn, NoSession
  <2>2. CountedIn(sess) = {}
    BY DEF Init, CountedIn, NoSession
  <2>3. \A s \in Session : Stage(sess[s])
    BY DEF Init, Stage, NoSession
  <2>4. QED
    BY <2>1, <2>2, <2>3, FS_EmptySet DEF Books, Init
<1>5. QED
  BY <1>1, <1>2, <1>3, <1>4 DEF IInv

(***************************************************************************)
(* Steps that leave the books alone.                                       *)
(***************************************************************************)
\* Sessions that hold and count the same keep the same books.
LEMMA SameBooks ==
  ASSUME NEW f, NEW g, NEW cs, NEW n, Books(f, cs, n),
         \A s \in Session : /\ g[s].held = f[s].held
                            /\ g[s].holding = f[s].holding \/ f[s].held = {}
                            /\ g[s].counted = f[s].counted
                            /\ Stage(g[s])
  PROVE  Books(g, cs, n)
<1>1. \A c \in Code : HoldersIn(g, c) = HoldersIn(f, c)
  BY DEF HoldersIn
<1>2. CountedIn(g) = CountedIn(f)
  BY DEF CountedIn
<1>3. QED
  BY <1>1, <1>2 DEF Books

\* A session moves on by itself, to r, and leaves the counts and the WM alone.
\* It comes to life only by being accepted, and views only once it has joined.
Viewings == {"joined", "input", "stopping", "leaving"}

MovesOn(s, r) ==
  /\ r \in SessionState /\ Stage(r)
  /\ r.held = sess[s].held /\ r.counted = sess[s].counted
  /\ r.holding = sess[s].holding \/ r.held = {}
  /\ r.capture => sess[s].capture \/ gate.capture
  /\ r.pc \in Viewings => sess[s].pc \in Viewings
  /\ r.pc # "none" => sess[s].pc # "none" \/ sup = "listening"
  /\ sess' = [sess EXCEPT ![s] = r]
  /\ UNCHANGED <<seat, wm, server>>

LEMMA SessionMoves ==
  ASSUME IInv, NEW s \in Session, NEW r, MovesOn(s, r)
  PROVE  IInv'
<1>0. r \in SessionState /\ UNCHANGED <<seat, wm, server>>
  BY DEF MovesOn
<1>1. TypeOK'
  BY <1>0 DEF IInv, TypeOK, SeatTypeOK, seat, wm, server, MovesOn
<1>2. SeatOK'
  BY <1>0 DEF IInv, SeatOK, SeatTypeOK, DownExact, HeldPhysically, seat
<1>3. \A x \in Session : sess'[x] = IF x = s THEN r ELSE sess[x]
  BY DEF IInv, TypeOK, MovesOn
<1>4. NothingWithoutConsent'
  BY <1>0, <1>3 DEF IInv, NothingWithoutConsent, seat, wm, MovesOn
<1>5. Books(sess', counts, viewers)
  <2>1. \A x \in Session : Stage(sess'[x])
    BY <1>3 DEF IInv, Books, MovesOn
  <2>2. \A x \in Session :
          /\ sess'[x].held = sess[x].held
          /\ sess'[x].holding = sess[x].holding \/ sess[x].held = {}
          /\ sess'[x].counted = sess[x].counted
    BY <1>3 DEF MovesOn
  <2>3. QED
    BY <2>1, <2>2, SameBooks DEF IInv
<1>6. QED
  BY <1>0, <1>1, <1>2, <1>4, <1>5 DEF IInv, server

\* The handshake, the capture stream, the threads that start and stop, and the
\* viewer's comings and goings: none touches a count.
Quiet(s) ==
  \/ Accept(s) \/ HandshakeFails(s) \/ OpenCapture(s) \/ AddSession(s)
  \/ Begin(s) \/ BeginFails(s) \/ Motion(s) \/ ViewerLeaves(s)
  \/ InputEnds(s) \/ Stall(s) \/ CaptureEnds(s) \/ FramesEnd(s)

LEMMA QuietMoves ==
  ASSUME IInv, NEW s \in Session, Quiet(s)
  PROVE  \E r : MovesOn(s, r)
<1> DEFINE m == sess[s]
<1>0. /\ m \in SessionState /\ Stage(m) /\ NoSession \in SessionState
      /\ Stage(NoSession) /\ sess \in [Session -> SessionState]
  BY DEF IInv, TypeOK, Books, NoSession, SessionState, Stage
<1>1. CASE Accept(s)
  <2> DEFINE r == [m EXCEPT !.pc = "handshake"]
  <2>1. sess' = [sess EXCEPT ![s] = r] /\ UNCHANGED <<seat, wm, server>>
    BY <1>0, <1>1 DEF Accept, At, Goto
  <2>2. r \in SessionState /\ Stage(r)
    BY <1>0, <1>1 DEF SessionState, Stage, Accept, At, Goto
  <2>3. /\ r.held = m.held /\ r.counted = m.counted
        /\ r.holding = m.holding \/ r.held = {}
        /\ r.capture => m.capture \/ gate.capture
    BY <1>0, <1>1 DEF SessionState, Stage, Accept, At, Goto
  <2>4. /\ r.pc \in Viewings => m.pc \in Viewings
        /\ r.pc # "none" => m.pc # "none" \/ sup = "listening"
    BY <1>0, <1>1 DEF SessionState, Viewings, Accept, At, Goto
  <2> HIDE DEF r
  <2>5. QED
    BY <2>1, <2>2, <2>3, <2>4 DEF MovesOn
<1>2. CASE AddSession(s)
  <2> DEFINE r == [m EXCEPT !.pc = "added"]
  <2>1. sess' = [sess EXCEPT ![s] = r] /\ UNCHANGED <<seat, wm, server>>
    BY <1>0, <1>2 DEF AddSession, At, Goto
  <2>2. r \in SessionState /\ Stage(r)
    BY <1>0, <1>2 DEF SessionState, Stage, AddSession, At, Goto
  <2>3. /\ r.held = m.held /\ r.counted = m.counted
        /\ r.holding = m.holding \/ r.held = {}
        /\ r.capture => m.capture \/ gate.capture
    BY <1>0, <1>2 DEF SessionState, Stage, AddSession, At, Goto
  <2>4. /\ r.pc \in Viewings => m.pc \in Viewings
        /\ r.pc # "none" => m.pc # "none" \/ sup = "listening"
    BY <1>0, <1>2 DEF SessionState, Viewings, AddSession, At, Goto
  <2> HIDE DEF r
  <2>5. QED
    BY <2>1, <2>2, <2>3, <2>4 DEF MovesOn
<1>3. CASE Begin(s)
  <2> DEFINE r == [m EXCEPT !.pc = "input", !.frames = TRUE, !.holding = TRUE]
  <2>1. sess' = [sess EXCEPT ![s] = r] /\ UNCHANGED <<seat, wm, server>>
    BY <1>0, <1>3 DEF Begin, At
  <2>2. r \in SessionState /\ Stage(r)
    BY <1>0, <1>3 DEF SessionState, Stage, Begin, At
  <2>3. /\ r.held = m.held /\ r.counted = m.counted
        /\ r.holding = m.holding \/ r.held = {}
        /\ r.capture => m.capture \/ gate.capture
    BY <1>0, <1>3 DEF SessionState, Stage, Begin, At
  <2>4. /\ r.pc \in Viewings => m.pc \in Viewings
        /\ r.pc # "none" => m.pc # "none" \/ sup = "listening"
    BY <1>0, <1>3 DEF SessionState, Viewings, Begin, At
  <2> HIDE DEF r
  <2>5. QED
    BY <2>1, <2>2, <2>3, <2>4 DEF MovesOn
<1>4. CASE BeginFails(s)
  <2> DEFINE r == [m EXCEPT !.pc = "leaving"]
  <2>1. sess' = [sess EXCEPT ![s] = r] /\ UNCHANGED <<seat, wm, server>>
    BY <1>0, <1>4 DEF BeginFails, At, Goto
  <2>2. r \in SessionState /\ Stage(r)
    BY <1>0, <1>4 DEF SessionState, Stage, BeginFails, At, Goto
  <2>3. /\ r.held = m.held /\ r.counted = m.counted
        /\ r.holding = m.holding \/ r.held = {}
        /\ r.capture => m.capture \/ gate.capture
    BY <1>0, <1>4 DEF SessionState, Stage, BeginFails, At, Goto
  <2>4. /\ r.pc \in Viewings => m.pc \in Viewings
        /\ r.pc # "none" => m.pc # "none" \/ sup = "listening"
    BY <1>0, <1>4 DEF SessionState, Viewings, BeginFails, At, Goto
  <2> HIDE DEF r
  <2>5. QED
    BY <2>1, <2>2, <2>3, <2>4 DEF MovesOn
<1>5. CASE Stall(s)
  <2> DEFINE r == [m EXCEPT !.stalled = ~m.stalled]
  <2>1. sess' = [sess EXCEPT ![s] = r] /\ UNCHANGED <<seat, wm, server>>
    BY <1>0, <1>5 DEF Stall, At
  <2>2. r \in SessionState /\ Stage(r)
    BY <1>0, <1>5 DEF SessionState, Stage, Stall, At
  <2>3. /\ r.held = m.held /\ r.counted = m.counted
        /\ r.holding = m.holding \/ r.held = {}
        /\ r.capture => m.capture \/ gate.capture
    BY <1>0, <1>5 DEF SessionState, Stage, Stall, At
  <2>4. /\ r.pc \in Viewings => m.pc \in Viewings
        /\ r.pc # "none" => m.pc # "none" \/ sup = "listening"
    BY <1>0, <1>5 DEF SessionState, Viewings, Stall, At
  <2> HIDE DEF r
  <2>5. QED
    BY <2>1, <2>2, <2>3, <2>4 DEF MovesOn
<1>6. CASE CaptureEnds(s)
  <2> DEFINE r == [m EXCEPT !.capture = FALSE]
  <2>1. sess' = [sess EXCEPT ![s] = r] /\ UNCHANGED <<seat, wm, server>>
    BY <1>0, <1>6 DEF CaptureEnds
  <2>2. r \in SessionState /\ Stage(r)
    BY <1>0, <1>6 DEF SessionState, Stage, CaptureEnds
  <2>3. /\ r.held = m.held /\ r.counted = m.counted
        /\ r.holding = m.holding \/ r.held = {}
        /\ r.capture => m.capture \/ gate.capture
    BY <1>0, <1>6 DEF SessionState, Stage, CaptureEnds
  <2>4. /\ r.pc \in Viewings => m.pc \in Viewings
        /\ r.pc # "none" => m.pc # "none" \/ sup = "listening"
    BY <1>0, <1>6 DEF SessionState, Viewings, CaptureEnds
  <2> HIDE DEF r
  <2>5. QED
    BY <2>1, <2>2, <2>3, <2>4 DEF MovesOn
<1>7. CASE FramesEnd(s)
  <2> DEFINE r == [m EXCEPT !.frames = FALSE, !.stopped = TRUE]
  <2>1. sess' = [sess EXCEPT ![s] = r] /\ UNCHANGED <<seat, wm, server>>
    BY <1>0, <1>7 DEF FramesEnd
  <2>2. r \in SessionState /\ Stage(r)
    BY <1>0, <1>7 DEF SessionState, Stage, FramesEnd
  <2>3. /\ r.held = m.held /\ r.counted = m.counted
        /\ r.holding = m.holding \/ r.held = {}
        /\ r.capture => m.capture \/ gate.capture
    BY <1>0, <1>7 DEF SessionState, Stage, FramesEnd
  <2>4. /\ r.pc \in Viewings => m.pc \in Viewings
        /\ r.pc # "none" => m.pc # "none" \/ sup = "listening"
    BY <1>0, <1>7 DEF SessionState, Viewings, FramesEnd
  <2> HIDE DEF r
  <2>5. QED
    BY <2>1, <2>2, <2>3, <2>4 DEF MovesOn
<1>8. CASE Motion(s) \/ ViewerLeaves(s) \/ InputEnds(s)
  <2> DEFINE r == [m EXCEPT !.pc = "stopping"]
  <2>1. sess' = [sess EXCEPT ![s] = r] /\ UNCHANGED <<seat, wm, server>>
    BY <1>0, <1>8 DEF Motion, ViewerLeaves, InputEnds, At, Goto
  <2>2. r \in SessionState /\ Stage(r)
    BY <1>0, <1>8 DEF SessionState, Stage, Motion, ViewerLeaves, InputEnds, At, Goto
  <2>3. /\ r.held = m.held /\ r.counted = m.counted
        /\ r.holding = m.holding \/ r.held = {}
        /\ r.capture => m.capture \/ gate.capture
    BY <1>0, <1>8 DEF SessionState, Stage, Motion, ViewerLeaves, InputEnds, At, Goto
  <2>4. /\ r.pc \in Viewings => m.pc \in Viewings
        /\ r.pc # "none" => m.pc # "none" \/ sup = "listening"
    BY <1>0, <1>8 DEF SessionState, Viewings, Motion, ViewerLeaves, InputEnds, At, Goto
  <2> HIDE DEF r
  <2>5. QED
    BY <2>1, <2>2, <2>3, <2>4 DEF MovesOn
<1>9. CASE OpenCapture(s) /\ gate.capture
  <2> DEFINE r == [m EXCEPT !.pc = "captured", !.capture = TRUE]
  <2>1. sess' = [sess EXCEPT ![s] = r] /\ UNCHANGED <<seat, wm, server>>
    BY <1>0, <1>9 DEF OpenCapture, At
  <2>2. r \in SessionState /\ Stage(r)
    BY <1>0, <1>9 DEF SessionState, Stage, OpenCapture, At
  <2>3. /\ r.held = m.held /\ r.counted = m.counted
        /\ r.holding = m.holding \/ r.held = {}
        /\ r.capture => m.capture \/ gate.capture
    BY <1>0, <1>9 DEF SessionState, Stage, OpenCapture, At
  <2>4. /\ r.pc \in Viewings => m.pc \in Viewings
        /\ r.pc # "none" => m.pc # "none" \/ sup = "listening"
    BY <1>0, <1>9 DEF SessionState, Viewings, OpenCapture, At
  <2> HIDE DEF r
  <2>5. QED
    BY <2>1, <2>2, <2>3, <2>4 DEF MovesOn
<1>10. CASE HandshakeFails(s) \/ (OpenCapture(s) /\ ~gate.capture)
  <2>1. /\ sess' = [sess EXCEPT ![s] = NoSession]
        /\ UNCHANGED <<seat, wm, server>> /\ m.pc = "handshake"
    BY <1>10 DEF HandshakeFails, OpenCapture, At
  <2>2. /\ NoSession.held = m.held /\ NoSession.counted = m.counted
        /\ NoSession.held = {} /\ ~NoSession.capture /\ NoSession.pc = "none"
    BY <1>0, <2>1 DEF Stage, NoSession, SessionState
  <2>3. QED
    BY <1>0, <2>1, <2>2 DEF MovesOn, Viewings
<1>11. QED
  BY <1>1, <1>2, <1>3, <1>4, <1>5, <1>6, <1>7, <1>8, <1>9, <1>10 DEF Quiet

LEMMA QuietSession ==
  ASSUME IInv, NEW s \in Session, Quiet(s)
  PROVE  IInv'
  BY QuietMoves, SessionMoves

(***************************************************************************)
(* The gates.                                                              *)
(***************************************************************************)
\* f and g differ in who is streamed to at most.
SameButCapture(f, g) ==
  \A s \in Session : /\ g[s].held = f[s].held
                     /\ g[s].holding = f[s].holding
                     /\ g[s].counted = f[s].counted
                     /\ g[s].pc = f[s].pc

LEMMA BooksWithoutCapture ==
  ASSUME NEW f, NEW g, NEW cs, NEW n, Books(f, cs, n), SameButCapture(f, g)
  PROVE  Books(g, cs, n)
<1>1. \A s \in Session : Stage(g[s])
  BY DEF Books, SameButCapture, Stage
<1>2. QED
  BY <1>1, SameBooks DEF SameButCapture

LEMMA CapturesEnded ==
  ASSUME NEW f \in Sessions
  PROVE  /\ EndCaptures(f) \in Sessions
         /\ SameButCapture(f, EndCaptures(f))
         /\ \A s \in Session : ~EndCaptures(f)[s].capture
  BY DEF Sessions, EndCaptures, SameButCapture, SessionState

LEMMA AnnounceType ==
  ASSUME TypeOK, NEW remote \in BOOLEAN, Announce(remote)
  PROVE  notices' \in Seq(BOOLEAN)
<1>1. notices' = Append(notices, remote) \/ notices' = notices
  BY DEF Announce
<1>2. notices \in Seq(BOOLEAN)
  BY DEF TypeOK
<1>3. QED
  BY <1>1, <1>2

\* Injection lets go of everything it holds.
LEMMA EverythingReleased ==
  ASSUME SeatOK, ReleaseInjected(Code)
  PROVE  SeatOK' /\ injected' = {}
<1>1. SeatOK'
  BY ReleaseInjectedOK
<1>2. QED
  BY <1>1 DEF SeatOK, SeatTypeOK, ReleaseInjected

LEMMA SeatKept ==
  ASSUME SeatOK, UNCHANGED seat
  PROVE  SeatOK'
  BY DEF seat, SeatOK, SeatTypeOK, DownExact, HeldPhysically

\* What set_automation does to the seat and the streams, given the gates that
\* result (f: the sessions before the streams end).
LEMMA AutomationKeeps ==
  ASSUME IInv, NEW on \in BOOLEAN, Automation(on),
         gate' \in Gates, gate'.automation = on, gate'.capture = on
  PROVE  /\ SeatOK' /\ NothingWithoutConsent'
         /\ sess' \in Sessions /\ SameButCapture(sess, sess')
<1>0. sess \in Sessions /\ SeatOK /\ NothingWithoutConsent
  BY DEF IInv, TypeOK, Sessions
<1>1. CASE on
  <2>1. SeatOK'
    BY <1>0, <1>1, SeatKept DEF Automation
  <2>2. sess' = sess
    BY <1>1 DEF Automation
  <2>3. NothingWithoutConsent'
    BY <1>1 DEF NothingWithoutConsent
  <2>4. SameButCapture(sess, sess')
    BY <2>2 DEF SameButCapture
  <2>5. QED
    BY <1>0, <2>1, <2>2, <2>3, <2>4
<1>2. CASE ~on
  <2>1. SeatOK' /\ injected' = {}
    BY <1>0, <1>2, EverythingReleased DEF Automation
  <2>2. CASE gate.capture
    <3>1. sess' = EndCaptures(sess)
      BY <1>2, <2>2 DEF Automation
    <3>2. NothingWithoutConsent'
      BY <1>0, <2>1, <3>1, CapturesEnded DEF NothingWithoutConsent
    <3>3. QED
      BY <1>0, <2>1, <3>1, <3>2, CapturesEnded
  <2>3. CASE ~gate.capture
    <3>1. sess' = sess
      BY <1>2, <2>3 DEF Automation
    <3>2. NothingWithoutConsent'
      BY <1>0, <2>1, <2>3, <3>1 DEF NothingWithoutConsent
    <3>3. SameButCapture(sess, sess')
      BY <3>1 DEF SameButCapture
    <3>4. QED
      BY <1>0, <2>1, <3>1, <3>2, <3>3
  <2>4. QED
    BY <2>2, <2>3
<1>3. QED
  BY <1>1, <1>2

\* set_remote, and with it every way to turn the gate off.
LEMMA RemoteKeeps ==
  ASSUME IInv, NEW on \in BOOLEAN, NEW l \in Leases, Remote(on, l),
         Announce(gate'.remote), UNCHANGED <<registered, server>>
  PROVE  IInv'
<1>1. gate' \in Gates /\ gate'.automation = on /\ gate'.capture = on
  BY DEF Remote, Gates
<1>2. /\ SeatOK' /\ NothingWithoutConsent'
      /\ sess' \in Sessions /\ SameButCapture(sess, sess')
  BY <1>1, AutomationKeeps DEF Remote
<1>3. notices' \in Seq(BOOLEAN)
  BY <1>1, AnnounceType DEF IInv, Gates
<1>4. TypeOK'
  BY <1>1, <1>2, <1>3 DEF IInv, TypeOK, SeatOK, Remote, server, Sessions
<1>5. Books(sess', counts', viewers')
  BY <1>2, BooksWithoutCapture DEF IInv, server
<1>6. QED
  BY <1>2, <1>4, <1>5 DEF IInv

\* The user, scripts and the lease open and close the gates.
LEMMA GateStep ==
  ASSUME IInv, UserStep \/ LeaseEnds
  PROVE  IInv'
<1>0. NoLease \in Leases
  BY DEF NoLease, Leases
<1>1. ASSUME NEW on \in BOOLEAN, SetAutomation(on)
      PROVE  IInv'
  <2>1. gate' \in Gates /\ gate'.automation = on /\ gate'.capture = on
    BY <1>1 DEF SetAutomation, IInv, TypeOK, Gates
  <2>2. /\ SeatOK' /\ NothingWithoutConsent'
        /\ sess' \in Sessions /\ SameButCapture(sess, sess')
    BY <1>1, <2>1, AutomationKeeps DEF SetAutomation
  <2>3. TypeOK'
    BY <1>1, <2>1, <2>2 DEF IInv, TypeOK, SeatOK, SetAutomation, server, Sessions
  <2>4. Books(sess', counts', viewers')
    BY <1>1, <2>2, BooksWithoutCapture DEF IInv, SetAutomation, server
  <2>5. QED
    BY <2>2, <2>3, <2>4 DEF IInv
<1>2. ASSUME NEW on \in BOOLEAN, SetScreenCapture(on)
      PROVE  IInv'
  <2>0. sess \in Sessions /\ SeatOK /\ NothingWithoutConsent
    BY DEF IInv, TypeOK, Sessions
  <2>1. /\ gate' \in Gates /\ gate'.capture = on
        /\ gate'.automation = gate.automation
    BY <1>2 DEF SetScreenCapture, IInv, TypeOK, Gates
  <2>2. SeatOK' /\ injected' = injected
    BY <1>2, <2>0, SeatKept DEF SetScreenCapture, seat
  <2>3. /\ sess' \in Sessions /\ SameButCapture(sess, sess')
        /\ ~on => \A s \in Session : ~sess'[s].capture
    BY <1>2, <2>0, CapturesEnded DEF SetScreenCapture, SameButCapture
  <2>4. NothingWithoutConsent'
    BY <2>0, <2>1, <2>2, <2>3 DEF NothingWithoutConsent
  <2>5. TypeOK'
    BY <1>2, <2>1, <2>2, <2>3
       DEF IInv, TypeOK, SeatOK, SetScreenCapture, server, Sessions
  <2>6. Books(sess', counts', viewers')
    BY <1>2, <2>3, BooksWithoutCapture DEF IInv, SetScreenCapture, server
  <2>7. QED
    BY <2>2, <2>4, <2>5, <2>6 DEF IInv
<1>3. ASSUME NEW limit \in BOOLEAN, NEW idle \in BOOLEAN, NEW armed \in BOOLEAN,
             SetRemoteOn(limit, idle, armed)
      PROVE  IInv'
  <2>1. \/ \E l \in Leases : Remote(TRUE, l)
        \/ Remote(FALSE, NoLease)
    BY <1>0, <1>3 DEF SetRemoteOn, TurnOff, Leases
  <2>2. QED
    BY <1>0, <1>3, <2>1, RemoteKeeps DEF SetRemoteOn
<1>4. CASE SetRemoteOff \/ LeaseEnds
  <2>1. /\ Remote(FALSE, NoLease) /\ Announce(FALSE)
        /\ UNCHANGED <<registered, server>>
    BY <1>4 DEF SetRemoteOff, LeaseEnds, TurnOff
  <2>2. gate' = [remote |-> FALSE, automation |-> FALSE, capture |-> FALSE]
    BY <2>1 DEF Remote
  <2>3. gate'.remote = FALSE
    BY <2>2
  <2>4. QED
    BY <1>0, <2>1, <2>3, RemoteKeeps
<1>5. QED
  BY <1>1, <1>2, <1>3, <1>4 DEF UserStep

(***************************************************************************)
(* Reports of the viewer count.                                            *)
(***************************************************************************)
\* The WM's side of a report, whether its timer can be armed or not; f are the
\* sessions as the server has them then.
LEMMA ReportKeeps ==
  ASSUME TypeOK, SeatOK, NothingWithoutConsent,
         NEW n \in Nat, NEW armed \in BOOLEAN, NEW f \in Sessions,
         \A s \in Session : f[s].capture => sess[s].capture,
         Report(n, armed, f)
  PROVE  /\ gate' \in Gates /\ lease' \in Leases /\ shown' \in Nat
         /\ notices' \in Seq(BOOLEAN)
         /\ SeatOK' /\ NothingWithoutConsent'
         /\ sess' \in Sessions /\ SameButCapture(f, sess')
<1>0. SameButCapture(f, f)
  BY DEF SameButCapture
<1>1. ViewersChanged(n) \in Leases
  BY DEF ViewersChanged, TypeOK, Leases, HasLease
<1>2. CASE /\ shown' = n
           /\ lease' = IF n # shown THEN ViewersChanged(n) ELSE lease
           /\ sess' = f
           /\ UNCHANGED <<gate, notices, seat>>
  <2>1. SeatOK' /\ injected' = injected
    BY <1>2, SeatKept DEF seat
  <2>2. NothingWithoutConsent'
    BY <1>2, <2>1 DEF NothingWithoutConsent
  <2>3. QED
    BY <1>0, <1>1, <1>2, <2>1, <2>2 DEF TypeOK
<1>3. CASE /\ gate' = [remote |-> FALSE, automation |-> FALSE,
                       capture |-> FALSE]
           /\ lease' = NoLease
           /\ shown' = 0
           /\ ReleaseInjected(Code)
           /\ sess' = IF gate.capture THEN EndCaptures(f) ELSE f
           /\ Announce(FALSE)
  <2>1. SeatOK' /\ injected' = {}
    BY <1>3, EverythingReleased
  <2>2. gate' \in Gates /\ lease' \in Leases /\ notices' \in Seq(BOOLEAN)
    BY <1>3, AnnounceType DEF Gates, Leases, NoLease
  <2>3. /\ sess' \in Sessions /\ SameButCapture(f, sess')
        /\ \A s \in Session : ~sess'[s].capture
    <3>1. CASE gate.capture
      BY <1>3, <3>1, CapturesEnded
    <3>2. CASE ~gate.capture
      BY <1>0, <1>3, <3>2 DEF NothingWithoutConsent
    <3>3. QED
      BY <3>1, <3>2
  <2>4. NothingWithoutConsent'
    BY <2>1, <2>3 DEF NothingWithoutConsent
  <2>5. QED
    BY <1>3, <2>1, <2>2, <2>3, <2>4
<1>4. QED
  BY <1>2, <1>3 DEF Report

\* A viewer joins the count.
LEMMA JoinStep ==
  ASSUME IInv, NEW s \in Session, NEW armed \in BOOLEAN, Join(s, armed)
  PROVE  IInv'
<1> DEFINE f == [sess EXCEPT ![s].pc = "joined", ![s].counted = TRUE]
           g == sess'
<1>0. /\ TypeOK /\ SeatOK /\ NothingWithoutConsent /\ viewers + 1 \in Nat
      /\ sess[s] \in SessionState /\ sess[s].pc = "added" /\ Stage(sess[s])
  BY DEF IInv, TypeOK, Books, Join, At
<1>1. f \in Sessions /\ \A x \in Session : f[x].capture => sess[x].capture
  BY <1>0 DEF TypeOK, Sessions, SessionState
<1>2. /\ gate' \in Gates /\ lease' \in Leases /\ shown' \in Nat
      /\ notices' \in Seq(BOOLEAN) /\ SeatOK' /\ NothingWithoutConsent'
      /\ g \in Sessions /\ SameButCapture(f, g)
  BY <1>0, <1>1, ReportKeeps DEF Join
<1>3. TypeOK'
  BY <1>0, <1>2 DEF TypeOK, SeatOK, Join, Sessions
<1>4. Books(f, counts, viewers + 1)
  <2>1. \A c \in Code : HoldersIn(f, c) = HoldersIn(sess, c)
    BY <1>0 DEF HoldersIn, TypeOK, Stage
  <2>2. /\ CountedIn(f) = CountedIn(sess) \cup {s}
        /\ s \notin CountedIn(sess)
    BY <1>0 DEF CountedIn, TypeOK, Stage
  <2>3. Cardinality(CountedIn(f)) = viewers + 1
    BY <2>2, CountedFinite, FS_AddElement DEF IInv, Books
  <2>4. \A x \in Session : Stage(f[x])
    BY <1>0 DEF IInv, Books, TypeOK, Stage
  <2>5. QED
    BY <2>1, <2>3, <2>4 DEF IInv, Books
<1>5. Books(g, counts', viewers')
  BY <1>2, <1>4, BooksWithoutCapture DEF Join
<1>6. QED
  BY <1>2, <1>3, <1>5 DEF IInv

\* A session leaves, and with it the count if it is still counted.
LEMMA LeaveStep ==
  ASSUME IInv, NEW s \in Session, NEW armed \in BOOLEAN, Leave(s, armed)
  PROVE  IInv'
<1> DEFINE f == [sess EXCEPT ![s] = NoSession]
           g == sess'
<1>0. /\ TypeOK /\ SeatOK /\ NothingWithoutConsent
      /\ sess[s] \in SessionState /\ sess[s].pc = "leaving" /\ Stage(sess[s])
  BY DEF IInv, TypeOK, Books, Leave, At
<1>1. f \in Sessions /\ \A x \in Session : f[x].capture => sess[x].capture
  BY <1>0 DEF TypeOK, Sessions, SessionState, NoSession
<1>2. \A c \in Code : HoldersIn(f, c) = HoldersIn(sess, c)
  BY <1>0 DEF HoldersIn, TypeOK, Stage, NoSession
<1>3. \A x \in Session : Stage(f[x])
  BY <1>0 DEF IInv, Books, TypeOK, Stage, NoSession
<1>4. CASE sess[s].counted
  <2>1. /\ CountedIn(f) = CountedIn(sess) \ {s}
        /\ s \in CountedIn(sess)
    BY <1>0, <1>4 DEF CountedIn, TypeOK, NoSession
  <2>2. Cardinality(CountedIn(f)) = viewers - 1 /\ viewers - 1 \in Nat
    <3>1. /\ IsFiniteSet(CountedIn(sess))
          /\ viewers = Cardinality(CountedIn(sess))
      BY CountedFinite DEF IInv, Books
    <3>2. Cardinality(CountedIn(sess) \ {s}) = Cardinality(CountedIn(sess)) - 1
      BY <2>1, <3>1, FS_RemoveElement
    <3>3. Cardinality(CountedIn(f)) \in Nat
      BY CountedFinite
    <3>4. QED
      BY <2>1, <3>1, <3>2, <3>3
  <2>3. Report(viewers - 1, armed, f)
    BY <1>4 DEF Leave
  <2>4. /\ gate' \in Gates /\ lease' \in Leases /\ shown' \in Nat
        /\ notices' \in Seq(BOOLEAN) /\ SeatOK' /\ NothingWithoutConsent'
        /\ g \in Sessions /\ SameButCapture(f, g)
    BY <1>0, <1>1, <2>2, <2>3, ReportKeeps
  <2>5. Books(f, counts, viewers - 1)
    BY <1>2, <1>3, <2>2 DEF IInv, Books
  <2>6. Books(g, counts', viewers')
    BY <1>4, <2>4, <2>5, BooksWithoutCapture DEF Leave
  <2>7. TypeOK'
    BY <1>0, <1>4, <2>2, <2>4 DEF TypeOK, SeatOK, Leave, Sessions
  <2>8. QED
    BY <2>4, <2>6, <2>7 DEF IInv
<1>5. CASE ~sess[s].counted
  <2>1. /\ g = f /\ SeatOK'
        /\ UNCHANGED <<viewers, counts, gate, injected>>
    BY <1>0, <1>5, SeatKept DEF Leave, seat
  <2>2. CountedIn(f) = CountedIn(sess)
    BY <1>0, <1>5 DEF CountedIn, TypeOK, NoSession
  <2>3. Books(g, counts', viewers')
    BY <1>2, <1>3, <2>1, <2>2 DEF IInv, Books
  <2>4. NothingWithoutConsent'
    BY <1>0, <1>1, <2>1 DEF NothingWithoutConsent
  <2>5. TypeOK'
    BY <1>0, <1>1, <1>5, <2>1 DEF TypeOK, SeatOK, Leave, Sessions
  <2>6. QED
    BY <2>1, <2>3, <2>4, <2>5 DEF IInv
<1>6. QED
  BY <1>4, <1>5

(***************************************************************************)
(* Keys.                                                                   *)
(***************************************************************************)
\* One holder more or less of the code c, and no other code's holders change.
LEMMA OneHolder ==
  ASSUME IInv, NEW s \in Session, NEW c \in Code, NEW pressed \in BOOLEAN,
         sess[s].holding, pressed # (c \in sess[s].held),
         \A x \in Session : x # s => sess'[x] = sess[x],
         sess'[s].holding,
         sess'[s].held = IF pressed THEN sess[s].held \cup {c}
                         ELSE sess[s].held \ {c},
         counts' = [counts EXCEPT ![c] = IF pressed THEN @ + 1 ELSE @ - 1]
  PROVE  \A d \in Code : /\ counts'[d] = Cardinality(HoldersIn(sess', d))
                         /\ counts'[d] \in Nat
<1>0. /\ counts \in [Code -> Nat]
      /\ \A d \in Code : counts[d] = Cardinality(HoldersIn(sess, d))
  BY DEF IInv, TypeOK, Books
<1>1. \A d \in Code \ {c} : HoldersIn(sess', d) = HoldersIn(sess, d)
  BY DEF HoldersIn
<1>2. CASE pressed
  <2>1. HoldersIn(sess', c) = HoldersIn(sess, c) \cup {s} /\ s \notin HoldersIn(sess, c)
    BY <1>2 DEF HoldersIn
  <2>2. IsFiniteSet(HoldersIn(sess, c))
    BY HoldersFinite
  <2>3. Cardinality(HoldersIn(sess, c) \cup {s}) = Cardinality(HoldersIn(sess, c)) + 1
    BY <2>1, <2>2, FS_AddElement
  <2>4. Cardinality(HoldersIn(sess', c)) = counts[c] + 1
    BY <1>0, <2>1, <2>3
  <2>5. QED
    BY <1>0, <1>1, <1>2, <2>4
<1>3. CASE ~pressed
  <2>1. HoldersIn(sess', c) = HoldersIn(sess, c) \ {s} /\ s \in HoldersIn(sess, c)
    BY <1>3 DEF HoldersIn
  <2>2. Cardinality(HoldersIn(sess, c) \ {s}) = Cardinality(HoldersIn(sess, c)) - 1
    BY <2>1, HoldersFinite, FS_RemoveElement
  <2>3. Cardinality(HoldersIn(sess', c)) \in Nat
    BY HoldersFinite
  <2>4. QED
    BY <1>0, <1>1, <1>3, <2>1, <2>2, <2>3
<1>4. QED
  BY <1>2, <1>3

\* A key changes what its own session holds. That session is in its input
\* loop, or on its way out of it.
KeyHeld(s, c, pressed) ==
  /\ sess' \in Sessions
  /\ \A x \in Session : x # s => sess'[x] = sess[x]
  /\ sess'[s].held = IF pressed THEN sess[s].held \cup {c}
                     ELSE sess[s].held \ {c}
  /\ sess'[s].pc \in {"input", "stopping"}
  /\ sess'[s].holding = sess[s].holding
  /\ sess'[s].counted = sess[s].counted
  /\ sess'[s].capture = sess[s].capture

LEMMA KeyMoves ==
  ASSUME IInv, NEW s \in Session, NEW c \in Code, NEW pressed \in BOOLEAN,
         Key(s, c, pressed)
  PROVE  KeyHeld(s, c, pressed)
<1> DEFINE held == IF pressed THEN sess[s].held \cup {c} ELSE sess[s].held \ {c}
<1>0. sess \in Sessions /\ sess[s] \in SessionState /\ held \subseteq Code
  BY DEF IInv, TypeOK, Sessions, SessionState
<1>1. PICK pc \in {"input", "stopping"} :
        sess' = [sess EXCEPT ![s] = [sess[s] EXCEPT !.held = held, !.pc = pc]]
  <2>1. sess' \in {[sess EXCEPT ![s].held = held],
                   [[sess EXCEPT ![s].held = held] EXCEPT ![s].pc = "stopping"]}
    BY <1>0 DEF Key, Sessions, SessionState
  <2>2. [sess[s] EXCEPT !.held = held] =
          [sess[s] EXCEPT !.held = held, !.pc = "input"]
    BY <1>0 DEF Key, SessionState
  <2>3. QED
    BY <1>0, <2>1, <2>2 DEF Sessions
<1>2. /\ sess' \in Sessions
      /\ \A x \in Session : x # s => sess'[x] = sess[x]
      /\ sess'[s] = [sess[s] EXCEPT !.held = held, !.pc = pc]
  BY <1>0, <1>1 DEF Sessions, SessionState
<1>3. QED
  BY <1>0, <1>2 DEF KeyHeld, SessionState

LEMMA KeyStep ==
  ASSUME IInv, NEW s \in Session, NEW c \in Code, NEW pressed \in BOOLEAN,
         Key(s, c, pressed)
  PROVE  IInv'
<1>0. SeatOK /\ NothingWithoutConsent /\ Stage(sess[s])
  BY DEF IInv, Books
<1>2. /\ sess' \in Sessions
      /\ \A x \in Session : x # s => sess'[x] = sess[x]
      /\ sess'[s].held = IF pressed THEN sess[s].held \cup {c}
                         ELSE sess[s].held \ {c}
      /\ sess'[s].pc \in {"input", "stopping"}
      /\ sess'[s].holding = sess[s].holding
      /\ sess'[s].counted = sess[s].counted
      /\ sess'[s].capture = sess[s].capture
  BY KeyMoves DEF KeyHeld
<1>3. \A d \in Code : /\ counts'[d] = Cardinality(HoldersIn(sess', d))
                      /\ counts'[d] \in Nat
  <2>2. sess[s].holding /\ pressed # (c \in sess[s].held)
    BY DEF Key
  <2>3. counts' = [counts EXCEPT ![c] = IF pressed THEN @ + 1 ELSE @ - 1]
    BY DEF Key
  <2>4. QED
    BY <1>2, <2>2, <2>3, OneHolder
<1>4. CountedIn(sess') = CountedIn(sess)
  BY <1>2 DEF CountedIn
<1>5. \A x \in Session : Stage(sess'[x])
  <2>2. sess[s].pc = "input"
    BY DEF Key
  <2>3. Stage(sess'[s])
    BY <1>0, <1>2, <2>2 DEF Stage
  <2>4. QED
    BY <1>2, <2>3 DEF IInv, Books
<1>6. Books(sess', counts', viewers')
  BY <1>3, <1>4, <1>5 DEF IInv, Books, Key
<1>7. SeatOK' /\ (~gate.automation => injected' = injected)
  BY <1>0, SeatKept, InjectedNoteOK DEF Key, seat
<1>8. NothingWithoutConsent'
  <2>2. \A x \in Session : sess'[x].capture = sess[x].capture
    BY <1>2
  <2>3. gate' = gate
    BY DEF Key, wm
  <2>4. QED
    BY <1>0, <1>7, <2>2, <2>3 DEF NothingWithoutConsent
<1>9. TypeOK'
  <2>1. counts' \in [Code -> Nat]
    BY <1>3 DEF Key, IInv, TypeOK
  <2>2. QED
    BY <1>2, <1>7, <2>1 DEF IInv, TypeOK, SeatOK, Key, wm, Sessions
<1>10. QED
  BY <1>6, <1>7, <1>8, <1>9 DEF IInv

\* A session that ends lets go of everything it holds.
LEMMA EndHoldsStep ==
  ASSUME IInv, NEW s \in Session, EndHolds(s)
  PROVE  IInv'
<1> DEFINE r == [sess[s] EXCEPT !.pc = "leaving", !.stopped = TRUE, !.held = {}]
<1>0. /\ sess \in Sessions /\ sess[s] \in SessionState /\ SeatOK
      /\ NothingWithoutConsent /\ sess[s].pc = "stopping"
      /\ counts \in [Code -> Nat] /\ Stage(sess[s])
      /\ \A d \in Code : counts[d] = Cardinality(HoldersIn(sess, d))
  BY DEF IInv, TypeOK, Sessions, Books, EndHolds
<1>1. /\ r \in SessionState /\ sess' \in Sessions /\ sess'[s] = r
      /\ \A x \in Session : x # s => sess'[x] = sess[x]
  BY <1>0 DEF EndHolds, Sessions, SessionState
<1>2. ASSUME NEW d \in Code
      PROVE  counts'[d] = Cardinality(HoldersIn(sess', d)) /\ counts'[d] \in Nat
  <2>1. HoldersIn(sess', d) = HoldersIn(sess, d) \ {s}
    BY <1>0, <1>1 DEF HoldersIn, SessionState
  <2>2. Cardinality(HoldersIn(sess, d) \ {s}) =
          IF s \in HoldersIn(sess, d) THEN counts[d] - 1 ELSE counts[d]
    BY <1>0, HoldersFinite, FS_RemoveElement
  <2>3. counts'[d] = IF s \in HoldersIn(sess, d) THEN counts[d] - 1 ELSE counts[d]
    BY DEF EndHolds, HoldersIn
  <2>4. Cardinality(HoldersIn(sess', d)) \in Nat
    BY HoldersFinite
  <2>5. QED
    BY <2>1, <2>2, <2>3, <2>4
<1>3. CountedIn(sess') = CountedIn(sess)
  BY <1>0, <1>1 DEF CountedIn, SessionState
<1>4. \A x \in Session : Stage(sess'[x])
  <2>1. /\ sess'[s].pc = "leaving" /\ sess'[s].held = {}
    BY <1>0, <1>1 DEF SessionState
  <2>2. Stage(sess'[s])
    BY <2>1 DEF Stage
  <2>3. QED
    BY <1>1, <2>2 DEF IInv, Books
<1>5. Books(sess', counts', viewers')
  BY <1>2, <1>3, <1>4 DEF IInv, Books, EndHolds
<1>6. SeatOK' /\ injected' \subseteq injected
  BY <1>0, SeatKept, ReleaseInjectedOK DEF EndHolds, seat, ReleaseInjected
<1>7. NothingWithoutConsent'
  BY <1>0, <1>1, <1>6 DEF NothingWithoutConsent, EndHolds, wm, SessionState
<1>8. TypeOK'
  <2>1. counts' \in [Code -> Nat]
    BY <1>2 DEF EndHolds
  <2>2. QED
    BY <1>1, <1>6, <2>1 DEF IInv, TypeOK, SeatOK, EndHolds, wm, Sessions
<1>9. QED
  BY <1>5, <1>6, <1>7, <1>8 DEF IInv

(***************************************************************************)
(* The supervisor, the event reader and the server's life.                 *)
(***************************************************************************)
\* Steps that leave the seat, the gates, the streams and the books alone.
LEMMA BooksUntouched ==
  ASSUME IInv, UNCHANGED <<seat, gate, lease, shown, viewers, counts>>,
         registered' \in BOOLEAN, enabled' \in BOOLEAN,
         notices' \in Seq(BOOLEAN),
         sup' \in {"down", "waiting", "listening", "closed", "resetting",
                   "rehold", "ending", "crashed"},
         sess' \in Sessions, SameButCapture(sess, sess'),
         \A s \in Session : sess'[s].capture = sess[s].capture
  PROVE  IInv'
<1>1. SeatOK' /\ injected' = injected
  BY SeatKept DEF IInv, seat
<1>2. TypeOK'
  BY <1>1 DEF IInv, TypeOK, SeatOK, Sessions
<1>3. NothingWithoutConsent'
  BY <1>1 DEF IInv, NothingWithoutConsent
<1>4. Books(sess', counts', viewers')
  BY BooksWithoutCapture DEF IInv
<1>5. QED
  BY <1>1, <1>2, <1>3, <1>4 DEF IInv

LEMMA QuietServer ==
  ASSUME IInv,
         ReadNotice \/ Bind \/ CloseListener \/ SeeGate \/ EndAll \/ Register
                    \/ Crash
  PROVE  IInv'
<1>0. /\ sess \in Sessions /\ SameButCapture(sess, sess)
      /\ registered \in BOOLEAN /\ enabled \in BOOLEAN
      /\ notices \in Seq(BOOLEAN) /\ gate.remote \in BOOLEAN
  BY DEF IInv, TypeOK, Gates, Sessions, SameButCapture
<1>1. CASE ReadNotice
  <2>1. enabled' \in BOOLEAN /\ notices' \in Seq(BOOLEAN)
    BY <1>0, <1>1, HeadTailProperties DEF ReadNotice
  <2>2. QED
    BY <1>0, <1>1, <2>1, BooksUntouched DEF ReadNotice, IInv, TypeOK
<1>2. CASE Bind \/ CloseListener \/ SeeGate \/ Crash
  <2>1. sup' \in {"waiting", "listening", "closed", "resetting", "crashed"}
    BY <1>2 DEF Bind, CloseListener, SeeGate, Crash, Supervise
  <2>2. UNCHANGED <<seat, wm, enabled, viewers, counts, sess>>
    BY <1>2 DEF Bind, CloseListener, SeeGate, Crash, Supervise
  <2>3. QED
    BY <1>0, <2>1, <2>2, BooksUntouched DEF wm
<1>3. CASE EndAll
  <2>1. /\ sess' \in Sessions /\ SameButCapture(sess, sess')
        /\ \A s \in Session : sess'[s].capture = sess[s].capture
    <3>1. \A r \in SessionState : LET q == [r EXCEPT !.stopped = TRUE]
            IN /\ q \in SessionState /\ q.capture = r.capture /\ q.pc = r.pc
               /\ q.held = r.held /\ q.holding = r.holding /\ q.counted = r.counted
      BY DEF SessionState
    <3>2. /\ sess' = [s \in Session |-> sess'[s]]
          /\ \A s \in Session :
               sess'[s] = [sess[s] EXCEPT !.stopped = TRUE] \/ sess'[s] = sess[s]
      BY <1>3 DEF EndAll
    <3>3. QED
      BY <1>0, <3>1, <3>2 DEF Sessions, SameButCapture
  <2>2. QED
    BY <1>0, <1>3, <2>1, BooksUntouched DEF EndAll, Supervise, wm
<1>4. CASE Register
  BY <1>0, <1>4, BooksUntouched DEF Register
<1>5. QED
  BY <1>1, <1>2, <1>3, <1>4

\* Viewers::reset counts nobody, and leaves nobody to be counted out.
LEMMA ResetViewersStep ==
  ASSUME IInv, NEW armed \in BOOLEAN, ResetViewers(armed)
  PROVE  IInv'
<1> DEFINE f == [s \in Session |-> [sess[s] EXCEPT !.counted = FALSE]]
           g == sess'
<1>0. TypeOK /\ SeatOK /\ NothingWithoutConsent /\ sess \in Sessions
  BY DEF IInv, TypeOK, Sessions
<1>1. f \in Sessions /\ \A s \in Session : f[s].capture => sess[s].capture
  BY <1>0 DEF Sessions, SessionState
<1>2. /\ gate' \in Gates /\ lease' \in Leases /\ shown' \in Nat
      /\ notices' \in Seq(BOOLEAN) /\ SeatOK' /\ NothingWithoutConsent'
      /\ g \in Sessions /\ SameButCapture(f, g)
  BY <1>0, <1>1, ReportKeeps DEF ResetViewers
<1>3. TypeOK'
  BY <1>0, <1>2 DEF TypeOK, SeatOK, ResetViewers, Supervise, Sessions
<1>4. Books(f, counts, 0)
  <2>1. \A c \in Code : HoldersIn(f, c) = HoldersIn(sess, c)
    BY <1>0 DEF HoldersIn, Sessions, SessionState
  <2>2. CountedIn(f) = {}
    BY <1>0 DEF CountedIn, Sessions, SessionState
  <2>3. \A s \in Session : Stage(f[s])
    BY <1>0 DEF IInv, Books, Stage, Sessions, SessionState
  <2>4. QED
    BY <2>1, <2>2, <2>3, FS_EmptySet DEF IInv, Books
<1>5. Books(g, counts', viewers')
  BY <1>2, <1>4, BooksWithoutCapture DEF ResetViewers
<1>6. QED
  BY <1>2, <1>3, <1>5 DEF IInv

\* Holds::reset starts a generation that nobody holds anything in.
LEMMA ResetHoldsStep ==
  ASSUME IInv, ResetHolds
  PROVE  IInv'
<1>0. sess \in Sessions
  BY DEF IInv, TypeOK, Sessions
<1>1. SeatOK' /\ injected' = injected
  BY SeatKept DEF IInv, ResetHolds, seat
<1>2. sess' \in Sessions
  <2>1. \A r \in SessionState : [r EXCEPT !.holding = FALSE] \in SessionState
    BY DEF SessionState
  <2>2. QED
    BY <1>0, <2>1 DEF ResetHolds, Sessions
<1>3. TypeOK'
  <2>1. /\ UNCHANGED <<gate, lease, shown, registered, notices, enabled, viewers>>
        /\ sup' = "ending" /\ counts' \in [Code -> Nat]
    BY DEF ResetHolds, Supervise, wm
  <2>2. QED
    BY <1>1, <1>2, <2>1 DEF IInv, TypeOK, SeatOK, Sessions
<1>4. NothingWithoutConsent'
  BY <1>0, <1>1
     DEF IInv, NothingWithoutConsent, ResetHolds, wm, Sessions, SessionState
<1>5. Books(sess', counts', viewers')
  <2>1. \A c \in Code : HoldersIn(sess', c) = {}
    BY <1>0 DEF HoldersIn, ResetHolds, Sessions, SessionState
  <2>2. CountedIn(sess') = CountedIn(sess)
    BY <1>0 DEF CountedIn, ResetHolds, Sessions, SessionState
  <2>3. \A s \in Session : Stage(sess'[s])
    BY <1>0 DEF IInv, Books, Stage, ResetHolds, Sessions, SessionState
  <2>4. QED
    BY <2>1, <2>2, <2>3, FS_EmptySet DEF IInv, Books, ResetHolds
<1>6. QED
  BY <1>1, <1>3, <1>4, <1>5 DEF IInv

\* The WM drops a dead server, and with it every session there was.
LEMMA DropServerStep ==
  ASSUME IInv, DropServer
  PROVE  IInv'
<1>0. NoSession \in SessionState /\ NoLease \in Leases
  BY DEF NoSession, SessionState, NoLease, Leases
<1>1. /\ SeatOK' /\ gate' \in Gates /\ lease' \in Leases
      /\ ~gate'.automation => injected' = {}
  <2>1. CASE gate.remote
    <3>1. SeatOK /\ ReleaseInjected(Code) /\ lease' = NoLease
      BY <2>1 DEF IInv, DropServer, seat
    <3>2. gate' = [remote |-> FALSE, automation |-> FALSE, capture |-> FALSE]
      BY <2>1 DEF DropServer
    <3>3. gate' \in Gates
      BY <3>2 DEF Gates
    <3>4. QED
      BY <1>0, <3>1, <3>3, EverythingReleased
  <2>2. CASE ~gate.remote
    <3>1. SeatOK' /\ injected' = injected
      BY <2>2, SeatKept DEF IInv, DropServer, seat
    <3>2. QED
      BY <2>2, <3>1 DEF IInv, TypeOK, NothingWithoutConsent, DropServer
  <2>3. QED
    BY <2>1, <2>2
<1>2. TypeOK'
  <2>1. sess' \in [Session -> SessionState] /\ counts' \in [Code -> Nat]
    BY <1>0 DEF DropServer
  <2>2. notices' \in Seq(BOOLEAN)
    BY DEF DropServer
  <2>3. QED
    BY <1>1, <2>1, <2>2 DEF TypeOK, SeatOK, DropServer
<1>3. NothingWithoutConsent'
  BY <1>1 DEF NothingWithoutConsent, DropServer, NoSession
<1>4. Books(sess', counts', viewers')
  <2>1. \A c \in Code : HoldersIn(sess', c) = {}
    BY DEF HoldersIn, DropServer, NoSession
  <2>2. CountedIn(sess') = {}
    BY DEF CountedIn, DropServer, NoSession
  <2>3. \A s \in Session : Stage(sess'[s])
    BY DEF Stage, DropServer, NoSession
  <2>4. QED
    BY <2>1, <2>2, <2>3, FS_EmptySet DEF Books, DropServer
<1>5. QED
  BY <1>1, <1>2, <1>3, <1>4 DEF IInv

\* The physical devices type on.
LEMMA LocalInputStep ==
  ASSUME IInv, LocalInput
  PROVE  IInv'
<1>0. SeatOK
  BY DEF IInv
<1>1. SeatOK' /\ injected' = injected
  BY <1>0, PhysicalNoteOK, ReleaseDeviceOK
     DEF LocalInput, PhysicalStep, PhysicalNote, ReleaseDevice
<1>2. TypeOK'
  BY <1>1 DEF IInv, TypeOK, SeatOK, LocalInput, wm, server
<1>3. NothingWithoutConsent'
  BY <1>1 DEF IInv, NothingWithoutConsent, LocalInput, wm
<1>4. QED
  BY <1>1, <1>2, <1>3 DEF IInv, LocalInput, server

LEMMA NextStep == IInv /\ [Next]_vars => IInv'
<1> SUFFICES ASSUME IInv, [Next]_vars
             PROVE  IInv'
  OBVIOUS
<1>1. CASE LocalInput
  BY <1>1, LocalInputStep
<1>2. CASE UserStep \/ LeaseEnds
  BY <1>2, GateStep
<1>3. CASE Register \/ Crash
  BY <1>3, QuietServer
<1>4. CASE DropServer
  BY <1>4, DropServerStep
<1>5. CASE SupervisorStep
  BY <1>5, QuietServer, ResetViewersStep, ResetHoldsStep DEF SupervisorStep
<1>6. ASSUME NEW s \in Session, SessionStep(s) \/ ViewerStep(s)
      PROVE  IInv'
  <2>1. CASE \E armed \in BOOLEAN : Join(s, armed) \/ Leave(s, armed)
    BY <2>1, JoinStep, LeaveStep
  <2>2. CASE \E c \in Code, pressed \in BOOLEAN : Key(s, c, pressed)
    BY <2>2, KeyStep
  <2>3. CASE EndHolds(s)
    BY <2>3, EndHoldsStep
  <2>4. QED
    BY <1>6, <2>1, <2>2, <2>3, QuietSession DEF SessionStep, ViewerStep, Quiet
<1>7. CASE UNCHANGED vars
  <2>1. SameButCapture(sess, sess)
    BY DEF SameButCapture
  <2>2. QED
    BY <1>7, <2>1, BooksUntouched
       DEF vars, wm, server, IInv, TypeOK, Sessions
<1>8. QED
  BY <1>1, <1>2, <1>3, <1>4, <1>5, <1>6, <1>7 DEF Next

LEMMA Invariant == Spec => []IInv
  BY RemoteInit, NextStep, PTL DEF Spec

(***************************************************************************)
(* The theorems.                                                           *)
(***************************************************************************)
\* Every variable keeps its type; in particular no count ever goes below zero,
\* though sessions of an old generation count themselves out after a reset.
THEOREM RemoteTypeCorrect == Spec => []TypeOK
<1>1. IInv => TypeOK
  BY DEF IInv
<1>2. QED
  BY <1>1, Invariant, PTL

\* Whatever the server, its viewers and the devices do, the seat has a key down
\* exactly while a device or raw injection holds it (SeatHeld, inject.rs).
THEOREM RemoteSeatExact == Spec => []DownExact
<1>1. IInv => DownExact
  BY DEF IInv, SeatOK
<1>2. QED
  BY <1>1, Invariant, PTL

\* With the automation gate closed nothing injected is held, and with the
\* capture gate closed nobody is streamed to, for every way a gate is closed:
\* by the user, a script, the lease, a timer that cannot be armed, or the
\* server's death (state.rs, set_automation and set_screen_capture).
THEOREM NothingOutlivesConsent == Spec => []NothingWithoutConsent
<1>1. IInv => NothingWithoutConsent
  BY DEF IInv
<1>2. QED
  BY <1>1, Invariant, PTL

\* Each code is counted once for every session of the current generation that
\* holds it, through ends and resets (holds.rs).
THEOREM CountsAgree == Spec => []CountsExact
<1>1. IInv => CountsExact
  BY DEF IInv, Books, CountsExact, Holders, HoldersIn
<1>2. QED
  BY <1>1, Invariant, PTL

(***************************************************************************)
(* Sharing with a patient user: nobody reopens the remote gate before the  *)
(* server has caught up with it being closed. Everything else may happen.  *)
(*                                                                         *)
(* Then the server is never behind an open gate except where it has not    *)
(* read of it at all, and no session is alive: the supervisor is in its    *)
(* accept loop, and neither viewers nor holds are reset while the gate is  *)
(* open. The two processes' counts agree because of that. If moreover      *)
(* scripts leave alone the gates it is coupled to, what is injected is     *)
(* what sessions hold.                                                     *)
(***************************************************************************)
Patient == "quick" \notin Env
Alone == "decoupled" \notin Env

\* What the server will take the gate for once it has read every notice.
Last(e, ns) == (<<e>> \o ns)[Len(ns) + 1]

Coupled == Alone => gate.automation = gate.remote /\ gate.capture = gate.remote

Told ==
  /\ registered = (sup # "down")
  /\ sup # "down" => Last(enabled, notices) = gate.remote

Behind ==
  /\ ~enabled /\ notices = <<TRUE>> /\ sup \in {"waiting", "crashed"}
  /\ \A s \in Session : ~Alive(s)

Serving ==
  /\ sup \in {"waiting", "listening", "closed", "crashed"}
  /\ (enabled /\ notices = <<>>) \/ Behind
  /\ \A s \in Session : sess[s].pc \in Viewings => sess[s].counted
  /\ Alone => injected = {c \in Code : HoldersIn(sess, c) # {}}

ShareInv ==
  /\ Coupled /\ Told
  /\ gate.remote => Serving
  /\ shown = viewers \/ (~gate.remote /\ shown = 0)

LEMMA LastNews ==
  ASSUME NEW e \in BOOLEAN, NEW ns \in Seq(BOOLEAN), NEW b \in BOOLEAN
  PROVE  /\ Last(e, <<>>) = e
         /\ Last(e, Append(ns, b)) = b
         /\ ns # <<>> => Last(Head(ns), Tail(ns)) = Last(e, ns)
<1>1. Len(ns) \in Nat /\ DOMAIN ns = 1..Len(ns)
  OBVIOUS
<1>2. Last(e, <<>>) = e
  BY DEF Last
<1>3. Last(e, Append(ns, b)) = b
  <2>1. /\ Append(ns, b) \in Seq(BOOLEAN) /\ Len(Append(ns, b)) = Len(ns) + 1
        /\ Append(ns, b)[Len(ns) + 1] = b
    BY <1>1, AppendProperties
  <2>2. (<<e>> \o Append(ns, b))[Len(ns) + 2] = Append(ns, b)[Len(ns) + 1]
    BY <1>1, <2>1, ConcatProperties
  <2>3. QED
    BY <1>1, <2>1, <2>2 DEF Last
<1>4. ASSUME ns # <<>>
      PROVE  Last(Head(ns), Tail(ns)) = Last(e, ns)
  <2>1. /\ Tail(ns) \in Seq(BOOLEAN) /\ Len(Tail(ns)) = Len(ns) - 1
        /\ Len(ns) > 0 /\ Head(ns) = ns[1]
        /\ \A i \in 1..Len(Tail(ns)) : Tail(ns)[i] = ns[i + 1]
    BY <1>1, <1>4, HeadTailProperties, EmptySeq
  <2>2. Last(e, ns) = ns[Len(ns)]
    BY <1>1, <2>1 DEF Last
  <2>3. CASE Len(ns) = 1
    <3>1. Last(Head(ns), Tail(ns)) = Head(ns)
      BY <1>1, <2>1, <2>3 DEF Last
    <3>2. QED
      BY <2>1, <2>2, <2>3, <3>1
  <2>4. CASE Len(ns) > 1
    <3>1. Last(Head(ns), Tail(ns)) = Tail(ns)[Len(ns) - 1]
      BY <1>1, <2>1, <2>4 DEF Last
    <3>2. QED
      BY <1>1, <2>1, <2>2, <2>4, <3>1
  <2>5. QED
    BY <1>1, <2>1, <2>3, <2>4
<1>5. QED
  BY <1>2, <1>3, <1>4

LEMMA AnnounceTells ==
  ASSUME TypeOK, NEW b \in BOOLEAN, Announce(b)
  PROVE  /\ sup # "down" => Last(enabled, notices') = b
         /\ sup # "down" /\ Last(enabled, notices) = b => notices' = notices
  BY LastNews DEF Announce, Last, TypeOK

LEMMA ShareInit == Init => ShareInv
<1> SUFFICES ASSUME Init
             PROVE  ShareInv
  OBVIOUS
<1>1. gate.remote = FALSE /\ gate.automation = FALSE /\ gate.capture = FALSE
  BY DEF Init
<1>2. sup = "down" /\ registered = FALSE /\ shown = viewers
  BY DEF Init
<1>3. QED
  BY <1>1, <1>2 DEF ShareInv, Coupled, Told

(***************************************************************************)
(* The gate closed.                                                        *)
(***************************************************************************)
\* Whatever closes it: only the news and the count are left to agree.
LEMMA ClosedShares ==
  ASSUME gate' = [remote |-> FALSE, automation |-> FALSE, capture |-> FALSE],
         shown' = 0, registered' = (sup' # "down"),
         sup' # "down" => Last(enabled', notices') = FALSE
  PROVE  ShareInv'
<1>1. ~gate'.remote /\ ~gate'.automation /\ ~gate'.capture
  OBVIOUS
<1>2. Coupled' /\ Told'
  BY <1>1 DEF Coupled, Told
<1>3. QED
  BY <1>1, <1>2 DEF ShareInv

LEMMA TurnOffShares ==
  ASSUME TypeOK, ShareInv, TurnOff, Announce(FALSE),
         UNCHANGED <<registered, server>>
  PROVE  ShareInv'
<1>1. sup # "down" => Last(enabled, notices') = FALSE
  BY AnnounceTells
<1>2. QED
  BY <1>1, ClosedShares DEF TurnOff, Remote, server, ShareInv, Told

\* The gate stays as it is: what an open gate asks for is left to show.
LEMMA GateSame ==
  ASSUME ShareInv, gate'.remote = gate.remote, Alone => gate' = gate,
         registered' = (sup' # "down"),
         sup' # "down" => Last(enabled', notices') = gate.remote,
         shown' = viewers' \/ (~gate.remote /\ shown' = 0),
         gate.remote => Serving'
  PROVE  ShareInv'
  BY DEF ShareInv, Coupled, Told

\* A step of the sessions alone, that leaves the WM and the supervisor be.
LEMMA SessionsShare ==
  ASSUME ShareInv, UNCHANGED <<wm, server>>, gate.remote => Serving'
  PROVE  ShareInv'
  BY GateSame DEF ShareInv, Told, wm, server

\* The holders stay while no session's holds do anything else.
LEMMA SameHolders ==
  ASSUME NEW f, NEW g,
         \A s \in Session : /\ g[s].held = f[s].held
                            /\ g[s].holding = f[s].holding \/ f[s].held = {}
  PROVE  \A c \in Code : HoldersIn(g, c) = HoldersIn(f, c)
  BY DEF HoldersIn

LEMMA QuietShares ==
  ASSUME IInv, ShareInv, NEW s \in Session, NEW r, MovesOn(s, r)
  PROVE  ShareInv'
<1> SUFFICES ASSUME gate.remote
             PROVE  Serving'
  BY SessionsShare DEF MovesOn
<1>0. Serving /\ UNCHANGED <<injected, wm, server>>
  BY DEF ShareInv, MovesOn, seat
<1>1. \A x \in Session : sess'[x] = IF x = s THEN r ELSE sess[x]
  BY DEF IInv, TypeOK, MovesOn
<1>2. \A c \in Code : HoldersIn(sess', c) = HoldersIn(sess, c)
  <2>1. \A x \in Session :
          /\ sess'[x].held = sess[x].held
          /\ sess'[x].holding = sess[x].holding \/ sess[x].held = {}
    BY <1>1 DEF MovesOn
  <2>2. QED
    BY <2>1, SameHolders
<1>3. \A x \in Session : sess'[x].pc \in Viewings => sess'[x].counted
  BY <1>0, <1>1 DEF MovesOn, Serving
<1>4. Behind => Behind'
  <2> SUFFICES ASSUME Behind, NEW x \in Session
               PROVE  sess'[x].pc = "none"
    BY <1>0 DEF Behind, Alive, server, wm
  <2>1. sess[x].pc = "none" /\ sess[s].pc = "none" /\ sup # "listening"
    BY DEF Behind, Alive
  <2>2. QED
    BY <1>1, <2>1 DEF MovesOn
<1>5. QED
  BY <1>0, <1>2, <1>3, <1>4 DEF Serving, wm, server

\* Local typing has nothing to do with the server.
LEMMA LocalShares ==
  ASSUME IInv, ShareInv, LocalInput
  PROVE  ShareInv'
<1>1. UNCHANGED <<injected, wm, server, sess>>
  BY DEF LocalInput, PhysicalStep, PhysicalNote, ReleaseDevice
<1>2. Serving => Serving'
  BY <1>1 DEF Serving, Behind, Alive, wm, server
<1>3. QED
  BY <1>1, <1>2, SessionsShare DEF ShareInv

(***************************************************************************)
(* Reports: what the WM shows is what the server counted.                  *)
(***************************************************************************)
LEMMA ReportShares ==
  ASSUME TypeOK, ShareInv, NEW n \in Nat, NEW armed \in BOOLEAN, NEW f,
         Report(n, armed, f), UNCHANGED <<registered, enabled>>, viewers' = n,
         sup' = sup \/ {sup, sup'} \cap {"down"} = {},
         gate.remote /\ sess' = f /\ UNCHANGED <<notices, injected>> => Serving'
  PROVE  ShareInv'
<1>0. registered' = (sup' # "down") /\ (sup' # "down" => sup # "down")
  BY DEF ShareInv, Told
<1>1. CASE /\ shown' = n /\ sess' = f
           /\ UNCHANGED <<gate, notices, seat>>
  BY <1>0, <1>1, GateSame DEF ShareInv, Told, seat
<1>2. CASE /\ gate' = [remote |-> FALSE, automation |-> FALSE,
                       capture |-> FALSE]
           /\ shown' = 0 /\ Announce(FALSE)
  <2>1. sup # "down" => Last(enabled, notices') = FALSE
    BY <1>2, AnnounceTells
  <2>2. QED
    BY <1>0, <1>2, <2>1, ClosedShares
<1>3. QED
  BY <1>1, <1>2 DEF Report

LEMMA JoinShares ==
  ASSUME IInv, ShareInv, NEW s \in Session, NEW armed \in BOOLEAN,
         Join(s, armed)
  PROVE  ShareInv'
<1> DEFINE f == [sess EXCEPT ![s].pc = "joined", ![s].counted = TRUE]
<1>0. /\ sess \in Sessions /\ viewers \in Nat /\ TypeOK
      /\ sess[s].pc = "added" /\ Stage(sess[s])
  BY DEF IInv, TypeOK, Sessions, Books, Join, At
<1>1. \A x \in Session :
        /\ f[x].held = sess[x].held
        /\ f[x].holding = sess[x].holding
        /\ x # s => f[x] = sess[x]
        /\ x = s => f[x].counted
  BY <1>0 DEF Sessions, SessionState
<1>2. \A c \in Code : HoldersIn(f, c) = HoldersIn(sess, c)
  <2> HIDE DEF f
  <2>1. QED
    BY <1>1 DEF HoldersIn
<1>3. /\ Report(viewers + 1, armed, f) /\ viewers' = viewers + 1
      /\ UNCHANGED <<registered, enabled, sup>>
  BY DEF Join
<1> HIDE DEF f
<1>4. ASSUME gate.remote, sess' = f, UNCHANGED <<notices, injected>>
      PROVE  Serving'
  <2>1. Serving /\ ~Behind
    BY <1>0, <1>4 DEF ShareInv, Behind, Alive
  <2>2. \A x \in Session : sess'[x].pc \in Viewings => sess'[x].counted
    BY <1>1, <1>4, <2>1 DEF Serving
  <2>3. Alone => injected' = {c \in Code : HoldersIn(sess', c) # {}}
    BY <1>2, <1>4, <2>1 DEF Serving
  <2>4. QED
    BY <1>3, <1>4, <2>1, <2>2, <2>3 DEF Serving
<1>5. QED
  BY <1>0, <1>3, <1>4, ReportShares

LEMMA LeaveShares ==
  ASSUME IInv, IInv', ShareInv, NEW s \in Session, NEW armed \in BOOLEAN,
         Leave(s, armed)
  PROVE  ShareInv'
<1> DEFINE f == [sess EXCEPT ![s] = NoSession]
<1>0. /\ sess \in Sessions /\ TypeOK /\ viewers' \in Nat
      /\ sess[s].pc = "leaving" /\ Stage(sess[s])
      /\ UNCHANGED <<registered, enabled, sup>>
  BY DEF IInv, TypeOK, Sessions, Books, Leave, At
<1>1. /\ \A x \in Session : x # s => f[x] = sess[x]
      /\ f[s].held = {} /\ sess[s].held = {} /\ f[s].pc = "none"
  BY <1>0 DEF Sessions, NoSession, Stage
<1>2. \A c \in Code : HoldersIn(f, c) = HoldersIn(sess, c)
  BY <1>1 DEF HoldersIn
<1> HIDE DEF f
<1>3. ASSUME gate.remote, sess' = f, UNCHANGED <<notices, injected>>
      PROVE  Serving'
  <2>1. Serving /\ ~Behind
    BY <1>0, <1>3 DEF ShareInv, Behind, Alive
  <2>2. \A x \in Session : sess'[x].pc \in Viewings => sess'[x].counted
    BY <1>1, <1>3, <2>1 DEF Serving, Viewings
  <2>3. Alone => injected' = {c \in Code : HoldersIn(sess', c) # {}}
    BY <1>2, <1>3, <2>1 DEF Serving
  <2>4. QED
    BY <1>0, <1>3, <2>1, <2>2, <2>3 DEF Serving
<1>4. CASE sess[s].counted
  <2>1. Report(viewers', armed, f)
    BY <1>4 DEF Leave, f
  <2>2. QED
    BY <1>0, <1>3, <2>1, ReportShares
<1>5. CASE ~sess[s].counted
  <2>1. ~gate.remote
    BY <1>0, <1>5 DEF ShareInv, Serving, Viewings
  <2>2. UNCHANGED <<viewers, gate, shown, notices>>
    BY <1>5 DEF Leave
  <2>3. QED
    BY <1>0, <2>1, <2>2, GateSame DEF ShareInv, Told
<1>6. QED
  BY <1>4, <1>5

(***************************************************************************)
(* Keys. What is injected is what some session of this generation holds.   *)
(***************************************************************************)
\* The count says whether a holder is the only one, and whether there is any.
LEMMA LastHolder ==
  ASSUME IInv, NEW c \in Code
  PROVE  /\ counts[c] = 0 <=> HoldersIn(sess, c) = {}
         /\ \A s \in HoldersIn(sess, c) :
              counts[c] = 1 <=> HoldersIn(sess, c) \ {s} = {}
<1> DEFINE H == HoldersIn(sess, c)
<1>0. IsFiniteSet(H) /\ Cardinality(H) \in Nat /\ counts[c] = Cardinality(H)
  BY HoldersFinite DEF IInv, Books
<1>1. Cardinality(H) = 0 <=> H = {}
  BY <1>0, FS_EmptySet
<1>2. ASSUME NEW s \in H
      PROVE  Cardinality(H) = 1 <=> H \ {s} = {}
  <2>1. IsFiniteSet(H \ {s}) /\ Cardinality(H \ {s}) = Cardinality(H) - 1
    BY <1>0, <1>2, FS_RemoveElement
  <2>2. Cardinality(H \ {s}) = 0 <=> H \ {s} = {}
    BY <2>1, FS_EmptySet
  <2>3. QED
    BY <1>0, <2>1, <2>2
<1>3. QED
  BY <1>0, <1>1, <1>2

LEMMA KeyShares ==
  ASSUME IInv, ShareInv, NEW s \in Session, NEW c \in Code,
         NEW pressed \in BOOLEAN, Key(s, c, pressed)
  PROVE  ShareInv'
<1>1. /\ \A x \in Session : x # s => sess'[x] = sess[x]
      /\ sess'[s].held = IF pressed THEN sess[s].held \cup {c}
                         ELSE sess[s].held \ {c}
      /\ sess'[s].pc \in {"input", "stopping"}
      /\ sess'[s].holding = sess[s].holding
      /\ sess'[s].counted = sess[s].counted
  BY KeyMoves DEF KeyHeld
<1>2. /\ UNCHANGED <<gate, lease, shown, registered, notices, enabled, sup, viewers>>
      /\ sess[s].pc = "input" /\ sess[s].holding /\ pressed # (c \in sess[s].held)
  BY DEF Key, wm
<1> SUFFICES ASSUME gate.remote
             PROVE  Serving'
  BY <1>2, GateSame DEF ShareInv, Told
<1>3. /\ Serving /\ ~Behind
      /\ Alone => gate.automation /\ injected = {d \in Code : HoldersIn(sess, d) # {}}
  BY <1>2 DEF ShareInv, Coupled, Serving, Behind, Alive
<1>4. \A x \in Session : sess'[x].pc \in Viewings => sess'[x].counted
  BY <1>1, <1>2, <1>3 DEF Serving, Viewings
<1>5. /\ \A d \in Code \ {c} : HoldersIn(sess', d) = HoldersIn(sess, d)
      /\ HoldersIn(sess', c) = IF pressed THEN HoldersIn(sess, c) \cup {s}
                               ELSE HoldersIn(sess, c) \ {s}
      /\ ~pressed => s \in HoldersIn(sess, c)
  <2>1. \A d \in Code \ {c} : HoldersIn(sess', d) = HoldersIn(sess, d)
    BY <1>1 DEF HoldersIn
  <2>2. CASE pressed
    BY <1>1, <1>2, <2>1, <2>2 DEF HoldersIn
  <2>3. CASE ~pressed
    BY <1>1, <1>2, <2>1, <2>3 DEF HoldersIn
  <2>4. QED
    BY <2>2, <2>3
<1>6. ASSUME Alone
      PROVE  c \in injected' <=> HoldersIn(sess', c) # {}
  <2>1. CASE pressed
    <3>1. c \in injected'
      <4>1. counts[c] = 0 => InjectedNote(c, pressed)
        BY <1>3, <1>6, <2>1 DEF Key
      <4>2. counts[c] # 0 => injected' = injected
        BY <2>1 DEF Key, seat
      <4>3. QED
        BY <1>3, <1>6, <2>1, <4>1, <4>2, LastHolder DEF InjectedNote
    <3>2. QED
      BY <1>5, <2>1, <3>1
  <2>2. CASE ~pressed
    <3>1. counts[c] = 1 <=> HoldersIn(sess', c) = {}
      BY <1>5, <2>2, LastHolder
    <3>2. counts[c] = 1 => InjectedNote(c, pressed)
      BY <1>3, <1>6, <2>2 DEF Key
    <3>3. counts[c] # 1 => injected' = injected
      BY <2>2 DEF Key, seat
    <3>4. QED
      BY <1>3, <1>5, <1>6, <2>2, <3>1, <3>2, <3>3 DEF InjectedNote
  <2>3. QED
    BY <2>1, <2>2
<1>7. Alone => injected' = {d \in Code : HoldersIn(sess', d) # {}}
  <2>1. \A d : d # c => (d \in injected' <=> d \in injected)
    BY DEF Key, InjectedNote, seat
  <2>2. QED
    BY <1>3, <1>5, <1>6, <2>1
<1>8. QED
  BY <1>2, <1>3, <1>4, <1>7 DEF Serving

LEMMA EndHoldsShares ==
  ASSUME IInv, ShareInv, NEW s \in Session, EndHolds(s)
  PROVE  ShareInv'
<1>0. /\ sess \in Sessions /\ sess[s] \in SessionState /\ sess[s].pc = "stopping"
      /\ UNCHANGED <<gate, lease, shown, registered, notices, enabled, sup, viewers>>
  BY DEF IInv, TypeOK, Sessions, EndHolds, wm
<1>1. /\ \A x \in Session : x # s => sess'[x] = sess[x]
      /\ sess'[s].held = {} /\ sess'[s].holding = sess[s].holding
      /\ sess'[s].counted = sess[s].counted
  BY <1>0 DEF EndHolds, Sessions, SessionState
<1> SUFFICES ASSUME gate.remote
             PROVE  Serving'
  BY <1>0, GateSame DEF ShareInv, Told
<1>2. /\ Serving /\ ~Behind
      /\ Alone => gate.automation /\ injected = {c \in Code : HoldersIn(sess, c) # {}}
  BY <1>0 DEF ShareInv, Coupled, Serving, Behind, Alive
<1>3. \A x \in Session : sess'[x].pc \in Viewings => sess'[x].counted
  BY <1>0, <1>1, <1>2 DEF Serving, Viewings
<1>4. Alone => injected' = injected \ {c \in sess[s].held : sess[s].holding /\ counts[c] = 1}
  BY <1>2 DEF EndHolds, ReleaseInjected
<1>5. ASSUME Alone, NEW c \in Code
      PROVE  c \in injected' <=> HoldersIn(sess', c) # {}
  <2>1. HoldersIn(sess', c) = HoldersIn(sess, c) \ {s}
    BY <1>1 DEF HoldersIn
  <2>2. c \in injected <=> HoldersIn(sess, c) # {}
    BY <1>2, <1>5
  <2>3. CASE s \in HoldersIn(sess, c)
    BY <1>4, <1>5, <2>1, <2>2, <2>3, LastHolder DEF HoldersIn
  <2>4. CASE s \notin HoldersIn(sess, c)
    BY <1>4, <1>5, <2>1, <2>2, <2>4 DEF HoldersIn
  <2>5. QED
    BY <2>3, <2>4
<1>6. Alone => injected' = {c \in Code : HoldersIn(sess', c) # {}}
  BY <1>2, <1>4, <1>5
<1>7. QED
  BY <1>0, <1>2, <1>3, <1>6 DEF Serving

(***************************************************************************)
(* The supervisor. It leaves its accept loop only when it has read of a    *)
(* closed gate.                                                            *)
(***************************************************************************)
LEMMA SupervisorShares ==
  ASSUME IInv, ShareInv, ReadNotice \/ Bind \/ CloseListener \/ SeeGate \/ Crash
  PROVE  ShareInv'
<1>0. /\ UNCHANGED <<seat, gate, shown, registered, viewers, sess>>
      /\ enabled \in BOOLEAN /\ notices \in Seq(BOOLEAN)
  BY DEF ReadNotice, Bind, CloseListener, SeeGate, Crash, Supervise, wm,
         IInv, TypeOK
<1>1. \A c \in Code : HoldersIn(sess', c) = HoldersIn(sess, c)
  BY <1>0 DEF HoldersIn
<1>2. Behind /\ UNCHANGED <<enabled, notices>> /\ sup' \in {"waiting", "crashed"}
        => Behind'
  BY <1>0 DEF Behind, Alive
<1>3. CASE ReadNotice
  <2>1. /\ sup' = sup /\ sup # "down" /\ notices # <<>>
        /\ enabled' = Head(notices) /\ notices' = Tail(notices)
    BY <1>3 DEF ReadNotice
  <2>2. Last(enabled', notices') = Last(enabled, notices)
    BY <1>0, <2>1, LastNews
  <2>3. ASSUME gate.remote
        PROVE  Serving'
    <3>1. Serving /\ Behind
      BY <2>1, <2>3 DEF ShareInv, Serving
    <3>2. enabled' /\ notices' = <<>>
      BY <2>1, <3>1 DEF Behind
    <3>3. QED
      BY <1>0, <1>1, <2>1, <3>1, <3>2 DEF Serving, seat
  <2>4. QED
    BY <1>0, <2>1, <2>2, <2>3, GateSame DEF ShareInv, Told
<1>4. CASE Bind \/ CloseListener \/ SeeGate \/ Crash
  <2>1. UNCHANGED <<enabled, notices>> /\ sup # "down" /\ sup' # "down"
    BY <1>4 DEF Bind, CloseListener, SeeGate, Crash, Supervise, wm
  <2>2. ASSUME gate.remote
        PROVE  Serving'
    <3>1. Serving
      BY <2>2 DEF ShareInv
    <3>2. /\ sup' \in {"waiting", "listening", "closed", "crashed"}
          /\ Behind => sup' \in {"waiting", "crashed"}
      BY <1>4, <3>1 DEF Bind, CloseListener, SeeGate, Crash, Supervise, Serving,
                       Behind
    <3>3. QED
      BY <1>0, <1>1, <1>2, <2>1, <3>1, <3>2 DEF Serving, seat
  <2>3. QED
    BY <1>0, <2>1, <2>2, GateSame DEF ShareInv, Told
<1>5. QED
  BY <1>3, <1>4

\* What it does when it has left the loop, it does with the gate closed.
LEMMA ResetsShare ==
  ASSUME IInv, ShareInv, NEW armed \in BOOLEAN,
         ResetViewers(armed) \/ ResetHolds \/ EndAll \/ Register
  PROVE  ShareInv'
<1>1. ~gate.remote /\ registered = (sup # "down")
  BY DEF ShareInv, Told, Serving, ResetViewers, ResetHolds, EndAll, Register,
         Supervise
<1>2. CASE ResetViewers(armed)
  <2> DEFINE f == [s \in Session |-> [sess[s] EXCEPT !.counted = FALSE]]
  <2>1. /\ TypeOK /\ Report(0, armed, f) /\ viewers' = 0
        /\ UNCHANGED <<registered, enabled>>
        /\ {sup, sup'} \cap {"down"} = {}
    BY <1>2 DEF IInv, ResetViewers, Supervise
  <2> HIDE DEF f
  <2>2. QED
    BY <1>1, <2>1, ReportShares
<1>3. CASE ResetHolds \/ EndAll
  <2>1. /\ UNCHANGED <<gate, shown, registered, notices, enabled, viewers>>
        /\ sup # "down" /\ sup' # "down"
    BY <1>3 DEF ResetHolds, EndAll, Supervise, wm
  <2>2. QED
    BY <1>1, <2>1, GateSame DEF ShareInv, Told
<1>4. CASE Register
  <2>1. /\ UNCHANGED <<gate, shown, viewers>> /\ notices' = <<>>
        /\ enabled' = gate.remote /\ sup' # "down" /\ registered' = TRUE
        /\ gate.remote \in BOOLEAN
    BY <1>4 DEF Register, IInv, TypeOK, Gates
  <2>2. Last(enabled', notices') = gate.remote
    BY <2>1 DEF Last
  <2>3. QED
    BY <1>1, <2>1, <2>2, GateSame DEF ShareInv
<1>5. QED
  BY <1>2, <1>3, <1>4

LEMMA DropServerShares ==
  ASSUME IInv, ShareInv, DropServer
  PROVE  ShareInv'
<1>1. sup' = "down" /\ registered' = FALSE /\ shown' = 0 /\ viewers' = 0
  BY DEF DropServer
<1>2. CASE gate.remote
  <2>1. gate' = [remote |-> FALSE, automation |-> FALSE, capture |-> FALSE]
    BY <1>2 DEF DropServer
  <2>2. QED
    BY <1>1, <2>1, ClosedShares
<1>3. CASE ~gate.remote
  <2>1. gate' = gate
    BY <1>3 DEF DropServer
  <2>2. QED
    BY <1>1, <1>3, <2>1, GateSame
<1>4. QED
  BY <1>2, <1>3

(***************************************************************************)
(* The user and the lease.                                                 *)
(***************************************************************************)
\* A script's gates close streams and let go of keys; the count is not about
\* either.
LEMMA DecoupledShares ==
  ASSUME IInv, ShareInv, NEW on \in BOOLEAN, SetAutomation(on) \/ SetScreenCapture(on)
  PROVE  ShareInv'
<1>1. /\ ~Alone /\ UNCHANGED <<shown, registered, notices, server>>
      /\ sess' \in {sess, EndCaptures(sess)}
      /\ gate'.remote = gate.remote
  BY DEF SetAutomation, SetScreenCapture, Automation, Alone, IInv, TypeOK, Gates
<1>2. \A s \in Session : sess'[s].pc = sess[s].pc /\ sess'[s].counted = sess[s].counted
  BY <1>1 DEF EndCaptures, IInv, TypeOK, Sessions, SessionState
<1>3. Serving => Serving'
  BY <1>1, <1>2 DEF Serving, Behind, Alive, server
<1>4. QED
  BY <1>1, <1>3, GateSame DEF ShareInv, Told, server

LEMMA GateShares ==
  ASSUME Patient, IInv, ShareInv, UserStep \/ LeaseEnds
  PROVE  ShareInv'
<1>0. TypeOK /\ registered = (sup # "down")
  BY DEF IInv, ShareInv, Told
<1>1. CASE SetRemoteOff \/ LeaseEnds
  BY <1>0, <1>1, TurnOffShares DEF SetRemoteOff, LeaseEnds
<1>2. ASSUME NEW limit \in BOOLEAN, NEW idle \in BOOLEAN, NEW armed \in BOOLEAN,
             SetRemoteOn(limit, idle, armed)
      PROVE  ShareInv'
  <2>0. /\ registered /\ (gate.remote \/ Settled) /\ Announce(gate'.remote)
        /\ UNCHANGED <<registered, enabled, sup, viewers>>
    BY <1>2 DEF SetRemoteOn, Patient, server
  <2>1. CASE armed
    <3>1. PICK l : Remote(TRUE, l)
      BY <1>2, <2>1 DEF SetRemoteOn
    <3>2. /\ gate' = [remote |-> TRUE, automation |-> TRUE, capture |-> TRUE]
          /\ gate'.remote = TRUE /\ gate'.automation = TRUE /\ gate'.capture = TRUE
          /\ UNCHANGED <<shown, seat, sess>>
      BY <3>1 DEF Remote, Automation
    <3>3. Announce(TRUE)
      BY <2>0, <3>2
    <3>4. Last(enabled', notices') = TRUE
      BY <1>0, <2>0, <3>3, AnnounceTells
    <3>5. \A c \in Code : HoldersIn(sess', c) = HoldersIn(sess, c)
      BY <3>2 DEF HoldersIn
    <3>6. CASE gate.remote
      <4>1. notices' = notices
        BY <1>0, <2>0, <3>3, <3>6, AnnounceTells DEF ShareInv, Told
      <4>2. Serving'
        BY <2>0, <3>2, <3>5, <3>6, <4>1
           DEF ShareInv, Serving, Behind, Alive, seat
      <4>3. QED
        BY <1>0, <2>0, <3>2, <3>4, <3>6, <4>2 DEF ShareInv, Coupled, Told
    <3>7. CASE ~gate.remote
      <4>1. Settled
        BY <2>0, <3>7
      <4>2. notices' = <<TRUE>>
        <5>1. notices = <<>> /\ enabled = FALSE /\ enabled \in BOOLEAN
          BY <1>0, <4>1 DEF Settled, TypeOK
        <5>2. (<<enabled>> \o notices)[Len(notices) + 1] = FALSE
          BY <5>1
        <5>3. sup # "down" /\ FALSE # TRUE
          BY <4>1 DEF Settled
        <5>4. notices' = Append(notices, TRUE)
          BY <3>3, <5>2, <5>3 DEF Announce
        <5>5. QED
          BY <5>1, <5>4
      <4>3. \A s \in Session : /\ sess[s].pc = "none"
                               /\ sess[s].held = {} /\ ~sess[s].counted
        BY <4>1 DEF Settled, Alive, IInv, Books, Stage
      <4>4. shown' = viewers'
        <5>1. CountedIn(sess) = {}
          BY <4>3 DEF CountedIn
        <5>2. viewers = 0
          BY <5>1, FS_EmptySet DEF IInv, Books
        <5>3. QED
          BY <2>0, <3>2, <3>7, <5>2 DEF ShareInv
      <4>5. Alone => injected' = {c \in Code : HoldersIn(sess', c) # {}}
        <5>1. Alone => injected = {}
          BY <3>7 DEF IInv, NothingWithoutConsent, ShareInv, Coupled
        <5>2. \A c \in Code : HoldersIn(sess', c) = {}
          BY <3>2, <4>3 DEF HoldersIn
        <5>3. QED
          BY <3>2, <5>1, <5>2 DEF seat
      <4>6. Serving'
        BY <2>0, <3>2, <4>1, <4>2, <4>3, <4>5
           DEF Serving, Behind, Alive, Settled, Viewings
      <4>7. QED
        BY <1>0, <2>0, <3>2, <3>4, <4>4, <4>6 DEF ShareInv, Coupled, Told
    <3>8. QED
      BY <3>6, <3>7
  <2>2. CASE ~armed
    <3>1. TurnOff
      BY <1>2, <2>2 DEF SetRemoteOn
    <3>2. gate' = [remote |-> FALSE, automation |-> FALSE, capture |-> FALSE]
      BY <3>1 DEF TurnOff, Remote
    <3>3. gate'.remote = FALSE
      BY <3>2
    <3>4. QED
      BY <1>0, <1>2, <2>0, <3>1, <3>3, TurnOffShares DEF SetRemoteOn
  <2>3. QED
    BY <2>1, <2>2
<1>3. CASE \E on \in BOOLEAN : SetAutomation(on) \/ SetScreenCapture(on)
  BY <1>3, DecoupledShares
<1>4. QED
  BY <1>1, <1>2, <1>3 DEF UserStep

LEMMA ShareStep ==
  ASSUME Patient, IInv, IInv', ShareInv, [Next]_vars
  PROVE  ShareInv'
<1>1. CASE LocalInput
  BY <1>1, LocalShares
<1>2. CASE UserStep \/ LeaseEnds
  BY <1>2, GateShares
<1>3. CASE Register \/ Crash
  BY <1>3, ResetsShare, SupervisorShares
<1>4. CASE DropServer
  BY <1>4, DropServerShares
<1>5. CASE SupervisorStep
  BY <1>5, SupervisorShares, ResetsShare DEF SupervisorStep
<1>6. ASSUME NEW s \in Session, SessionStep(s) \/ ViewerStep(s)
      PROVE  ShareInv'
  <2>1. CASE \E armed \in BOOLEAN : Join(s, armed) \/ Leave(s, armed)
    BY <2>1, JoinShares, LeaveShares
  <2>2. CASE \E c \in Code, pressed \in BOOLEAN : Key(s, c, pressed)
    BY <2>2, KeyShares
  <2>3. CASE EndHolds(s)
    BY <2>3, EndHoldsShares
  <2>4. CASE Quiet(s)
    BY <2>4, QuietMoves, QuietShares
  <2>5. QED
    BY <1>6, <2>1, <2>2, <2>3, <2>4 DEF SessionStep, ViewerStep, Quiet
<1>7. CASE UNCHANGED vars
  <2>1. Serving => Serving'
    BY <1>7 DEF vars, wm, server, seat, Serving, Behind, Alive, HoldersIn
  <2>2. QED
    BY <1>7, <2>1, SessionsShare DEF vars, ShareInv
<1>8. QED
  BY <1>1, <1>2, <1>3, <1>4, <1>5, <1>6, <1>7 DEF Next

LEMMA ShareInvariant ==
  ASSUME Patient
  PROVE  Spec => []ShareInv
<1>1. IInv /\ ShareInv /\ [Next]_vars => ShareInv'
  BY NextStep, ShareStep
<1>2. QED
  BY <1>1, ShareInit, Invariant, PTL DEF Spec

\* While sharing is on, the bar shows as many viewers as are connected: the
\* count crosses from the server's sessions to the WM's chip without losing or
\* keeping one (viewers.rs, remote_viewers). It is about a user who lets the
\* server catch up; one who reopens the gate early can be shown too few.
THEOREM ViewersShownAreConnected ==
  ASSUME Patient
  PROVE  Spec => []ViewerCountHonest
<1>1. IInv /\ ShareInv => ViewerCountHonest
  <2> SUFFICES ASSUME IInv, ShareInv, gate.remote
               PROVE  shown = Cardinality({s \in Session : Viewing(s)})
    BY DEF ViewerCountHonest
  <2>1. shown = Cardinality(CountedIn(sess))
    BY DEF ShareInv, IInv, Books
  <2>2. CountedIn(sess) = {s \in Session : Viewing(s)}
    BY DEF ShareInv, Serving, IInv, Books, Stage, CountedIn, Viewing, Viewings
  <2>3. QED
    BY <2>1, <2>2
<1>2. QED
  BY <1>1, Invariant, ShareInvariant, PTL

(***************************************************************************)
(* Refinement of SharedSeat: with sharing left to itself, the viewers'     *)
(* sessions are sources of the seat like the devices.                      *)
(***************************************************************************)
Sharers == Device \cup Session
Shares == [x \in Sharers |->
             IF x \in Device THEN physical[x]
             ELSE IF gate.automation /\ sess[x].holding THEN sess[x].held
             ELSE {}]

\* What is down is what devices and sessions hold.
DownShared == down = Sharing!Down(Shares)

LEMMA SharedDown ==
  ASSUME Alone, IInv, ShareInv
  PROVE  DownShared
<1>1. /\ physical \in [Device -> SUBSET Code] /\ injected \subseteq Code
      /\ down = injected \cup {c \in Code : HeldPhysically(c)}
  BY DEF IInv, SeatOK, SeatTypeOK, DownExact
<1>2. injected = {c \in Code : gate.automation /\ HoldersIn(sess, c) # {}}
  BY <1>1 DEF IInv, NothingWithoutConsent, ShareInv, Coupled, Serving
<1>3. /\ \A d \in Device : d \in Sharers /\ Shares[d] = physical[d]
      /\ \A s \in Session : /\ s \in Sharers
                            /\ Shares[s] = IF gate.automation /\ sess[s].holding
                                           THEN sess[s].held ELSE {}
  BY SessionsAssumption DEF Shares, Sharers
<1>4. ASSUME NEW c \in Code
      PROVE  c \in down <=> \E x \in Sharers : c \in Shares[x]
  <2>1. c \in down <=> HeldPhysically(c) \/ (gate.automation /\ HoldersIn(sess, c) # {})
    BY <1>1, <1>2
  <2>2. HeldPhysically(c) <=> \E d \in Device : c \in Shares[d]
    BY <1>3 DEF HeldPhysically
  <2>3. gate.automation /\ HoldersIn(sess, c) # {} <=> \E s \in Session : c \in Shares[s]
    BY <1>3 DEF HoldersIn
  <2>4. QED
    BY <2>1, <2>2, <2>3 DEF Sharers
<1>5. down \subseteq Code
  BY <1>1
<1>6. QED
  BY <1>4, <1>5 DEF DownShared, Sharing!Down, Sharers, Shares

\* The abstract steps. Each is one as soon as the sources hold what it says,
\* since down follows.
LEMMA AbstractSteps ==
  ASSUME DownShared'
  PROVE  /\ \A x \in Sharers, c \in Code :
              /\ Shares' = [Shares EXCEPT ![x] = @ \cup {c}] => Sharing!Press(x, c)
              /\ Shares' = [Shares EXCEPT ![x] = @ \ {c}] => Sharing!Release(x, c)
         /\ \A S : Shares' = [x \in Sharers |-> IF x \in S THEN {} ELSE Shares[x]]
                  => Sharing!LetGo(S)
<1> USE DEF Sharing!Hold
<1>1. down' = Sharing!Down(Shares')
  BY DEF DownShared, Shares, Sharers
<1>2. ASSUME NEW x \in Sharers, NEW c \in Code,
             Shares' = [Shares EXCEPT ![x] = @ \cup {c}]
      PROVE  Sharing!Press(x, c)
  BY <1>1, <1>2 DEF Sharing!Press, Shares, Sharers
<1>3. ASSUME NEW x \in Sharers, NEW c \in Code,
             Shares' = [Shares EXCEPT ![x] = @ \ {c}]
      PROVE  Sharing!Release(x, c)
  BY <1>1, <1>3 DEF Sharing!Release, Shares, Sharers
<1>4. ASSUME NEW S,
             Shares' = [x \in Sharers |-> IF x \in S THEN {} ELSE Shares[x]]
      PROVE  Sharing!LetGo(S)
  BY <1>1, <1>4 DEF Sharing!LetGo, Shares, Sharers
<1>5. QED
  BY <1>2, <1>3, <1>4

\* Nobody's hold changes: nothing happens to the abstract seat.
LEMMA HoldsUnchanged ==
  ASSUME DownShared, DownShared', physical' = physical,
         \A s \in Session :
           (IF gate'.automation /\ sess'[s].holding THEN sess'[s].held ELSE {})
             = IF gate.automation /\ sess[s].holding THEN sess[s].held ELSE {}
  PROVE  UNCHANGED Sharing!seat
<1>1. Shares' = Shares
  BY DEF Shares, Sharers
<1>2. QED
  BY <1>1 DEF DownShared, Sharing!seat, Shares, Sharers

\* The gate goes off, or is off: every viewer lets go.
LEMMA GateLetsGo ==
  ASSUME DownShared', physical' = physical, ~gate'.automation
  PROVE  Sharing!Next
<1>1. Shares' = [x \in Sharers |-> IF x \in Session THEN {} ELSE Shares[x]]
  BY SessionsAssumption DEF Shares, Sharers
<1>2. Sharing!LetGo(Session)
  BY <1>1, AbstractSteps
<1>3. Session \in SUBSET Sharers
  BY DEF Sharers
<1>4. QED
  BY <1>2, <1>3 DEF Sharing!Next, Sharers

LEMMA LocalInputShared ==
  ASSUME IInv, DownShared', LocalInput
  PROVE  Sharing!Next
<1>0. /\ physical \in [Device -> SUBSET Code]
      /\ UNCHANGED <<gate, sess>>
      /\ \A d \in Device : d \in Sharers /\ Shares[d] = physical[d]
  BY DEF IInv, SeatOK, SeatTypeOK, LocalInput, wm, Shares, Sharers
<1>1. ASSUME NEW d \in Device, NEW p,
             physical' = [physical EXCEPT ![d] = p]
      PROVE  Shares' = [Shares EXCEPT ![d] = p]
  BY <1>0, <1>1 DEF Shares, Sharers
<1>2. ASSUME NEW d \in Device, NEW c \in Code, NEW pressed \in BOOLEAN,
             PhysicalNote(d, c, pressed)
      PROVE  Sharing!Next
  <2>1. CASE pressed
    <3>1. Shares' = [Shares EXCEPT ![d] = @ \cup {c}]
      BY <1>0, <1>1, <1>2, <2>1 DEF PhysicalNote
    <3>2. QED
      BY <1>0, <3>1, AbstractSteps DEF Sharing!Next, Sharers
  <2>2. CASE ~pressed
    <3>1. Shares' = [Shares EXCEPT ![d] = @ \ {c}]
      BY <1>0, <1>1, <1>2, <2>2 DEF PhysicalNote
    <3>2. QED
      BY <1>0, <3>1, AbstractSteps DEF Sharing!Next, Sharers
  <2>3. QED
    BY <2>1, <2>2
<1>3. ASSUME NEW d \in Device, ReleaseDevice(d)
      PROVE  Sharing!Next
  <2>1. Shares' = [Shares EXCEPT ![d] = {}]
    BY <1>1, <1>3 DEF ReleaseDevice
  <2>2. Shares' = [x \in Sharers |-> IF x \in {d} THEN {} ELSE Shares[x]]
    BY <2>1 DEF Shares
  <2>3. {d} \in SUBSET Sharers /\ Sharing!LetGo({d})
    BY <1>0, <2>2, AbstractSteps
  <2>4. QED
    BY <2>3 DEF Sharing!Next, Sharers
<1>4. QED
  BY <1>2, <1>3 DEF LocalInput, PhysicalStep

\* A report of the count closes the gate or leaves everyone's holds alone.
LEMMA ReportShared ==
  ASSUME DownShared, DownShared', NEW n, NEW armed, NEW f, Report(n, armed, f),
         \A s \in Session : /\ f[s].held = sess[s].held
                            /\ f[s].holding = sess[s].holding \/ f[s].held = {}
  PROVE  [Sharing!Next]_(Sharing!seat)
<1>1. CASE sess' = f /\ UNCHANGED <<gate, seat>>
  <2>1. physical' = physical
    BY <1>1 DEF seat
  <2>2. UNCHANGED Sharing!seat
    BY <1>1, <2>1, HoldsUnchanged
  <2>3. QED
    BY <2>2
<1>2. CASE /\ gate' = [remote |-> FALSE, automation |-> FALSE,
                       capture |-> FALSE]
           /\ ReleaseInjected(Code)
  <2>1. physical' = physical /\ ~gate'.automation
    BY <1>2 DEF ReleaseInjected
  <2>2. QED
    BY <2>1, GateLetsGo
<1>3. QED
  BY <1>1, <1>2 DEF Report

\* A key of a viewer is a press or release of its own, whether or not the
\* server passes it on; with the gate closed it is nobody's.
LEMMA KeyShared ==
  ASSUME IInv, NEW s \in Session, NEW c \in Code, NEW pressed \in BOOLEAN,
         Key(s, c, pressed), DownShared, DownShared'
  PROVE  [Sharing!Next]_(Sharing!seat)
<1>0. KeyHeld(s, c, pressed)
  BY KeyMoves
<1>1. /\ \A x \in Session : x # s => sess'[x] = sess[x]
      /\ sess'[s].held = IF pressed THEN sess[s].held \cup {c}
                         ELSE sess[s].held \ {c}
      /\ sess'[s].holding = sess[s].holding
  BY <1>0 DEF KeyHeld
<1>2. gate' = gate /\ physical' = physical /\ sess[s].holding
  BY DEF Key, wm, InjectedNote, seat
<1>3. CASE ~gate.automation
  BY <1>2, <1>3, HoldsUnchanged
<1>4. CASE gate.automation
  <2>1. s \in Sharers /\ s \notin Device /\ Shares[s] = sess[s].held
    BY <1>2, <1>4, SessionsAssumption DEF Sharers, Shares
  <2>2. Shares' = [Shares EXCEPT ![s] = sess'[s].held]
    <3>1. Shares' = [x \in Sharers |-> IF x = s THEN sess'[s].held ELSE Shares[x]]
      BY <1>1, <1>2, <1>4, <2>1 DEF Shares, Sharers
    <3>2. QED
      BY <3>1 DEF Shares
  <2>3. CASE pressed
    <3>1. Shares' = [Shares EXCEPT ![s] = @ \cup {c}]
      BY <1>1, <2>1, <2>2, <2>3
    <3>2. QED
      BY <2>1, <3>1, AbstractSteps DEF Sharing!Next, Sharers
  <2>4. CASE ~pressed
    <3>1. Shares' = [Shares EXCEPT ![s] = @ \ {c}]
      BY <1>1, <2>1, <2>2, <2>4
    <3>2. QED
      BY <2>1, <3>1, AbstractSteps DEF Sharing!Next, Sharers
  <2>5. QED
    BY <2>3, <2>4
<1>5. QED
  BY <1>3, <1>4

\* A session that ends lets go, of what it alone held and of what it did not.
LEMMA EndHoldsShared ==
  ASSUME IInv, DownShared', NEW s \in Session, EndHolds(s)
  PROVE  Sharing!Next
<1>0. sess \in Sessions /\ sess[s] \in SessionState
  BY DEF IInv, TypeOK, Sessions
<1>1. /\ \A x \in Session : x # s => sess'[x] = sess[x]
      /\ sess'[s].held = {}
  BY <1>0 DEF EndHolds, Sessions, SessionState
<1>2. gate' = gate /\ physical' = physical
  BY DEF EndHolds, wm, ReleaseInjected, seat
<1>3. s \in Sharers /\ s \notin Device
  BY SessionsAssumption DEF Sharers
<1>4. Shares' = [x \in Sharers |-> IF x \in {s} THEN {} ELSE Shares[x]]
  BY <1>1, <1>2, <1>3 DEF Shares, Sharers
<1>5. Sharing!LetGo({s}) /\ {s} \in SUBSET Sharers
  BY <1>3, <1>4, AbstractSteps
<1>6. QED
  BY <1>5 DEF Sharing!Next, Sharers

\* The gate goes on with nobody connected, stays on, or goes off.
LEMMA GateShared ==
  ASSUME Patient, Alone, IInv, ShareInv, DownShared, DownShared', UserStep \/ LeaseEnds
  PROVE  [Sharing!Next]_(Sharing!seat)
<1>1. ASSUME TurnOff
      PROVE  Sharing!Next
  <2>1. gate' = [remote |-> FALSE, automation |-> FALSE, capture |-> FALSE]
    BY <1>1 DEF TurnOff, Remote
  <2>2. ~gate'.automation /\ physical' = physical
    BY <1>1, <2>1 DEF TurnOff, Remote, Automation, ReleaseInjected
  <2>3. QED
    BY <2>2, GateLetsGo
<1>2. ASSUME NEW limit \in BOOLEAN, NEW idle \in BOOLEAN, NEW armed \in BOOLEAN,
             SetRemoteOn(limit, idle, armed)
      PROVE  [Sharing!Next]_(Sharing!seat)
  <2>1. CASE armed
    <3>1. PICK l : Remote(TRUE, l)
      BY <1>2, <2>1 DEF SetRemoteOn
    <3>2. gate'.automation /\ UNCHANGED <<physical, sess>>
      BY <3>1 DEF Remote, Automation, seat
    <3>3. gate.automation \/ \A s \in Session : sess[s].held = {}
      BY <1>2 DEF SetRemoteOn, Patient, Settled, Alive, ShareInv, Coupled,
                  IInv, Books, Stage
    <3>4. UNCHANGED Sharing!seat
      BY <3>2, <3>3, HoldsUnchanged
    <3>5. QED
      BY <3>4
  <2>2. CASE ~armed
    BY <1>1, <1>2, <2>2 DEF SetRemoteOn
  <2>3. QED
    BY <2>1, <2>2
<1>3. CASE SetRemoteOff \/ LeaseEnds
  BY <1>1, <1>3 DEF SetRemoteOff, LeaseEnds
<1>4. CASE \E on \in BOOLEAN : SetAutomation(on) \/ SetScreenCapture(on)
  BY <1>4 DEF SetAutomation, SetScreenCapture, Alone
<1>5. QED
  BY <1>2, <1>3, <1>4 DEF UserStep

\* The server resets its holds, and dies, only behind a gate that is or goes off.
LEMMA ServerShared ==
  ASSUME Alone, IInv, ShareInv, ShareInv', DownShared, DownShared',
         SupervisorStep \/ Register \/ Crash \/ DropServer
  PROVE  [Sharing!Next]_(Sharing!seat)
<1>0. sess \in Sessions
  BY DEF IInv, TypeOK, Sessions
<1>1. CASE ReadNotice \/ Bind \/ CloseListener \/ SeeGate \/ Register \/ Crash
  <2>1. UNCHANGED <<gate, physical, sess>>
    BY <1>1 DEF ReadNotice, Bind, CloseListener, SeeGate, Register, Crash, wm, seat
  <2>2. UNCHANGED Sharing!seat
    BY <2>1, HoldsUnchanged
  <2>3. QED
    BY <2>2
<1>2. ASSUME NEW armed \in BOOLEAN, ResetViewers(armed)
      PROVE  [Sharing!Next]_(Sharing!seat)
  <2> DEFINE f == [s \in Session |-> [sess[s] EXCEPT !.counted = FALSE]]
  <2>1. Report(0, armed, f)
    BY <1>2 DEF ResetViewers
  <2>2. \A s \in Session : f[s].held = sess[s].held /\ f[s].holding = sess[s].holding
    BY <1>0 DEF Sessions, SessionState
  <2> HIDE DEF f
  <2>3. QED
    BY <2>1, <2>2, ReportShared
<1>3. CASE ResetHolds
  <2>1. ~gate.remote /\ gate' = gate /\ physical' = physical
    BY <1>3 DEF ResetHolds, Supervise, ShareInv, Serving, wm, seat
  <2>2. QED
    BY <2>1, GateLetsGo DEF ShareInv, Coupled
<1>4. CASE EndAll
  <2>1. gate' = gate /\ physical' = physical
    BY <1>4 DEF EndAll, Supervise, wm, seat
  <2>2. \A s \in Session : sess'[s].held = sess[s].held /\ sess'[s].holding = sess[s].holding
    BY <1>0, <1>4 DEF EndAll, Sessions, SessionState
  <2>3. UNCHANGED Sharing!seat
    BY <2>1, <2>2, HoldsUnchanged
  <2>4. QED
    BY <2>3
<1>5. CASE DropServer
  <2>1. physical' = physical /\ ~gate'.remote
    BY <1>5 DEF DropServer, ReleaseInjected, seat
  <2>2. ~gate'.automation
    BY <2>1 DEF ShareInv, Coupled
  <2>3. QED
    BY <2>1, <2>2, GateLetsGo
<1>6. QED
  BY <1>1, <1>2, <1>3, <1>4, <1>5 DEF SupervisorStep

LEMMA SessionShared ==
  ASSUME IInv, DownShared, DownShared', NEW s \in Session,
         SessionStep(s) \/ ViewerStep(s)
  PROVE  [Sharing!Next]_(Sharing!seat)
<1>0. sess \in Sessions /\ Stage(sess[s])
  BY DEF IInv, TypeOK, Sessions, Books
<1>1. ASSUME NEW armed \in BOOLEAN, Join(s, armed)
      PROVE  [Sharing!Next]_(Sharing!seat)
  <2> DEFINE f == [sess EXCEPT ![s].pc = "joined", ![s].counted = TRUE]
  <2>1. Report(viewers + 1, armed, f)
    BY <1>1 DEF Join
  <2>2. \A x \in Session : f[x].held = sess[x].held /\ f[x].holding = sess[x].holding
    BY <1>0 DEF Sessions, SessionState
  <2> HIDE DEF f
  <2>3. QED
    BY <2>1, <2>2, ReportShared
<1>2. ASSUME NEW armed \in BOOLEAN, Leave(s, armed)
      PROVE  [Sharing!Next]_(Sharing!seat)
  <2> DEFINE f == [sess EXCEPT ![s] = NoSession]
  <2>1. \A x \in Session : /\ f[x].held = sess[x].held
                           /\ f[x].holding = sess[x].holding \/ f[x].held = {}
    BY <1>0, <1>2 DEF Sessions, NoSession, Leave, At, Stage
  <2>2. CASE sess[s].counted
    <3>1. Report(viewers - 1, armed, f)
      BY <1>2, <2>2 DEF Leave
    <3> HIDE DEF f
    <3>2. QED
      BY <2>1, <3>1, ReportShared
  <2>3. CASE ~sess[s].counted
    <3>1. sess' = f /\ UNCHANGED <<gate, physical>>
      BY <1>2, <2>3 DEF Leave, seat
    <3> HIDE DEF f
    <3>2. UNCHANGED Sharing!seat
      BY <2>1, <3>1, HoldsUnchanged
    <3>3. QED
      BY <3>2
  <2>4. QED
    BY <2>2, <2>3
<1>3. CASE Quiet(s)
  <2>1. PICK r : MovesOn(s, r)
    BY <1>3, QuietMoves
  <2>2. gate' = gate /\ physical' = physical
    BY <2>1 DEF MovesOn, wm, seat
  <2>3. \A x \in Session : sess'[x] = IF x = s THEN r ELSE sess[x]
    BY <1>0, <2>1 DEF MovesOn, Sessions
  <2>4. UNCHANGED Sharing!seat
    BY <2>1, <2>2, <2>3, HoldsUnchanged DEF MovesOn
  <2>5. QED
    BY <2>4
<1>4. CASE EndHolds(s)
  BY <1>4, EndHoldsShared
<1>5. ASSUME NEW c \in Code, NEW pressed \in BOOLEAN, Key(s, c, pressed)
      PROVE  [Sharing!Next]_(Sharing!seat)
  BY <1>5, KeyShared
<1>6. QED
  BY <1>1, <1>2, <1>3, <1>4, <1>5 DEF SessionStep, ViewerStep, Quiet

LEMMA SharingStep ==
  ASSUME Patient, Alone, IInv, ShareInv, ShareInv', DownShared, DownShared', [Next]_vars
  PROVE  [Sharing!Next]_(Sharing!seat)
<1>1. CASE LocalInput
  BY <1>1, LocalInputShared
<1>2. CASE UserStep \/ LeaseEnds
  BY <1>2, GateShared
<1>3. CASE SupervisorStep \/ Register \/ Crash \/ DropServer
  BY <1>3, ServerShared
<1>4. CASE \E s \in Session : SessionStep(s) \/ ViewerStep(s)
  BY <1>4, SessionShared
<1>5. CASE UNCHANGED vars
  <2>1. UNCHANGED <<gate, physical, sess>>
    BY <1>5 DEF vars, wm, seat
  <2>2. UNCHANGED Sharing!seat
    BY <2>1, HoldsUnchanged
  <2>3. QED
    BY <2>2
<1>6. QED
  BY <1>1, <1>2, <1>3, <1>4, <1>5 DEF Next

\* The viewers behind the remote server share the seat as if each were a source
\* of its own: the server's counts (holds.rs) and the WM's (inject.rs) add up
\* to one seat, through joins and ends, leases, timers and crashes. It takes a
\* user who lets the server catch up and no script at the coupled gates, which
\* would leave a code up that a viewer holds.
THEOREM ViewersAreSources ==
  ASSUME Patient, Alone
  PROVE  Spec => ViewersShareSeat
<1>1. Init => Sharing!Init
  BY SessionsAssumption DEF Init, SeatInit, NoSession, Sharing!Init
<1>2. IInv /\ ShareInv /\ ShareInv' /\ DownShared /\ DownShared' /\ [Next]_vars
        => [Sharing!Next]_(Sharing!seat)
  BY SharingStep
<1>3. QED
  BY <1>1, <1>2, SharedDown, Invariant, ShareInvariant, PTL
  DEF Spec, ViewersShareSeat, Sharing!Spec
=============================================================================
