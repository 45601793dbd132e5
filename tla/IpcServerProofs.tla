---------------------------- MODULE IpcServerProofs ----------------------------
(****************************************************************************)
(* Proofs about IpcServer, for every number of connections and windows.     *)
(*                                                                          *)
(* Handlers compose operators on one record (Now, Resolved, Settled, ...).  *)
(* Half(s) is what such a record keeps in the middle of a handler: books    *)
(* that agree, but a connection may have ended with its request parked.     *)
(* Whole(s) is what a handler leaves behind. Unparked and Settled make a    *)
(* whole record of a half one; Resolved keeps a whole one whole.            *)
(****************************************************************************)
EXTENDS IpcServer, TLAPS

State ==
  [conn : [Conn -> Client], park : [Conn -> Parks],
   remote : [on : BOOLEAN, server : Conn \cup {None}, viewers : BOOLEAN],
   automation : BOOLEAN, button : BOOLEAN]

\* A connection k and what it parked agree.
Kept(k, p) ==
  /\ p.kind # "none" => k.role = "request" /\ k.spent /\ (k.sock = "client" => k.replies = 0)
  /\ k.role = "request" => k.replies <= 1
  /\ k.role = "request" /\ ~k.spent => k.replies = 0
  /\ k.sock = "client" /\ k.role = "request" /\ k.spent => p.kind # "none"
  /\ k.sock = "none" => k.role = "request"
  /\ p.timed => p.kind \notin {"drag", "none"}

Half(s) ==
  /\ s \in State
  /\ \A c \in Conn : Kept(s.conn[c], s.park[c])
  /\ s.button => s.automation /\ \E c \in Conn : s.park[c].kind = "drag"
  /\ s.remote.server # None => s.conn[s.remote.server].role = "server"
  /\ s.remote.on => s.remote.server # None

ParksEnd(s) == \A c \in Conn : s.park[c].kind # "none" => s.conn[c].sock = "client"
GateHeld(s) == s.remote.on => s.conn[s.remote.server].sock = "client"
Whole(s) == Half(s) /\ ParksEnd(s) /\ GateHeld(s)

\* Of the parked requests p, some are left, unchanged as far as a map wait goes.
Fewer(p, q) ==
  \A c \in Conn : q[c].kind = "none" \/ (q[c].kind = p[c].kind /\ q[c].title = p[c].title)

Unmissed(p, ws) ==
  \A c \in Conn, w \in Window : ~(p[c].kind = "map" /\ Matches(p[c], ws[w]) /\ Ready(ws[w]))

\* A window whose size is known has been placed.
WindowsPlaced(ws) == ws \in [Window -> Windows] /\ \A w \in Window : ws[w].sized => ~ws[w].centre

Rest == {ping, xdisplay, locked} \subseteq BOOLEAN /\ env \in Env

IInv == Whole(Now) /\ WindowsPlaced(win) /\ Unmissed(park, win) /\ Rest

-----------------------------------------------------------------------------
(* A connection's queue.                                                   *)

LEMMA SentKeeps ==
  ASSUME NEW k \in Client, NEW n \in Nat
  PROVE  /\ Sent(k, n) \in Client
         /\ Sent(k, n).sock = k.sock /\ Sent(k, n).role = k.role /\ Sent(k, n).peer = k.peer
         /\ Sent(k, n).spent = k.spent /\ Sent(k, n).replies = k.replies
<1>1. CASE k.peer = "reading"
  BY <1>1 DEF Sent, Client
<1>2. CASE k.peer = "stalled"
  <2> DEFINE q == k.queue + n
  <2>1. q \in Nat
    BY DEF Client
  <2>2. Sent(k, n) = [k EXCEPT !.queue = q, !.wants = TRUE]
    BY <1>2 DEF Sent
  <2> HIDE DEF q
  <2>3. QED
    BY <2>1, <2>2 DEF Client
<1>3. CASE k.peer = "gone"
  BY <1>3 DEF Sent, Client
<1>4. QED
  BY <1>1, <1>2, <1>3 DEF Client

LEMMA RepliedKeeps ==
  ASSUME NEW k \in Client
  PROVE  /\ Replied(k) \in Client
         /\ Replied(k).sock = k.sock /\ Replied(k).role = k.role
         /\ \/ Replied(k).spent /\ Replied(k).replies = k.replies + 1
            \/ Replied(k).spent = k.spent /\ Replied(k).replies = k.replies
<1>1. /\ Sent(k, 1) \in Client
      /\ Sent(k, 1).sock = k.sock /\ Sent(k, 1).role = k.role
      /\ Sent(k, 1).spent = k.spent /\ Sent(k, 1).replies = k.replies
  BY SentKeeps
<1>2. CASE k.peer = "gone"
  BY <1>1, <1>2 DEF Replied
<1>3. CASE k.peer # "gone"
  <2> DEFINE s == Sent(k, 1)
             m == s.replies + 1
  <2>1. Replied(k) = [s EXCEPT !.spent = TRUE, !.replies = m]
    BY <1>3 DEF Replied
  <2>2. s \in Client /\ s.sock = k.sock /\ s.role = k.role
    BY <1>1
  <2>3. m \in Nat /\ m = k.replies + 1
    BY <1>1 DEF Client
  <2> HIDE DEF s, m
  <2>4. QED
    BY <2>1, <2>2, <2>3 DEF Client
<1>4. QED
  BY <1>2, <1>3

LEMMA DroppedKeeps ==
  ASSUME NEW k \in Client
  PROVE  /\ Dropped(k) \in Client
         /\ Dropped(k).role = k.role /\ Dropped(k).spent = k.spent
         /\ Dropped(k).replies = k.replies
         /\ k.sock = "client" => Dropped(k).sock \in {"linger", "closed"}
         /\ k.sock # "client" => Dropped(k) = k
BY DEF Dropped, Client

\* An answer to a request that had none is its only one, and ends it.
LEMMA AnsweredKeeps ==
  ASSUME NEW k \in Client, k.sock = "client"
  PROVE  /\ Answered(k) \in Client
         /\ Answered(k).sock \in {"linger", "closed"} /\ Answered(k).role = k.role
         /\ Answered(k).replies \in {k.replies, k.replies + 1}
         /\ k.spent => Answered(k).spent
         /\ Answered(k).spent \/ Answered(k).replies = k.replies
<1>1. /\ Replied(k) \in Client /\ Replied(k).sock = k.sock /\ Replied(k).role = k.role
      /\ \/ Replied(k).spent /\ Replied(k).replies = k.replies + 1
         \/ Replied(k).spent = k.spent /\ Replied(k).replies = k.replies
  BY RepliedKeeps
<1> DEFINE r == Replied(k)
<1> HIDE DEF r
<1>2. /\ Dropped(r) \in Client /\ Dropped(r).role = r.role /\ Dropped(r).spent = r.spent
      /\ Dropped(r).replies = r.replies /\ Dropped(r).sock \in {"linger", "closed"}
  BY <1>1, DroppedKeeps DEF r
<1>3. QED
  BY <1>1, <1>2 DEF Answered, r

\* An event to a connection changes its queue, or ends it.
LEMMA SubscribedKeeps ==
  ASSUME NEW k \in Client, k.sock = "client", NEW n \in Nat
  PROVE  /\ Subscribed(k, n) \in Client
         /\ Subscribed(k, n).role = k.role /\ Subscribed(k, n).spent = k.spent
         /\ Subscribed(k, n).replies = k.replies
         /\ Subscribed(k, n).sock # "none"
<1> DEFINE s == Sent(k, n)
           e == [s EXCEPT !.queue = 0]
<1>1. /\ s \in Client /\ s.sock = "client" /\ s.role = k.role
      /\ s.spent = k.spent /\ s.replies = k.replies
  BY SentKeeps
<1>2. Subscribed(k, n) \in {Dropped(s), Dropped(e), s}
  BY DEF Subscribed
<1> HIDE DEF s
<1>3. /\ e \in Client /\ e.sock = "client" /\ e.role = k.role
      /\ e.spent = k.spent /\ e.replies = k.replies
  BY <1>1 DEF Client
<1> HIDE DEF e
<1>4. /\ Dropped(s) \in Client /\ Dropped(s).role = k.role /\ Dropped(s).spent = k.spent
      /\ Dropped(s).replies = k.replies /\ Dropped(s).sock # "none"
  BY <1>1, DroppedKeeps
<1>5. /\ Dropped(e) \in Client /\ Dropped(e).role = k.role /\ Dropped(e).spent = k.spent
      /\ Dropped(e).replies = k.replies /\ Dropped(e).sock # "none"
  BY <1>3, DroppedKeeps
<1>6. QED
  BY <1>1, <1>2, <1>4, <1>5

\* Events go to subscribers only.
LEMMA PushedKeeps ==
  ASSUME NEW cn \in [Conn -> Client], NEW n \in Nat
  PROVE  /\ Pushed(cn, n) \in [Conn -> Client]
         /\ \A c \in Conn :
              /\ Pushed(cn, n)[c].role = cn[c].role
              /\ Pushed(cn, n)[c].spent = cn[c].spent
              /\ Pushed(cn, n)[c].replies = cn[c].replies
              /\ cn[c].role = "request" => Pushed(cn, n)[c] = cn[c]
              /\ Pushed(cn, n)[c].sock = "client" => cn[c].sock = "client"
              /\ Pushed(cn, n)[c].sock = "none" => cn[c].sock = "none"
<1> SUFFICES ASSUME NEW c \in Conn
             PROVE  /\ Pushed(cn, n)[c] \in Client
                    /\ Pushed(cn, n)[c].role = cn[c].role
                    /\ Pushed(cn, n)[c].spent = cn[c].spent
                    /\ Pushed(cn, n)[c].replies = cn[c].replies
                    /\ cn[c].role = "request" => Pushed(cn, n)[c] = cn[c]
                    /\ Pushed(cn, n)[c].sock = "client" => cn[c].sock = "client"
                    /\ Pushed(cn, n)[c].sock = "none" => cn[c].sock = "none"
  BY DEF Pushed
<1>1. CASE IsSubscriber(cn[c]) /\ n > 0
  <2>1. Pushed(cn, n)[c] = Subscribed(cn[c], n) /\ cn[c].sock = "client" /\ cn[c].role # "request"
    BY <1>1 DEF Pushed, IsSubscriber
  <2>2. QED
    BY <2>1, SubscribedKeeps
<1>2. CASE ~(IsSubscriber(cn[c]) /\ n > 0)
  BY <1>2 DEF Pushed
<1>3. QED
  BY <1>1, <1>2

-----------------------------------------------------------------------------
(* The books.                                                              *)

LEMMA NoParkIsPark == NoPark \in Parks /\ NoPark.kind = "none" /\ ~NoPark.timed
<1>1. 0 \in 0..(Steps + 1)
  BY BoundAssumption
<1>2. QED
  BY <1>1 DEF NoPark, Parks

LEMMA AnsweredKept ==
  ASSUME NEW k \in Client, k.sock = "client", NEW p \in Parks, Kept(k, p),
         NEW q \in {p, NoPark}
  PROVE  Kept(Answered(k), q)
<1>1. /\ Answered(k) \in Client
      /\ Answered(k).sock \in {"linger", "closed"} /\ Answered(k).role = k.role
      /\ Answered(k).replies \in {k.replies, k.replies + 1}
      /\ k.spent => Answered(k).spent
      /\ Answered(k).spent \/ Answered(k).replies = k.replies
  BY AnsweredKeeps
<1>2. k.role = "request" => k.replies = 0
  BY DEF Kept, Client
<1>3. k.role = "request" => Answered(k).replies <= 1
  BY <1>1, <1>2
<1>4. q = p \/ (q.kind = "none" /\ ~q.timed)
  BY NoParkIsPark
<1>5. QED
  BY <1>1, <1>2, <1>3, <1>4 DEF Kept, Client

\* Answering requests leaves books that agree.
LEMMA ResolvedKeeps ==
  ASSUME NEW s, Half(s), NEW cs \in SUBSET Conn,
         \A c \in cs : s.conn[c].sock = "client" /\ s.conn[c].role = "request",
         s.button => \A c \in cs : s.park[c].kind # "drag"
  PROVE  /\ Half(Resolved(s, cs))
         /\ ParksEnd(s) => ParksEnd(Resolved(s, cs))
         /\ GateHeld(s) => GateHeld(Resolved(s, cs))
         /\ Fewer(s.park, Resolved(s, cs).park)
         /\ Resolved(s, cs).button = s.button /\ Resolved(s, cs).remote = s.remote
<1> DEFINE r == Resolved(s, cs)
<1>1. /\ s \in State /\ s.conn \in [Conn -> Client] /\ s.park \in [Conn -> Parks]
      /\ \A c \in Conn : Kept(s.conn[c], s.park[c])
  BY DEF Half, State
<1>2. /\ r.conn = [c \in Conn |-> IF c \in cs THEN Answered(s.conn[c]) ELSE s.conn[c]]
      /\ r.park = [c \in Conn |-> IF c \in cs THEN NoPark ELSE s.park[c]]
      /\ r.remote = s.remote /\ r.automation = s.automation /\ r.button = s.button
      /\ r = [s EXCEPT !.conn = r.conn, !.park = r.park]
  BY <1>1 DEF Resolved, State
<1>3. \A c \in Conn :
        /\ r.conn[c] \in Client /\ r.conn[c].role = s.conn[c].role
        /\ Kept(r.conn[c], r.park[c]) /\ r.park[c] \in Parks
  <2> TAKE c \in Conn
  <2>1. CASE c \in cs
    BY <2>1, <1>1, <1>2, AnsweredKeeps, AnsweredKept, NoParkIsPark
  <2>2. CASE c \notin cs
    BY <2>2, <1>1, <1>2
  <2>3. QED
    BY <2>1, <2>2
<1>4. r.conn \in [Conn -> Client] /\ r.park \in [Conn -> Parks]
  BY <1>2, <1>3
<1> HIDE DEF r
<1>5. r \in State
  BY <1>1, <1>2, <1>4 DEF State
<1>6. r.button => r.automation /\ \E c \in Conn : r.park[c].kind = "drag"
  <2> SUFFICES ASSUME r.button
               PROVE  r.automation /\ \E c \in Conn : r.park[c].kind = "drag"
    OBVIOUS
  <2>1. s.button /\ s.automation
    BY <1>2 DEF Half
  <2>2. PICK c \in Conn : s.park[c].kind = "drag"
    BY <2>1 DEF Half
  <2>3. r.park[c].kind = "drag"
    BY <2>1, <2>2, <1>2
  <2>4. QED
    BY <2>1, <2>3, <1>2
<1>7. s.remote.server \in Conn \cup {None}
  BY <1>1 DEF State
<1>8. r.remote.server # None => r.conn[r.remote.server].role = "server"
  BY <1>2, <1>3, <1>7 DEF Half
<1>9. r.remote.on => r.remote.server # None
  BY <1>2 DEF Half
<1>10. Half(r)
  BY <1>3, <1>5, <1>6, <1>8, <1>9 DEF Half
<1>11. ParksEnd(s) => ParksEnd(r)
  BY <1>2, NoParkIsPark DEF ParksEnd
<1>12. GateHeld(s) => GateHeld(r)
  BY <1>2, <1>7 DEF GateHeld, Half
<1>13. Fewer(s.park, r.park)
  BY <1>2, NoParkIsPark DEF Fewer
<1>14. QED
  BY <1>2, <1>10, <1>11, <1>12, <1>13 DEF r

\* A connection's end takes its parked request with it.
LEMMA UnparkedKeeps ==
  ASSUME NEW s, Half(s)
  PROVE  /\ Half(Unparked(s)) /\ ParksEnd(Unparked(s))
         /\ GateHeld(s) => GateHeld(Unparked(s))
         /\ Fewer(s.park, Unparked(s).park)
         /\ Unparked(s).conn = s.conn /\ Unparked(s).remote = s.remote
         /\ \A c \in Conn : s.conn[c].sock = "client" => Unparked(s).park[c] = s.park[c]
<1> DEFINE u == Unparked(s)
           gone == {c \in Conn : s.conn[c].sock # "client"}
<1>1. /\ s \in State /\ s.conn \in [Conn -> Client] /\ s.park \in [Conn -> Parks]
      /\ \A c \in Conn : Kept(s.conn[c], s.park[c])
      /\ s.button \in BOOLEAN
  BY DEF Half, State
<1>2. /\ u.conn = s.conn /\ u.remote = s.remote /\ u.automation = s.automation
      /\ u.park = [c \in Conn |-> IF c \in gone THEN NoPark ELSE s.park[c]]
      /\ u.button = (s.button /\ ~\E c \in gone : s.park[c].kind = "drag")
      /\ u = [s EXCEPT !.button = u.button, !.park = u.park]
  BY <1>1 DEF Unparked, State
<1> HIDE DEF u
<1>3. u.park \in [Conn -> Parks] /\ u.button \in BOOLEAN
  <2>1. \A c \in Conn : (IF c \in gone THEN NoPark ELSE s.park[c]) \in Parks
    BY <1>1, NoParkIsPark
  <2>2. u.park \in [Conn -> Parks]
    BY <1>2, <2>1
  <2>3. u.button \in BOOLEAN
    BY <1>2
  <2>4. QED
    BY <2>2, <2>3
<1>4. u \in State
  BY <1>1, <1>2, <1>3 DEF State
<1>5. \A c \in Conn : Kept(u.conn[c], u.park[c])
  <2> TAKE c \in Conn
  <2>1. CASE c \in gone
    <3>1. u.conn[c] = s.conn[c] /\ u.park[c] = NoPark /\ s.conn[c].sock # "client"
      BY <1>2, <2>1
    <3>2. QED
      BY <1>1, <3>1, NoParkIsPark DEF Kept
  <2>2. CASE c \notin gone
    BY <1>1, <1>2, <2>2
  <2>3. QED
    BY <2>1, <2>2
<1>6. u.button => u.automation /\ \E c \in Conn : u.park[c].kind = "drag"
  <2> SUFFICES ASSUME u.button
               PROVE  u.automation /\ \E c \in Conn : u.park[c].kind = "drag"
    OBVIOUS
  <2>1. s.button /\ ~\E c \in gone : s.park[c].kind = "drag"
    BY <1>2
  <2>2. PICK c \in Conn : s.park[c].kind = "drag"
    BY <2>1 DEF Half
  <2>3. u.park[c].kind = "drag"
    <3>1. c \notin gone
      BY <2>1, <2>2
    <3>2. QED
      BY <2>2, <3>1, <1>2
  <2>4. u.automation
    BY <2>1, <1>2 DEF Half
  <2>5. QED
    BY <2>3, <2>4
<1>7. Half(u)
  BY <1>2, <1>4, <1>5, <1>6 DEF Half
<1>8. ParksEnd(u)
  <2> SUFFICES ASSUME NEW c \in Conn, u.park[c].kind # "none"
               PROVE  u.conn[c].sock = "client"
    BY DEF ParksEnd
  <2>1. c \notin gone
    <3>1. c \in gone => u.park[c] = NoPark
      BY <1>2
    <3>2. QED
      BY <3>1, NoParkIsPark
  <2>2. QED
    BY <1>2, <2>1
<1>9. Fewer(s.park, u.park)
  BY <1>2, NoParkIsPark DEF Fewer
<1>10. (GateHeld(s) => GateHeld(u)) /\ \A c \in Conn : s.conn[c].sock = "client" => u.park[c] = s.park[c]
  BY <1>2 DEF GateHeld
<1>11. QED
  BY <1>2, <1>7, <1>8, <1>9, <1>10 DEF u

LEMMA GateSetKeeps ==
  ASSUME NEW s, Half(s), NEW on \in BOOLEAN
  PROVE  /\ Half(GateSet(s, on))
         /\ GateSet(s, on).conn = s.conn /\ GateSet(s, on).park = s.park
         /\ GateSet(s, on).remote = s.remote
BY DEF GateSet, Half, State

LEMMA ToldKeeps ==
  ASSUME NEW s, Half(s), NEW n \in Nat
  PROVE  /\ Half([s EXCEPT !.conn = Pushed(@, n)])
         /\ [s EXCEPT !.conn = Pushed(@, n)].conn = Pushed(s.conn, n)
<1> DEFINE cn == Pushed(s.conn, n)
           t == [s EXCEPT !.conn = cn]
<1>1. s \in State /\ s.conn \in [Conn -> Client]
  BY DEF Half, State
<1>2. cn \in [Conn -> Client]
  BY <1>1, PushedKeeps
<1>3. \A c \in Conn : /\ cn[c].role = s.conn[c].role /\ cn[c].spent = s.conn[c].spent
                      /\ cn[c].replies = s.conn[c].replies
                      /\ cn[c].sock = "client" => s.conn[c].sock = "client"
                      /\ cn[c].sock = "none" => s.conn[c].sock = "none"
  BY <1>1, PushedKeeps
<1> HIDE DEF cn
<1>4. /\ t \in State /\ t.conn = cn /\ t.park = s.park /\ t.remote = s.remote
      /\ t.automation = s.automation /\ t.button = s.button
  BY <1>1, <1>2 DEF State
<1> HIDE DEF t
<1>5. \A c \in Conn : Kept(t.conn[c], t.park[c])
  BY <1>3, <1>4 DEF Half, Kept
<1>6. t.remote.server \in Conn \cup {None}
  BY <1>4 DEF State
<1>7. t.remote.server # None => t.conn[t.remote.server].role = "server"
  BY <1>3, <1>4, <1>6 DEF Half
<1>8. Half(t)
  BY <1>4, <1>5, <1>7 DEF Half
<1>9. QED
  BY <1>4, <1>8 DEF t, cn

\* Every subscriber is told, and what this ends is cleaned up.
LEMMA SettledKeeps ==
  ASSUME NEW s, Half(s), NEW n \in Nat
  PROVE  /\ Whole(Settled(s, n))
         /\ Fewer(s.park, Settled(s, n).park)
         /\ \A c \in Conn : s.conn[c].role = "request" =>
              /\ Settled(s, n).conn[c] = s.conn[c]
              /\ s.conn[c].sock = "client" => Settled(s, n).park[c] = s.park[c]
<1> DEFINE told == [s EXCEPT !.conn = Pushed(@, n)]
           torn == ServerTornDown(told)
           m == TeardownNews(told)
           down == [torn EXCEPT !.conn = Pushed(@, m)]
           last == IF ServerLost(told) THEN down ELSE told
<1>1. Half(told) /\ told.conn = Pushed(s.conn, n)
  BY ToldKeeps
<1>2. told.park = s.park
  BY DEF Half, State
<1>3. \A c \in Conn : s.conn[c].role = "request" => told.conn[c] = s.conn[c]
  BY <1>1, PushedKeeps DEF Half, State
<1>4. Half(torn) /\ torn.conn = told.conn /\ torn.park = told.park /\ torn.remote = NoServer
  <2> HIDE DEF told
  <2>1. Half(GateSet(told, FALSE)) /\ GateSet(told, FALSE).conn = told.conn
        /\ GateSet(told, FALSE).park = told.park
    BY <1>1, GateSetKeeps
  <2>2. \A x : Half(x) => /\ Half([x EXCEPT !.remote = NoServer])
                          /\ [x EXCEPT !.remote = NoServer].conn = x.conn
                          /\ [x EXCEPT !.remote = NoServer].park = x.park
                          /\ [x EXCEPT !.remote = NoServer].remote = NoServer
    BY DEF Half, State, NoServer
  <2>3. QED
    BY <1>1, <2>1, <2>2 DEF ServerTornDown
<1>5. m \in Nat
  BY DEF TeardownNews
<1> HIDE DEF told, torn, m
<1>6. Half(down) /\ down.conn = Pushed(torn.conn, m) /\ down.park = s.park /\ down.remote = NoServer
  <2>1. Half(down) /\ down.conn = Pushed(torn.conn, m)
    BY <1>4, <1>5, ToldKeeps
  <2>2. torn \in State
    BY <1>4 DEF Half
  <2>3. down.park = torn.park /\ down.remote = torn.remote
    BY <2>2 DEF State
  <2>4. QED
    BY <1>2, <1>4, <2>1, <2>3
<1>7. \A c \in Conn : s.conn[c].role = "request" => down.conn[c] = s.conn[c]
  <2>1. torn.conn \in [Conn -> Client]
    BY <1>4 DEF Half, State
  <2>2. QED
    BY <1>3, <1>4, <1>5, <1>6, <2>1, PushedKeeps
<1> HIDE DEF down
<1>8. GateHeld(last)
  <2>1. CASE ServerLost(told)
    BY <2>1, <1>6 DEF GateHeld, NoServer
  <2>2. CASE ~ServerLost(told)
    BY <2>2, <1>1 DEF GateHeld, ServerLost, Half
  <2>3. QED
    BY <2>1, <2>2
<1>9. /\ Half(last) /\ last.park = s.park
      /\ \A c \in Conn : s.conn[c].role = "request" => last.conn[c] = s.conn[c]
  BY <1>1, <1>2, <1>3, <1>6, <1>7
<1>10. Settled(s, n) = Unparked(last)
  BY DEF Settled, told, torn, m, down
<1> HIDE DEF last
<1>11. QED
  BY <1>8, <1>9, <1>10, UnparkedKeeps DEF Whole

\* Half operations in front of Resolved and Settled.
LEMMA AfterResolved ==
  ASSUME NEW s, Half(s), NEW cs \in SUBSET Conn,
         \A c \in cs : s.conn[c].sock = "client" /\ s.conn[c].role = "request",
         s.button => \A c \in cs : s.park[c].kind # "drag",
         NEW n \in Nat
  PROVE  /\ Whole(Settled(Resolved(s, cs), n))
         /\ Fewer(s.park, Settled(Resolved(s, cs), n).park)
<1> DEFINE r == Resolved(s, cs)
<1>1. Half(r) /\ Fewer(s.park, r.park)
  BY ResolvedKeeps
<1> HIDE DEF r
<1>2. Whole(Settled(r, n)) /\ Fewer(r.park, Settled(r, n).park)
  BY <1>1, SettledKeeps
<1>3. Fewer(s.park, Settled(r, n).park)
  BY <1>1, <1>2 DEF Fewer
<1>4. QED
  BY <1>2, <1>3 DEF r

\* Answering parked requests, whatever else they hold, in a whole record.
LEMMA AnswersKeep ==
  ASSUME NEW s, Whole(s), NEW cs \in SUBSET Conn,
         \A c \in cs : s.conn[c].sock = "client" /\ s.conn[c].role = "request",
         s.button => \A c \in cs : s.park[c].kind # "drag"
  PROVE  /\ Whole(Resolved(s, cs)) /\ Fewer(s.park, Resolved(s, cs).park)
         /\ Whole(Unparked(Resolved(s, cs))) /\ Fewer(s.park, Unparked(Resolved(s, cs)).park)
<1> DEFINE r == Resolved(s, cs)
<1>1. Whole(r) /\ Fewer(s.park, r.park)
  BY ResolvedKeeps DEF Whole
<1> HIDE DEF r
<1>2. Whole(Unparked(r)) /\ Fewer(r.park, Unparked(r).park)
  BY <1>1, UnparkedKeeps DEF Whole
<1>3. Fewer(s.park, Unparked(r).park)
  BY <1>1, <1>2 DEF Fewer
<1>4. QED
  BY <1>1, <1>2, <1>3 DEF r

LEMMA ParkedAsks ==
  ASSUME NEW s, Whole(s), NEW c \in Conn, s.park[c].kind # "none"
  PROVE  s.conn[c].sock = "client" /\ s.conn[c].role = "request"
BY DEF Whole, Half, Kept, ParksEnd

LEMMA FewerUnmissed ==
  ASSUME NEW p, NEW q, NEW ws, Fewer(p, q), Unmissed(p, ws)
  PROVE  Unmissed(q, ws)
BY DEF Fewer, Unmissed, Matches

\* Once the waits have been looked at, no ready window is missed.
LEMMA MapResolvedKeeps ==
  ASSUME NEW s, Whole(s), NEW ws
  PROVE  LET r == MapResolved(s, ws)
         IN Whole(r) /\ Whole(Unparked(r)) /\ Unmissed(r.park, ws) /\ Unmissed(Unparked(r).park, ws)
            /\ \A c \in Conn : s.park[c].kind # "map" => r.conn[c] = s.conn[c]
<1> DEFINE cs == {c \in Conn : s.park[c].kind = "map"
                               /\ \E w \in Window : Matches(s.park[c], ws[w]) /\ Ready(ws[w])}
           r == Resolved(s, cs)
<1>1. \A c \in cs : s.conn[c].sock = "client" /\ s.conn[c].role = "request"
  BY ParkedAsks
<1>2. Whole(r) /\ Whole(Unparked(r)) /\ Fewer(r.park, Unparked(r).park)
  <2>1. Whole(r) /\ Whole(Unparked(r))
    BY <1>1, AnswersKeep
  <2>2. QED
    BY <2>1, UnparkedKeeps DEF Whole
<1>3. /\ r.park = [c \in Conn |-> IF c \in cs THEN NoPark ELSE s.park[c]]
      /\ r.conn = [c \in Conn |-> IF c \in cs THEN Answered(s.conn[c]) ELSE s.conn[c]]
  BY DEF Resolved, Whole, Half, State
<1>4. Unmissed(r.park, ws)
  BY <1>3, NoParkIsPark DEF Unmissed, Matches
<1>5. Unmissed(Unparked(r).park, ws)
  BY <1>2, <1>4, FewerUnmissed
<1>6. \A c \in Conn : s.park[c].kind # "map" => r.conn[c] = s.conn[c]
  BY <1>3
<1>7. MapResolved(s, ws) = r
  BY DEF MapResolved
<1>8. QED
  BY <1>2, <1>4, <1>5, <1>6, <1>7

-----------------------------------------------------------------------------
(* Handlers.                                                               *)

LEMMA NowIs ==
  /\ Now.conn = conn /\ Now.park = park /\ Now.remote = remote
  /\ Now.automation = automation /\ Now.button = button
BY DEF Now

\* What a handler leaves is the next state.
LEMMA Becomes ==
  ASSUME IInv, NEW s, Whole(s), Become(s), {xdisplay', locked'} \subseteq BOOLEAN, env' = env
  PROVE  Whole(Now)' /\ Rest' /\ park' = s.park
<1>1. s \in State
  BY DEF Whole, Half
<1>2. Now' = s
  BY <1>1 DEF Become, Now, State
<1>3. Whole(Now')
  BY <1>2
<1>4. Rest'
  BY DEF IInv, Rest, Become
<1>5. QED
  BY <1>3, <1>4 DEF Become

\* A handler that leaves the windows alone and adds no wait keeps the invariant.
LEMMA BecomesFewer ==
  ASSUME IInv, NEW s, Whole(s), Become(s), Fewer(park, s.park), UNCHANGED win,
         {xdisplay', locked'} \subseteq BOOLEAN, env' = env
  PROVE  IInv'
<1>1. Whole(Now)' /\ Rest' /\ park' = s.park
  BY Becomes
<1>2. Unmissed(s.park, win)
  BY FewerUnmissed DEF IInv
<1>3. QED
  BY <1>1, <1>2 DEF IInv

LEMMA WorldRests ==
  ASSUME IInv, UNCHANGED world
  PROVE  UNCHANGED win /\ {xdisplay', locked'} \subseteq BOOLEAN /\ env' = env
BY DEF IInv, Rest, world

LEMMA AskerIsFree ==
  ASSUME IInv, NEW c \in Conn, Asks(c)
  PROVE  /\ conn[c].sock = "client" /\ conn[c].role = "request" /\ ~conn[c].spent
         /\ conn[c].replies = 0 /\ park[c].kind = "none" /\ remote.server # c
         /\ conn[c] \in Client
<1>1. Half(Now) /\ Now \in State
  BY DEF IInv, Whole, Half
<1>2. conn[c] \in Client /\ Kept(conn[c], park[c])
  BY <1>1, NowIs DEF Half, State
<1>3. remote.server = c => remote.server # None
  BY NoneAssumption
<1>4. remote.server # c
  BY <1>1, <1>3, NowIs DEF Half, Asks
<1>5. QED
  BY <1>2, <1>4 DEF Kept, Asks, Connected

\* One connection answered, the others told, after a change of s elsewhere.
LEMMA AnswerAndTell ==
  ASSUME IInv, NEW s, Half(s), s.conn = conn, s.park = park, NEW c \in Conn, Asks(c),
         NEW n \in Nat, Become(Settled(Resolved(s, {c}), n)), UNCHANGED world
  PROVE  IInv'
<1> DEFINE t == Settled(Resolved(s, {c}), n)
<1>1. /\ {c} \in SUBSET Conn
      /\ \A d \in {c} : s.conn[d].sock = "client" /\ s.conn[d].role = "request"
      /\ \A d \in {c} : s.park[d].kind # "drag"
  BY AskerIsFree
<1>2. Whole(t) /\ Fewer(s.park, t.park)
  BY <1>1, AfterResolved
<1> HIDE DEF t
<1>3. QED
  BY <1>2, BecomesFewer, WorldRests DEF t

LEMMA ReplyToKeeps ==
  ASSUME IInv, NEW c \in Conn, Asks(c), NEW n \in Nat, ReplyTo(c, n), UNCHANGED world
  PROVE  IInv'
BY AnswerAndTell, NowIs DEF ReplyTo, IInv, Whole

LEMMA OneShotsKeep ==
  ASSUME IInv, NEW c \in Conn,
         Query(c) \/ SessionRequest(c) \/ WindowRequest(c) \/ InputRequest(c)
  PROVE  IInv'
<1>1. \E news \in 0..2 : Asks(c) /\ ReplyTo(c, news) /\ UNCHANGED world
  BY DEF Query, SessionRequest, WindowRequest, InputRequest, OneShot
<1>2. QED
  BY <1>1, ReplyToKeeps

LEMMA GatesKeep ==
  ASSUME IInv, NEW c \in Conn, NEW on \in BOOLEAN,
         SetAutomation(c, on) \/ SetRemote(c, on) \/ ReportRemoteViewers(c, on)
  PROVE  IInv'
<1>1. Asks(c) /\ UNCHANGED world /\ Half(Now)
  BY DEF SetAutomation, SetRemote, ReportRemoteViewers, IInv, Whole
<1>2. Half(GateSet(Now, on)) /\ GateSet(Now, on).conn = conn /\ GateSet(Now, on).park = park
      /\ GateSet(Now, on).remote = remote
  BY <1>1, GateSetKeeps, NowIs
<1>3. CASE SetAutomation(c, on)
  <2> DEFINE n == IF on # automation THEN 2 ELSE 0
  <2>1. n \in Nat
    OBVIOUS
  <2>2. Become(Settled(Resolved(GateSet(Now, on), {c}), n))
    BY <1>3 DEF SetAutomation
  <2> HIDE DEF n
  <2>3. QED
    BY <1>1, <1>2, <2>1, <2>2, AnswerAndTell
<1>4. CASE SetRemote(c, on)
  <2>1. CASE on /\ remote.server = None
    BY <1>1, <1>4, <2>1, ReplyToKeeps DEF SetRemote
  <2>2. CASE ~(on /\ remote.server = None)
    <3> DEFINE g == GateSet(Now, on)
               t == [g EXCEPT !.remote.on = on, !.remote.viewers = @ /\ on]
               n == (IF on # remote.on THEN 1 ELSE 0) + (IF on # automation THEN 2 ELSE 0)
    <3>1. n \in Nat
      OBVIOUS
    <3>2. Become(Settled(Resolved(t, {c}), n))
      BY <1>4, <2>2 DEF SetRemote
    <3>3. /\ g \in State /\ g.remote = remote
          /\ remote \in [on : BOOLEAN, server : Conn \cup {None}, viewers : BOOLEAN]
          /\ g.conn = conn /\ g.park = park /\ Half(g)
      BY <1>2 DEF Half, State
    <3> HIDE DEF n, g
    <3>4. /\ t.remote \in [on : BOOLEAN, server : Conn \cup {None}, viewers : BOOLEAN]
          /\ t.remote.on = on /\ t.remote.server = remote.server
      <4> DEFINE v == remote.viewers /\ on
                 u == [[remote EXCEPT !.on = on] EXCEPT !.viewers = v]
      <4>1. v \in BOOLEAN
        OBVIOUS
      <4> HIDE DEF v
      <4>2. u \in [on : BOOLEAN, server : Conn \cup {None}, viewers : BOOLEAN]
        BY <3>3, <4>1
      <4>3. u.on = on /\ u.server = remote.server
        BY <3>3, <4>1
      <4>4. t.remote = u
        BY <3>3 DEF State, v
      <4>5. QED
        BY <4>2, <4>3, <4>4
    <3>5. t \in State /\ t.conn = conn /\ t.park = park
          /\ t.button = g.button /\ t.automation = g.automation
      BY <3>3, <3>4 DEF State
    <3> HIDE DEF t
    <3>6. Half(t)
      BY <2>2, <3>3, <3>4, <3>5 DEF Half
    <3>7. QED
      BY <1>1, <3>1, <3>2, <3>5, <3>6, AnswerAndTell
  <2>3. QED
    BY <2>1, <2>2
<1>5. CASE ReportRemoteViewers(c, on)
  <2> DEFINE n == IF on # remote.viewers THEN 1 ELSE 0
             t == [Now EXCEPT !.remote.viewers = on]
  <2>1. n \in Nat
    OBVIOUS
  <2>2. Become(Settled(Resolved(t, {c}), n))
    BY <1>5 DEF ReportRemoteViewers
  <2>3. Half(t) /\ t.conn = conn /\ t.park = park
    BY <1>1 DEF Half, State, Now
  <2> HIDE DEF n, t
  <2>4. QED
    BY <1>1, <2>1, <2>2, <2>3, AnswerAndTell
<1>6. QED
  BY <1>3, <1>4, <1>5

\* One connection changes, whatever its new role.
LEMMA OneConn ==
  ASSUME NEW s, Half(s), NEW c \in Conn, NEW k \in Client, Kept(k, s.park[c]),
         s.remote.server = c => k.role = "server"
  PROVE  LET t == [s EXCEPT !.conn[c] = k]
         IN /\ Half(t) /\ t.park = s.park /\ t.remote = s.remote
            /\ t.conn = [s.conn EXCEPT ![c] = k]
<1> DEFINE t == [s EXCEPT !.conn[c] = k]
<1>1. s \in State /\ s.conn \in [Conn -> Client]
  BY DEF Half, State
<1>2. /\ t \in State /\ t.conn = [s.conn EXCEPT ![c] = k] /\ t.park = s.park
      /\ t.remote = s.remote /\ t.automation = s.automation /\ t.button = s.button
  BY <1>1 DEF State
<1> HIDE DEF t
<1>3. \A d \in Conn : Kept(t.conn[d], t.park[d])
  BY <1>1, <1>2 DEF Half
<1>4. t.remote.server # None => t.conn[t.remote.server].role = "server"
  BY <1>1, <1>2 DEF Half
<1>5. Half(t)
  BY <1>2, <1>3, <1>4 DEF Half
<1>6. QED
  BY <1>2, <1>5 DEF t

\* Closing or shrinking a connection's queue leaves its requests' books alone.
LEMMA SameKept ==
  ASSUME NEW k, NEW p, Kept(k, p), NEW l, l.role = k.role, l.spent = k.spent,
         l.replies = k.replies, l.sock = "client" => k.sock = "client",
         l.sock = "none" => k.sock = "none"
  PROVE  Kept(l, p)
BY DEF Kept

With(c, k) == [Now EXCEPT !.conn[c] = k]

LEMMA WithIs ==
  ASSUME NEW c \in Conn, NEW k
  PROVE  /\ With(c, k).conn = [conn EXCEPT ![c] = k] /\ With(c, k).park = park
         /\ With(c, k).remote = remote /\ With(c, k).automation = automation
         /\ With(c, k).button = button
BY DEF With, Now

\* A connection's queue, peer or flush source changes; it parks nothing if it ends,
\* and is not the server's.
LEMMA OneQueue ==
  ASSUME IInv, NEW c \in Conn, NEW k \in Client,
         k.role = conn[c].role, k.spent = conn[c].spent, k.replies = conn[c].replies,
         \/ k.sock = conn[c].sock
         \/ /\ conn[c].sock \notin {"none", "client"} \/ conn[c].role = "metrics"
            /\ k.sock \notin {"none", "client"}
  PROVE  Whole(With(c, k))
<1> DEFINE t == With(c, k)
<1>1. Whole(Now) /\ Half(Now)
  BY DEF IInv, Whole
<1>2. Kept(conn[c], park[c]) /\ Kept(k, park[c]) /\ (remote.server = c => k.role = "server")
  <2>1. Kept(conn[c], park[c])
    BY <1>1, NowIs DEF Half
  <2>2. remote.server = c => conn[c].role = "server"
    BY <1>1, NowIs, NoneAssumption DEF Half
  <2>3. Kept(k, park[c])
    BY <2>1, SameKept
  <2>4. QED
    BY <2>1, <2>2, <2>3
<1>3. /\ Half(t) /\ t.park = park /\ t.remote = remote
      /\ t.conn = [conn EXCEPT ![c] = k]
  BY <1>1, <1>2, NowIs, OneConn DEF With
<1> HIDE DEF t
<1>4. conn \in [Conn -> Client] /\ remote.server \in Conn \cup {None}
  BY <1>1, NowIs DEF Half, State
<1>5. ParksEnd(t)
  BY <1>1, <1>2, <1>3, <1>4, NowIs DEF ParksEnd, Whole, Kept
<1>6. GateHeld(t)
  BY <1>1, <1>2, <1>3, <1>4, NowIs DEF GateHeld, Whole, Half
<1>7. QED
  BY <1>3, <1>5, <1>6 DEF t, Whole

LEMMA FewerSame == \A p : Fewer(p, p)
BY DEF Fewer

\* conn' may be given without Become.
LEMMA ConnKeeps ==
  ASSUME IInv, NEW s, Whole(s), s.park = park, conn' = s.conn, ping' \in BOOLEAN,
         UNCHANGED <<park, remote, automation, button, world>>,
         s.remote = remote, s.automation = automation, s.button = button
  PROVE  IInv'
<1>1. s \in State
  BY DEF Whole, Half
<1>2. Now' = s
  BY <1>1 DEF Now, State
<1>3. Whole(Now')
  BY <1>2
<1>4. QED
  BY <1>3 DEF IInv, Rest, world

LEMMA PeersKeep ==
  ASSUME IInv, NEW c \in Conn,
         Accept(c) \/ \E peer \in {"reading", "stalled", "gone"} : PeerTurns(c, peer)
  PROVE  IInv'
<1>1. /\ Whole(Now) /\ Half(Now) /\ conn \in [Conn -> Client] /\ ping \in BOOLEAN
  BY NowIs DEF IInv, Whole, Half, State, Rest
<1>2. CASE Accept(c)
  <2> DEFINE t == With(c, NewClient)
  <2>1. NewClient \in Client /\ NewClient.role = "request" /\ ~NewClient.spent
        /\ NewClient.replies = 0 /\ NewClient.sock = "client"
    BY DEF NewClient, Client, Roles
  <2>2. conn[c].sock = "none" /\ conn' = [conn EXCEPT ![c] = NewClient]
        /\ ping' = ping /\ UNCHANGED <<park, remote, automation, button, world>>
    BY <1>2 DEF Accept
  <2>3. Kept(conn[c], park[c]) /\ park[c].kind = "none" /\ conn[c].role = "request"
    BY <1>1, <2>2, NowIs DEF Half, Whole, ParksEnd, Kept
  <2>4. remote.server # c
    BY <1>1, <2>3, NowIs, NoneAssumption DEF Half
  <2>5. Kept(NewClient, park[c])
    BY <2>1, <2>3 DEF Kept
  <2>6. Half(t)
    BY <1>1, <2>1, <2>4, <2>5, NowIs, OneConn DEF With
  <2>7. /\ t.conn = [conn EXCEPT ![c] = NewClient] /\ t.park = park /\ t.remote = remote
        /\ t.automation = automation /\ t.button = button
    BY WithIs
  <2> HIDE DEF t
  <2>8. remote.server \in Conn \cup {None}
    BY <1>1, NowIs DEF Half, State
  <2>9. ParksEnd(t)
    BY <1>1, <2>1, <2>7, NowIs DEF ParksEnd, Whole
  <2>10. GateHeld(t)
    BY <1>1, <2>4, <2>7, <2>8, NowIs DEF GateHeld, Whole, Half
  <2>11. QED
    BY <1>1, <2>2, <2>6, <2>7, <2>9, <2>10, ConnKeeps DEF Whole
<1>3. ASSUME NEW peer \in {"reading", "stalled", "gone"}, PeerTurns(c, peer)
      PROVE  IInv'
  <2> DEFINE k == [conn[c] EXCEPT !.peer = peer]
             t == With(c, k)
  <2>1. k \in Client /\ k.role = conn[c].role /\ k.spent = conn[c].spent
        /\ k.replies = conn[c].replies /\ k.sock = conn[c].sock
    BY <1>1 DEF Client
  <2>2. conn' = [conn EXCEPT ![c] = k] /\ ping' = ping
        /\ UNCHANGED <<park, remote, automation, button, world>>
    BY <1>3 DEF PeerTurns
  <2> HIDE DEF k
  <2>3. Whole(t)
    BY <2>1, OneQueue
  <2>4. /\ t.conn = [conn EXCEPT ![c] = k] /\ t.park = park /\ t.remote = remote
        /\ t.automation = automation /\ t.button = button
    BY WithIs
  <2> HIDE DEF t
  <2>5. QED
    BY <1>1, <2>2, <2>3, <2>4, ConnKeeps
<1>4. QED
  BY <1>2, <1>3

LEMMA Sizes ==
  ASSUME IInv
  PROVE  /\ Whole(Now) /\ Half(Now) /\ conn \in [Conn -> Client] /\ park \in [Conn -> Parks]
         /\ remote.server \in Conn \cup {None} /\ ping \in BOOLEAN
         /\ \A c \in Conn : Kept(conn[c], park[c])
BY NowIs DEF IInv, Whole, Half, State, Rest

\* One connection changes before the rest is settled.
LEMMA SettleOne ==
  ASSUME IInv, NEW c \in Conn, NEW k \in Client,
         k.role = conn[c].role, k.spent = conn[c].spent, k.replies = conn[c].replies,
         k.sock = "client" => conn[c].sock = "client",
         k.sock = "none" => conn[c].sock = "none",
         Become(Settled(With(c, k), 0)), UNCHANGED world
  PROVE  IInv'
<1> DEFINE t == With(c, k)
<1>1. Half(Now) /\ Kept(conn[c], park[c])
  BY Sizes
<1>2. Kept(k, park[c])
  BY <1>1, SameKept
<1>3. remote.server = c => k.role = "server"
  BY <1>1, NowIs, NoneAssumption DEF Half
<1>4. Half(t)
  BY <1>1, <1>2, <1>3, NowIs, OneConn DEF With
<1>5. t.park = park
  BY WithIs
<1> HIDE DEF t
<1>6. Whole(Settled(t, 0)) /\ Fewer(t.park, Settled(t, 0).park)
  BY <1>4, SettledKeeps
<1>7. QED
  BY <1>5, <1>6, BecomesFewer, WorldRests DEF t

LEMMA HangupKeeps ==
  ASSUME IInv, NEW c \in Conn, Hangup(c)
  PROVE  IInv'
<1> DEFINE k == Dropped(conn[c])
<1>1. /\ conn[c].sock = "client" /\ UNCHANGED world
      /\ Become(Settled([Now EXCEPT !.conn[c] = Dropped(@)], 0))
  BY DEF Hangup, Drop, Connected
<1>2. [Now EXCEPT !.conn[c] = Dropped(@)] = With(c, k)
  BY NowIs DEF With
<1>3. conn[c] \in Client
  BY Sizes
<1>4. k \in Client /\ k.role = conn[c].role /\ k.spent = conn[c].spent
      /\ k.replies = conn[c].replies /\ k.sock \in {"linger", "closed"}
  BY <1>1, <1>3, DroppedKeeps
<1> HIDE DEF k
<1>5. QED
  BY <1>1, <1>2, <1>4, SettleOne

LEMMA GarbageKeeps ==
  ASSUME IInv, NEW c \in Conn, Garbage(c)
  PROVE  IInv'
<1> DEFINE k == Answered(conn[c])
           t == [Resolved(Now, {c}) EXCEPT !.park[c] = park[c]]
<1>1. conn[c].sock = "client" /\ UNCHANGED world /\ Become(Settled(t, 0))
  BY DEF Garbage, Connected
<1>2. t = With(c, k)
  <2>1. conn \in [Conn -> Client] /\ park \in [Conn -> Parks]
    BY Sizes
  <2> DEFINE cn == [d \in Conn |-> IF d \in {c} THEN Answered(conn[d]) ELSE conn[d]]
             pk == [d \in Conn |-> IF d \in {c} THEN NoPark ELSE park[d]]
             r == Resolved(Now, {c})
  <2>2. cn = [conn EXCEPT ![c] = k]
    BY <2>1
  <2>3. [pk EXCEPT ![c] = park[c]] = park
    BY <2>1
  <2>4. r = [Now EXCEPT !.conn = cn, !.park = pk]
    BY NowIs DEF Resolved
  <2> HIDE DEF cn, pk
  <2>5. r = [conn |-> cn, park |-> pk, remote |-> remote,
             automation |-> automation, button |-> button]
    BY <2>4 DEF Now
  <2> HIDE DEF r
  <2>6. [r EXCEPT !.park[c] = park[c]]
          = [conn |-> cn, park |-> [pk EXCEPT ![c] = park[c]], remote |-> remote,
             automation |-> automation, button |-> button]
    BY <2>5
  <2>7. With(c, k) = [conn |-> [conn EXCEPT ![c] = k], park |-> park, remote |-> remote,
                      automation |-> automation, button |-> button]
    BY DEF With, Now
  <2>8. QED
    BY <2>2, <2>3, <2>6, <2>7 DEF r
<1>3. conn[c] \in Client /\ park[c] \in Parks /\ Kept(conn[c], park[c]) /\ Half(Now)
  BY Sizes
<1>4. k \in Client /\ k.role = conn[c].role /\ Kept(k, park[c])
  BY <1>1, <1>3, AnsweredKeeps, AnsweredKept
<1>5. remote.server = c => k.role = "server"
  BY <1>3, <1>4, NowIs, NoneAssumption DEF Half
<1> HIDE DEF k, t
<1>6. Half(t) /\ t.park = park
  BY <1>2, <1>3, <1>4, <1>5, NowIs, OneConn, WithIs DEF With
<1>7. Whole(Settled(t, 0)) /\ Fewer(t.park, Settled(t, 0).park)
  BY <1>6, SettledKeeps
<1>8. QED
  BY <1>1, <1>6, <1>7, BecomesFewer, WorldRests

\* What happens to one connection's queue.
LEMMA QueueKeeps ==
  ASSUME IInv, NEW c \in Conn, NEW k \in Client,
         k.role = conn[c].role, k.spent = conn[c].spent, k.replies = conn[c].replies,
         \/ k.sock = conn[c].sock
         \/ /\ conn[c].sock \notin {"none", "client"} \/ conn[c].role = "metrics"
            /\ k.sock \notin {"none", "client"},
         Become(With(c, k)), UNCHANGED world
  PROVE  IInv'
<1>1. Whole(With(c, k)) /\ With(c, k).park = park
  BY OneQueue, WithIs
<1>2. QED
  BY <1>1, FewerSame, BecomesFewer, WorldRests

LEMMA FlushKeeps ==
  ASSUME IInv, NEW c \in Conn, Flush(c)
  PROVE  IInv'
<1> DEFINE drained == [conn[c] EXCEPT !.queue = 0, !.flush = FALSE,
                                      !.wants = @ /\ conn[c].peer = "gone"]
           closed == [drained EXCEPT !.sock = "closed", !.wants = FALSE]
           dropped == Dropped(drained)
<1>1. conn[c] \in Client /\ UNCHANGED world
  BY Sizes DEF Flush
<1>2. /\ drained \in Client /\ drained.role = conn[c].role /\ drained.spent = conn[c].spent
      /\ drained.replies = conn[c].replies /\ drained.sock = conn[c].sock
  BY <1>1 DEF Client
<1>3. \/ conn[c].sock = "linger" /\ Become([Now EXCEPT !.conn[c] = closed])
      \/ Become(Settled([Now EXCEPT !.conn[c] = dropped], 0))
      \/ Become([Now EXCEPT !.conn[c] = drained])
  BY DEF Flush
<1> HIDE DEF drained
<1>4. /\ closed \in Client /\ closed.role = conn[c].role /\ closed.spent = conn[c].spent
      /\ closed.replies = conn[c].replies /\ closed.sock = "closed"
  BY <1>2 DEF Client
<1>5. /\ dropped \in Client /\ dropped.role = conn[c].role /\ dropped.spent = conn[c].spent
      /\ dropped.replies = conn[c].replies
      /\ dropped.sock = "client" => conn[c].sock = "client"
      /\ dropped.sock = "none" => conn[c].sock = "none"
  BY <1>2, DroppedKeeps
<1> HIDE DEF closed, dropped
<1>6. CASE conn[c].sock = "linger" /\ Become([Now EXCEPT !.conn[c] = closed])
  BY <1>1, <1>4, <1>6, QueueKeeps DEF With
<1>7. CASE Become(Settled([Now EXCEPT !.conn[c] = dropped], 0))
  BY <1>1, <1>5, <1>7, SettleOne DEF With
<1>8. CASE Become([Now EXCEPT !.conn[c] = drained])
  BY <1>1, <1>2, <1>8, QueueKeeps DEF With
<1>9. QED
  BY <1>3, <1>6, <1>7, <1>8

LEMMA EventsKeep ==
  ASSUME IInv, NEW c \in Conn, Sampled(c) \/ CapturedInput(c)
  PROVE  IInv'
<1>1. conn[c] \in Client /\ conn[c].sock = "client" /\ UNCHANGED world
  BY Sizes DEF Sampled, CapturedInput, Connected
<1>2. CASE Sampled(c)
  <2> DEFINE k == Subscribed(conn[c], 1)
  <2>1. /\ k \in Client /\ k.role = conn[c].role /\ k.spent = conn[c].spent
        /\ k.replies = conn[c].replies /\ k.sock # "none"
    BY <1>1, SubscribedKeeps
  <2>2. k.sock = conn[c].sock \/ k.sock \notin {"none", "client"}
    BY <1>1, <2>1
  <2>3. conn[c].role = "metrics" /\ Become([Now EXCEPT !.conn[c] = Subscribed(@, 1)])
    BY <1>2 DEF Sampled
  <2>4. Become(With(c, k))
    BY <2>3, NowIs DEF With
  <2> HIDE DEF k
  <2>5. QED
    BY <1>1, <2>1, <2>2, <2>3, <2>4, QueueKeeps
<1>3. CASE CapturedInput(c)
  <2> DEFINE k == Sent(conn[c], 1)
  <2>1. /\ k \in Client /\ k.role = conn[c].role /\ k.spent = conn[c].spent
        /\ k.replies = conn[c].replies /\ k.sock = conn[c].sock
    BY <1>1, SentKeeps
  <2>2. Become([Now EXCEPT !.conn[c] = Sent(@, 1)])
    BY <1>3 DEF CapturedInput
  <2>3. Become(With(c, k))
    BY <2>2, NowIs DEF With
  <2> HIDE DEF k
  <2>4. QED
    BY <1>1, <2>1, <2>3, QueueKeeps
<1>4. QED
  BY <1>2, <1>3

LEMMA LingerKeeps ==
  ASSUME IInv, NEW c \in Conn, LingerTimeout(c)
  PROVE  IInv'
<1> DEFINE k == [conn[c] EXCEPT !.sock = "closed", !.flush = FALSE]
           t == With(c, k)
<1>1. conn \in [Conn -> Client] /\ ping \in BOOLEAN
  BY Sizes
<1>2. /\ conn[c].sock = "linger" /\ ping' = ping
      /\ UNCHANGED <<park, remote, automation, button, world>>
      /\ conn' = [[conn EXCEPT ![c].sock = "closed"] EXCEPT ![c].flush = FALSE]
  BY DEF LingerTimeout
<1>3. conn' = [conn EXCEPT ![c] = k]
  BY <1>1, <1>2
<1>4. /\ k \in Client /\ k.role = conn[c].role /\ k.spent = conn[c].spent
      /\ k.replies = conn[c].replies /\ k.sock = "closed"
  BY <1>1 DEF Client
<1> HIDE DEF k
<1>5. Whole(t)
  BY <1>2, <1>4, OneQueue
<1>6. /\ t.conn = [conn EXCEPT ![c] = k] /\ t.park = park /\ t.remote = remote
      /\ t.automation = automation /\ t.button = button
  BY WithIs
<1> HIDE DEF t
<1>7. QED
  BY <1>1, <1>2, <1>3, <1>5, <1>6, ConnKeeps

LEMMA WakeKeeps ==
  ASSUME IInv, Wake
  PROVE  IInv'
<1> DEFINE cn == [c \in Conn |->
                    IF conn[c].sock \in {"client", "linger"} /\ conn[c].wants
                      THEN [conn[c] EXCEPT !.flush = TRUE] ELSE conn[c]]
           t == [Now EXCEPT !.conn = cn]
<1>1. /\ Whole(Now) /\ Half(Now) /\ conn \in [Conn -> Client]
      /\ remote.server \in Conn \cup {None}
  BY Sizes
<1>2. ping' = FALSE /\ conn' = cn /\ UNCHANGED <<park, remote, automation, button, world>>
  BY DEF Wake
<1>3. \A c \in Conn : /\ cn[c] \in Client /\ cn[c].role = conn[c].role
                      /\ cn[c].spent = conn[c].spent /\ cn[c].replies = conn[c].replies
                      /\ cn[c].sock = conn[c].sock
  BY <1>1 DEF Client
<1>4. cn \in [Conn -> Client]
  BY <1>3
<1> HIDE DEF cn
<1>5. /\ t.conn = cn /\ t.park = park /\ t.remote = remote
      /\ t.automation = automation /\ t.button = button
  BY DEF Now
<1>6. t \in State
  BY <1>1, <1>4 DEF Half, State, Now
<1> HIDE DEF t
<1>7. \A c \in Conn : Kept(t.conn[c], t.park[c])
  BY <1>1, <1>3, <1>5, NowIs, SameKept DEF Half
<1>8. t.remote.server # None => t.conn[t.remote.server].role = "server"
  BY <1>1, <1>3, <1>5, NowIs DEF Half
<1>9. Half(t)
  BY <1>1, <1>5, <1>6, <1>7, <1>8, NowIs DEF Half
<1>10. ParksEnd(t)
  BY <1>1, <1>3, <1>5, NowIs DEF ParksEnd, Whole
<1>11. GateHeld(t)
  BY <1>1, <1>3, <1>5, NowIs DEF GateHeld, Whole, Half
<1>12. QED
  BY <1>2, <1>5, <1>9, <1>10, <1>11, ConnKeeps DEF Whole

\* A reply, and a role for the connection that stays open.
LEMMA EnrolledIs ==
  ASSUME IInv, NEW c \in Conn, Asks(c), NEW role \in Roles, role # "request"
  PROVE  LET k == [Replied(conn[c]) EXCEPT !.role = role]
         IN k \in Client /\ k.role = role /\ k.sock = "client" /\ Kept(k, park[c])
<1> DEFINE r == Replied(conn[c])
           k == [r EXCEPT !.role = role]
<1>1. conn[c] \in Client /\ conn[c].sock = "client" /\ park[c].kind = "none"
  BY AskerIsFree
<1>2. Kept(conn[c], park[c])
  BY Sizes
<1>3. r \in Client /\ r.sock = "client"
  BY <1>1, RepliedKeeps
<1> HIDE DEF r
<1>4. k \in Client /\ k.role = role /\ k.sock = "client"
  BY <1>3 DEF Client
<1>5. Kept(k, park[c])
  BY <1>1, <1>2, <1>4 DEF Kept
<1>6. QED
  BY <1>4, <1>5 DEF r

LEMMA EnrolKeeps ==
  ASSUME IInv, NEW c \in Conn, Asks(c), NEW role \in Roles, role # "request",
         Become(With(c, [Replied(conn[c]) EXCEPT !.role = role])), UNCHANGED world
  PROVE  IInv'
<1> DEFINE k == [Replied(conn[c]) EXCEPT !.role = role]
           t == With(c, k)
<1>1. k \in Client /\ k.role = role /\ k.sock = "client" /\ Kept(k, park[c])
  BY EnrolledIs
<1> HIDE DEF k
<1>2. remote.server # c /\ park[c].kind = "none"
  BY AskerIsFree
<1>3. Whole(Now) /\ Half(Now) /\ conn \in [Conn -> Client] /\ remote.server \in Conn \cup {None}
  BY Sizes
<1>4. Half(t)
  BY <1>1, <1>2, <1>3, NowIs, OneConn DEF With
<1>5. t.conn = [conn EXCEPT ![c] = k] /\ t.park = park /\ t.remote = remote
  BY WithIs
<1> HIDE DEF t
<1>6. ParksEnd(t)
  BY <1>1, <1>3, <1>5, NowIs DEF ParksEnd, Whole
<1>7. GateHeld(t)
  BY <1>2, <1>3, <1>5, NowIs DEF GateHeld, Whole, Half
<1>8. Become(t)
  BY DEF t, k
<1>9. QED
  BY <1>4, <1>5, <1>6, <1>7, <1>8, FewerSame, BecomesFewer, WorldRests DEF Whole

LEMMA SubscribeKeeps ==
  ASSUME IInv, NEW c \in Conn, NEW role \in Roles, Subscribe(c, role)
  PROVE  IInv'
<1>1. Asks(c) /\ role # "request" /\ UNCHANGED world
  BY DEF Subscribe
<1>2. CASE conn[c].peer = "gone"
  BY <1>1, <1>2, ReplyToKeeps DEF Subscribe
<1>3. CASE conn[c].peer # "gone"
  <2>1. Become([Now EXCEPT !.conn[c] = [Replied(@) EXCEPT !.role = role]])
    BY <1>3 DEF Subscribe
  <2>2. Become(With(c, [Replied(conn[c]) EXCEPT !.role = role]))
    BY <2>1, NowIs DEF With
  <2>3. QED
    BY <1>1, <2>2, EnrolKeeps
<1>4. QED
  BY <1>2, <1>3

LEMMA MachineKeeps ==
  ASSUME IInv, NEW c \in Conn, RegisterRemoteClient(c)
  PROVE  IInv'
<1>1. Asks(c) /\ UNCHANGED world
      /\ Become([Now EXCEPT !.conn[c] = [Replied(@) EXCEPT !.role = "machine"]])
  BY DEF RegisterRemoteClient
<1>2. Become(With(c, [Replied(conn[c]) EXCEPT !.role = "machine"]))
  BY <1>1, NowIs DEF With
<1>3. QED
  BY <1>1, <1>2, EnrolKeeps DEF Roles

LEMMA ServerKeeps ==
  ASSUME IInv, NEW c \in Conn, RegisterRemoteServer(c)
  PROVE  IInv'
<1> DEFINE k == [Replied(conn[c]) EXCEPT !.role = "server"]
           r == [remote EXCEPT !.server = c]
           t == [Now EXCEPT !.conn[c] = [Replied(@) EXCEPT !.role = "server"],
                            !.remote.server = c]
<1>1. Asks(c) /\ UNCHANGED world /\ Become(Settled(t, 1))
  BY DEF RegisterRemoteServer
<1>2. k \in Client /\ k.role = "server" /\ Kept(k, park[c])
  BY <1>1, EnrolledIs DEF Roles
<1>3. /\ t.conn = [conn EXCEPT ![c] = k] /\ t.park = park /\ t.remote = r
      /\ t.automation = automation /\ t.button = button
      /\ t = [Now EXCEPT !.conn = t.conn, !.remote = r]
  BY DEF Now
<1>4. /\ Half(Now) /\ Now \in State /\ conn \in [Conn -> Client]
      /\ remote \in [on : BOOLEAN, server : Conn \cup {None}, viewers : BOOLEAN]
      /\ \A d \in Conn : Kept(conn[d], park[d])
  BY Sizes, NowIs DEF Half, State
<1>5. r \in [on : BOOLEAN, server : Conn \cup {None}, viewers : BOOLEAN]
      /\ r.server = c /\ r.on = remote.on
  BY <1>4
<1>6. c # None
  BY NoneAssumption
<1> HIDE DEF t, k, r
<1>7. t.conn \in [Conn -> Client]
  BY <1>2, <1>3, <1>4
<1>8. t \in State
  BY <1>3, <1>4, <1>5, <1>7, NowIs DEF State
<1>9. \A d \in Conn : Kept(t.conn[d], t.park[d])
  BY <1>2, <1>3, <1>4
<1>10. t.conn[c].role = "server"
  BY <1>2, <1>3, <1>4
<1>11. Half(t)
  BY <1>3, <1>4, <1>5, <1>6, <1>8, <1>9, <1>10, NowIs DEF Half
<1>12. Whole(Settled(t, 1)) /\ Fewer(t.park, Settled(t, 1).park)
  BY <1>11, SettledKeeps
<1>13. QED
  BY <1>1, <1>3, <1>12, BecomesFewer, WorldRests

\* A request is parked.
LEMMA HeldKeeps ==
  ASSUME IInv, NEW c \in Conn, Asks(c), NEW t, NEW p \in Parks,
         t.conn = [conn EXCEPT ![c].spent = TRUE], t.park = [park EXCEPT ![c] = p],
         t.remote = remote, t.automation = automation, t.button \in BOOLEAN,
         t = [Now EXCEPT !.conn = t.conn, !.park = t.park, !.button = t.button],
         t.button => button \/ (automation /\ p.kind = "drag"),
         p.kind # "none", p.timed => p.kind # "drag",
         \A w \in Window : ~(p.kind = "map" /\ Matches(p, win[w]) /\ Ready(win[w])),
         Become(t), UNCHANGED world
  PROVE  IInv'
<1> DEFINE k == [conn[c] EXCEPT !.spent = TRUE]
<1>1. /\ conn[c].sock = "client" /\ conn[c].role = "request" /\ ~conn[c].spent
      /\ conn[c].replies = 0 /\ park[c].kind = "none" /\ remote.server # c
      /\ conn[c] \in Client
  BY AskerIsFree
<1>2. /\ Whole(Now) /\ Half(Now) /\ Now \in State /\ conn \in [Conn -> Client]
      /\ park \in [Conn -> Parks] /\ remote.server \in Conn \cup {None}
      /\ \A d \in Conn : Kept(conn[d], park[d])
  BY Sizes DEF Half
<1>3. /\ k \in Client /\ k.sock = "client" /\ k.role = "request" /\ k.spent /\ k.replies = 0
  BY <1>1 DEF Client
<1>4. t.conn = [conn EXCEPT ![c] = k]
  BY <1>2
<1> HIDE DEF k
<1>5. t.conn \in [Conn -> Client] /\ t.park \in [Conn -> Parks]
  <2>1. t.conn \in [Conn -> Client]
    BY <1>2, <1>3, <1>4
  <2>2. [park EXCEPT ![c] = p] \in [Conn -> Parks]
    BY <1>2
  <2>3. QED
    BY <2>1, <2>2
<1>6. t \in State
  <2> DEFINE cn == t.conn
             pk == t.park
             b == t.button
             u == [Now EXCEPT !.conn = cn, !.park = pk, !.button = b]
  <2>1. cn \in [Conn -> Client] /\ pk \in [Conn -> Parks] /\ b \in BOOLEAN
    BY <1>5
  <2>2. t = u
    OBVIOUS
  <2> HIDE DEF cn, pk, b
  <2>3. u \in State
    BY <1>2, <2>1 DEF State
  <2> HIDE DEF u
  <2>4. QED
    BY <2>2, <2>3
<1>7. Kept(k, p)
  BY <1>3 DEF Kept
<1>8. \A d \in Conn : Kept(t.conn[d], t.park[d])
  BY <1>2, <1>4, <1>7
<1>9. t.button => t.automation /\ \E d \in Conn : t.park[d].kind = "drag"
  <2>1. CASE button
    <3>1. PICK d \in Conn : park[d].kind = "drag"
      BY <2>1, <1>2, NowIs DEF Half
    <3>2. d # c /\ t.park[d].kind = "drag"
      BY <1>1, <1>2, <3>1
    <3>3. automation
      BY <2>1, <1>2, NowIs DEF Half
    <3>4. QED
      BY <3>2, <3>3
  <2>2. CASE t.button /\ automation /\ p.kind = "drag"
    <3>1. t.park[c].kind = "drag"
      BY <2>2, <1>2
    <3>2. QED
      BY <2>2, <3>1
  <2>3. QED
    BY <2>1, <2>2
<1>10. t.remote.server # None => t.conn[t.remote.server].role = "server"
  BY <1>1, <1>2, <1>4, NowIs DEF Half
<1>11. Half(t)
  BY <1>2, <1>6, <1>8, <1>9, <1>10, NowIs DEF Half
<1>12. ParksEnd(t)
  <2>1. \A d \in Conn : park[d].kind # "none" => conn[d].sock = "client"
    BY <1>2, NowIs DEF ParksEnd, Whole
  <2>2. \A d \in Conn : d # c => t.park[d] = park[d] /\ t.conn[d] = conn[d]
    BY <1>2, <1>4
  <2>3. t.conn[c].sock = "client"
    BY <1>2, <1>3, <1>4
  <2>4. QED
    BY <2>1, <2>2, <2>3 DEF ParksEnd
<1>13. GateHeld(t)
  BY <1>1, <1>2, <1>4, NowIs DEF GateHeld, Whole, Half
<1>14. Unmissed(t.park, win)
  BY <1>2 DEF Unmissed, IInv
<1>15. Whole(Now)' /\ Rest' /\ park' = t.park
  BY <1>11, <1>12, <1>13, Becomes, WorldRests DEF Whole
<1>16. QED
  BY <1>14, <1>15, WorldRests DEF IInv

LEMMA HoldKeeps ==
  ASSUME IInv, NEW c \in Conn, Asks(c), NEW p \in Parks, Hold(c, p), UNCHANGED world,
         p.kind \notin {"none", "drag"},
         \A w \in Window : ~(p.kind = "map" /\ Matches(p, win[w]) /\ Ready(win[w]))
  PROVE  IInv'
<1> DEFINE t == [Now EXCEPT !.conn[c].spent = TRUE, !.park[c] = p]
<1>1. Become(t)
  BY DEF Hold
<1>2. /\ t.conn = [conn EXCEPT ![c].spent = TRUE] /\ t.park = [park EXCEPT ![c] = p]
      /\ t.remote = remote /\ t.automation = automation /\ t.button = button
      /\ t = [Now EXCEPT !.conn = t.conn, !.park = t.park, !.button = t.button]
  BY DEF Now
<1>3. t.button \in BOOLEAN
  <2>1. Now.button \in BOOLEAN
    BY DEF IInv, Whole, Half, State
  <2>2. QED
    BY <2>1, <1>2, NowIs
<1> HIDE DEF t
<1>4. QED
  BY <1>1, <1>2, <1>3, HeldKeeps

LEMMA WaitsKeep ==
  ASSUME IInv, NEW c \in Conn,
         \/ \E title, unmap, timed \in BOOLEAN : WaitWindow(c, title, unmap, timed)
         \/ \E timed \in BOOLEAN : WaitReady(c, timed)
         \/ Probe(c) \/ PickWindow(c)
  PROVE  IInv'
<1>1. NoPark \in Parks
  BY NoParkIsPark
<1>2. ASSUME NEW title \in BOOLEAN, NEW unmap \in BOOLEAN, NEW timed \in BOOLEAN,
             WaitWindow(c, title, unmap, timed)
      PROVE  IInv'
  <2> DEFINE kind == IF unmap THEN "unmap" ELSE "map"
             p == [NoPark EXCEPT !.kind = kind, !.title = title, !.timed = timed]
             matching == {w \in Window : Matches(p, win[w])}
             q == IF unmap THEN [p EXCEPT !.watch = matching] ELSE p
  <2>1. /\ p \in Parks /\ p.kind = kind
    BY <1>1 DEF Parks
  <2>2. Asks(c) /\ UNCHANGED world
    BY <1>2 DEF WaitWindow
  <2>3. \/ ReplyTo(c, 0)
        \/ ~unmap /\ (\A w \in matching : ~Ready(win[w])) /\ Hold(c, p)
        \/ unmap /\ Hold(c, [p EXCEPT !.watch = matching])
    BY <1>2 DEF WaitWindow
  <2>4. CASE ReplyTo(c, 0)
    BY <2>2, <2>4, ReplyToKeeps
  <2>5. CASE ~unmap /\ (\A w \in matching : ~Ready(win[w])) /\ Hold(c, p)
    <3>1. \A w \in Window : ~(p.kind = "map" /\ Matches(p, win[w]) /\ Ready(win[w]))
      BY <2>5
    <3>2. p.kind = "map"
      BY <2>1, <2>5
    <3> HIDE DEF p
    <3>3. QED
      BY <2>1, <2>2, <2>5, <3>1, <3>2, HoldKeeps
  <2>6. CASE unmap /\ Hold(c, [p EXCEPT !.watch = matching])
    <3> DEFINE u == [p EXCEPT !.watch = matching]
    <3>1. matching \in SUBSET Window
      OBVIOUS
    <3> HIDE DEF matching
    <3>2. u \in Parks /\ u.kind = "unmap"
      BY <2>1, <2>6, <3>1 DEF Parks
    <3> HIDE DEF u
    <3>3. Hold(c, u)
      BY <2>6 DEF u
    <3>4. QED
      BY <2>2, <3>2, <3>3, HoldKeeps
  <2>7. QED
    BY <2>3, <2>4, <2>5, <2>6
<1>3. ASSUME NEW timed \in BOOLEAN, WaitReady(c, timed)
      PROVE  IInv'
  <2> DEFINE p == [NoPark EXCEPT !.kind = "ready", !.timed = timed]
  <2>1. p \in Parks /\ p.kind = "ready"
    BY <1>1 DEF Parks
  <2>2. Asks(c) /\ UNCHANGED world /\ (ReplyTo(c, 0) \/ Hold(c, p))
    BY <1>3 DEF WaitReady
  <2> HIDE DEF p
  <2>3. QED
    BY <2>1, <2>2, ReplyToKeeps, HoldKeeps
<1>4. ASSUME Probe(c)
      PROVE  IInv'
  <2> DEFINE p == [NoPark EXCEPT !.kind = "probe"]
  <2>1. p \in Parks /\ p.kind = "probe"
    BY <1>1 DEF Parks
  <2>2. Asks(c) /\ UNCHANGED world /\ (ReplyTo(c, 0) \/ Hold(c, p))
    BY <1>4 DEF Probe
  <2> HIDE DEF p
  <2>3. QED
    BY <2>1, <2>2, ReplyToKeeps, HoldKeeps
<1>5. ASSUME PickWindow(c)
      PROVE  IInv'
  <2> DEFINE p == [NoPark EXCEPT !.kind = "pick"]
  <2>1. p \in Parks /\ p.kind = "pick"
    BY <1>1 DEF Parks
  <2>2. Asks(c) /\ UNCHANGED world /\ (ReplyTo(c, 0) \/ Hold(c, p))
    BY <1>5 DEF PickWindow
  <2> HIDE DEF p
  <2>3. QED
    BY <2>1, <2>2, ReplyToKeeps, HoldKeeps
<1>6. QED
  BY <1>2, <1>3, <1>4, <1>5

LEMMA StartDragKeeps ==
  ASSUME IInv, NEW c \in Conn, NEW target \in Window \cup {None}, StartDrag(c, target)
  PROVE  IInv'
<1>1. Asks(c) /\ UNCHANGED world
  BY DEF StartDrag
<1>2. CASE ~automation \/ Dragging \/ (target # None /\ locked)
  BY <1>1, <1>2, ReplyToKeeps DEF StartDrag
<1>3. CASE ~(~automation \/ Dragging \/ (target # None /\ locked))
  <2> DEFINE p == [NoPark EXCEPT !.kind = "drag", !.target = target,
                                 !.underLock = locked, !.next = 1]
             t == [Now EXCEPT !.conn[c].spent = TRUE, !.button = TRUE, !.park[c] = p]
  <2>1. NoPark \in Parks /\ ~NoPark.timed
    BY NoParkIsPark
  <2>2. 1 \in 0..(Steps + 1) /\ locked \in BOOLEAN
    BY BoundAssumption DEF IInv, Rest
  <2>3. p \in Parks /\ p.kind = "drag" /\ ~p.timed
    BY <2>1, <2>2 DEF Parks
  <2>4. Become(t)
    BY <1>3 DEF StartDrag
  <2> HIDE DEF p
  <2>5. /\ t.conn = [conn EXCEPT ![c].spent = TRUE] /\ t.park = [park EXCEPT ![c] = p]
        /\ t.remote = remote /\ t.automation = automation /\ t.button = TRUE
        /\ t = [Now EXCEPT !.conn = t.conn, !.park = t.park, !.button = t.button]
    BY DEF Now
  <2> HIDE DEF t
  <2>6. QED
    BY <1>1, <1>3, <2>3, <2>4, <2>5, HeldKeeps
<1>4. QED
  BY <1>2, <1>3

-----------------------------------------------------------------------------
(* Answers.                                                                *)

\* Parked requests other than drags are answered.
LEMMA AnsweredAll ==
  ASSUME IInv, NEW cs \in SUBSET Conn, \A c \in cs : park[c].kind \notin {"none", "drag"},
         Become(Unparked(Resolved(Now, cs))), UNCHANGED win,
         {xdisplay', locked'} \subseteq BOOLEAN, env' = env
  PROVE  IInv'
<1>1. Whole(Now)
  BY DEF IInv
<1>2. \A c \in cs : Now.conn[c].sock = "client" /\ Now.conn[c].role = "request"
                    /\ Now.park[c].kind # "drag"
  BY <1>1, NowIs, ParkedAsks
<1> DEFINE u == Unparked(Resolved(Now, cs))
<1>3. Whole(u) /\ Fewer(Now.park, u.park)
  BY <1>1, <1>2, AnswersKeep
<1> HIDE DEF u
<1>4. QED
  BY <1>3, NowIs, BecomesFewer DEF u

LEMMA TimedIsWait ==
  ASSUME IInv, NEW c \in Conn, park[c].timed
  PROVE  park[c].kind \notin {"none", "drag"}
BY Sizes DEF Kept

LEMMA AnswersAllKeep ==
  ASSUME IInv,
         \/ XwaylandReady \/ LockSession \/ Render
         \/ \E c \in Conn : WaitTimeout(c) \/ PickerFinishes(c)
  PROVE  IInv'
<1>1. {xdisplay, locked} \subseteq BOOLEAN
  BY DEF IInv, Rest
<1>2. CASE XwaylandReady
  <2> DEFINE cs == {c \in Conn : park[c].kind = "ready"}
  <2>1. cs \in SUBSET Conn /\ (\A c \in cs : park[c].kind \notin {"none", "drag"})
        /\ Become(Unparked(Resolved(Now, cs))) /\ UNCHANGED win
        /\ {xdisplay', locked'} \subseteq BOOLEAN /\ env' = env
    BY <1>1, <1>2 DEF XwaylandReady
  <2> HIDE DEF cs
  <2>2. QED
    BY <2>1, AnsweredAll
<1>3. CASE LockSession
  <2> DEFINE cs == {c \in Conn : park[c].kind = "pick"}
  <2>1. cs \in SUBSET Conn /\ (\A c \in cs : park[c].kind \notin {"none", "drag"})
        /\ Become(Unparked(Resolved(Now, cs))) /\ UNCHANGED win
        /\ {xdisplay', locked'} \subseteq BOOLEAN /\ env' = env
    BY <1>1, <1>3 DEF LockSession
  <2> HIDE DEF cs
  <2>2. QED
    BY <2>1, AnsweredAll
<1>4. CASE Render
  <2> DEFINE cs == {c \in Conn : park[c].kind = "probe"}
  <2>1. cs \in SUBSET Conn /\ (\A c \in cs : park[c].kind \notin {"none", "drag"})
        /\ Become(Unparked(Resolved(Now, cs))) /\ UNCHANGED world
    BY <1>4 DEF Render
  <2> HIDE DEF cs
  <2>2. QED
    BY <2>1, AnsweredAll, WorldRests
<1>5. ASSUME NEW c \in Conn, WaitTimeout(c) \/ PickerFinishes(c)
      PROVE  IInv'
  <2>1. {c} \in SUBSET Conn /\ (\A d \in {c} : park[d].kind \notin {"none", "drag"})
        /\ Become(Unparked(Resolved(Now, {c}))) /\ UNCHANGED world
    BY <1>5, TimedIsWait DEF WaitTimeout, PickerFinishes
  <2>2. QED
    BY <2>1, AnsweredAll, WorldRests
<1>6. QED
  BY <1>2, <1>3, <1>4, <1>5

\* A change of the world that no record follows.
LEMMA StillKeeps ==
  ASSUME IInv, XwaylandDies \/ UnlockSession
  PROVE  IInv'
BY DEF XwaylandDies, UnlockSession, IInv, Rest, Now

LEMMA WindowMovesKeeps ==
  ASSUME IInv, NEW w \in Window, WindowMoves(w)
  PROVE  IInv'
<1>1. WindowsPlaced(win) /\ win' = [win EXCEPT ![w].shown = ~@]
  BY DEF IInv, WindowMoves
<1>2. \A v \in Window : /\ win'[v] \in Windows
                        /\ win'[v].listed = win[v].listed /\ win'[v].titled = win[v].titled
                        /\ win'[v].sized = win[v].sized /\ win'[v].centre = win[v].centre
  BY <1>1 DEF WindowsPlaced, Windows
<1>3. win' \in [Window -> Windows]
  BY <1>1, <1>2 DEF WindowsPlaced
<1>4. WindowsPlaced(win')
  BY <1>1, <1>2, <1>3 DEF WindowsPlaced
<1>5. \A v \in Window : Ready(win'[v]) => Ready(win[v])
  BY <1>1, <1>2 DEF Ready, WindowsPlaced
<1>6. Unmissed(park, win')
  BY <1>2, <1>5 DEF Unmissed, Matches, IInv
<1>7. QED
  BY <1>4, <1>6 DEF WindowMoves, IInv, Rest, Now

\* The windows change, the subscribers are told and the waits looked at.
LEMMA WindowsTold ==
  ASSUME IInv, NEW n \in Nat, WindowsPlaced(win'),
         Become(Unparked(MapResolved(Settled(Now, n), win'))),
         UNCHANGED <<xdisplay, locked, env>>
  PROVE  IInv'
<1> DEFINE s == Settled(Now, n)
           u == Unparked(MapResolved(s, win'))
<1>1. Whole(s)
  BY SettledKeeps DEF IInv, Whole
<1> HIDE DEF s
<1>2. Whole(u) /\ Unmissed(u.park, win')
  BY <1>1, MapResolvedKeeps
<1>3. Become(u)
  BY DEF s
<1> HIDE DEF u
<1>4. {xdisplay', locked'} \subseteq BOOLEAN /\ env' = env
  BY DEF IInv, Rest
<1>5. Whole(Now)' /\ Rest' /\ park' = u.park
  BY <1>2, <1>3, <1>4, Becomes
<1>6. Unmissed(park', win')
  BY <1>2, <1>5
<1>7. QED
  BY <1>5, <1>6 DEF IInv

LEMMA WindowOpensKeeps ==
  ASSUME IInv, NEW w \in Window, WindowOpens(w)
  PROVE  IInv'
<1> DEFINE x == [NoWindow EXCEPT !.listed = TRUE, !.shown = TRUE, !.centre = TRUE]
<1>1. x \in Windows /\ ~x.sized
  BY DEF NoWindow, Windows
<1>2. win' = [win EXCEPT ![w] = x] /\ WindowsPlaced(win)
  BY DEF WindowOpens, IInv
<1> HIDE DEF x
<1>3. WindowsPlaced(win')
  BY <1>1, <1>2 DEF WindowsPlaced
<1>4. QED
  BY <1>3, WindowsTold DEF WindowOpens

LEMMA WindowCommitsKeeps ==
  ASSUME IInv, NEW w \in Window, NEW titled \in BOOLEAN, NEW drawn \in BOOLEAN,
         WindowCommits(w, titled, drawn)
  PROVE  IInv'
<1> DEFINE new == [win[w] EXCEPT !.buffer = win[w].buffer \/ drawn,
                                 !.titled = win[w].titled \/ titled]
           x == IF new.shown /\ new.buffer
                THEN [new EXCEPT !.sized = TRUE, !.centre = FALSE] ELSE new
           n == IF win[w].shown /\ titled /\ ~win[w].titled THEN 1 ELSE 0
<1>1. WindowsPlaced(win) /\ win[w] \in Windows /\ (win[w].sized => ~win[w].centre)
  BY DEF IInv, WindowsPlaced
<1>2. new \in Windows /\ new.sized = win[w].sized /\ new.centre = win[w].centre
  BY <1>1 DEF Windows
<1>3. win' = [win EXCEPT ![w] = x]
  <2>1. x = Committed(win[w], titled, drawn)
    BY <1>1 DEF Committed, Windows
  <2>2. QED
    BY <2>1 DEF WindowCommits, IInv, WindowsPlaced
<1> HIDE DEF new
<1>4. x \in Windows /\ (x.sized => ~x.centre)
  BY <1>1, <1>2 DEF Windows
<1> HIDE DEF x
<1>5. WindowsPlaced(win')
  BY <1>1, <1>3, <1>4 DEF WindowsPlaced
<1>6. n \in Nat
  OBVIOUS
<1>7. Become(Unparked(MapResolved(Settled(Now, n), win')))
      /\ UNCHANGED <<xdisplay, locked, env>>
  BY DEF WindowCommits
<1> HIDE DEF n
<1>8. QED
  BY <1>5, <1>6, <1>7, WindowsTold

LEMMA SetWindowNameKeeps ==
  ASSUME IInv, NEW c \in Conn, NEW w \in Window, SetWindowName(c, w)
  PROVE  IInv'
<1> DEFINE s == Settled(Now, 1)
           r == MapResolved(s, win')
           u == Unparked(Resolved(r, {c}))
<1>1. /\ Asks(c) /\ Become(u) /\ win' = [win EXCEPT ![w].titled = TRUE]
      /\ UNCHANGED <<xdisplay, locked, env>>
  BY DEF SetWindowName
<1>2. /\ conn[c].sock = "client" /\ conn[c].role = "request" /\ ~conn[c].spent
      /\ park[c].kind = "none"
  BY <1>1, AskerIsFree
<1>3. Whole(s) /\ s.conn[c] = conn[c] /\ s.park[c] = park[c]
  BY <1>2, SettledKeeps, NowIs DEF IInv, Whole
<1> HIDE DEF s
<1>4. Whole(r) /\ Unmissed(r.park, win') /\ r.conn[c] = conn[c]
  <2>1. s.park[c].kind # "map"
    BY <1>2, <1>3
  <2>2. QED
    BY <1>3, <2>1, MapResolvedKeeps
<1> HIDE DEF r
<1>5. r.park[c].kind = "none"
  BY <1>2, <1>4 DEF Whole, Half, Kept
<1>6. Whole(u) /\ Fewer(r.park, u.park)
  <2>1. {c} \in SUBSET Conn
    OBVIOUS
  <2>2. \A d \in {c} : r.conn[d].sock = "client" /\ r.conn[d].role = "request"
                       /\ r.park[d].kind # "drag"
    BY <1>2, <1>4, <1>5
  <2>3. QED
    BY <1>4, <2>1, <2>2, AnswersKeep
<1> HIDE DEF u
<1>7. Unmissed(u.park, win')
  BY <1>4, <1>6, FewerUnmissed
<1>8. WindowsPlaced(win')
  BY <1>1 DEF WindowsPlaced, IInv, Windows
<1>9. {xdisplay', locked'} \subseteq BOOLEAN /\ env' = env
  BY <1>1 DEF IInv, Rest
<1>10. Whole(Now)' /\ Rest' /\ park' = u.park
  BY <1>1, <1>6, <1>9, Becomes
<1>11. QED
  BY <1>7, <1>8, <1>10 DEF IInv

\* A window closes: no unmap wait counts it any more.
LEMMA UnwatchedKeeps ==
  ASSUME NEW s, Whole(s), NEW w \in Window
  PROVE  LET left == [s EXCEPT !.park = [c \in Conn |-> [s.park[c] EXCEPT !.watch = @ \ {w}]]]
         IN Whole(left) /\ Fewer(s.park, left.park)
<1> DEFINE pk == [c \in Conn |-> [s.park[c] EXCEPT !.watch = @ \ {w}]]
           left == [s EXCEPT !.park = pk]
<1>1. s \in State /\ Half(s)
  BY DEF Whole, Half
<1>2. \A c \in Conn : /\ pk[c] \in Parks /\ pk[c].kind = s.park[c].kind
                      /\ pk[c].title = s.park[c].title /\ pk[c].timed = s.park[c].timed
  BY <1>1 DEF State, Parks
<1>3. pk \in [Conn -> Parks]
  BY <1>2
<1> HIDE DEF pk
<1>4. /\ left \in State /\ left.conn = s.conn /\ left.park = pk /\ left.remote = s.remote
      /\ left.automation = s.automation /\ left.button = s.button
  BY <1>1, <1>3 DEF State
<1> HIDE DEF left
<1>5. \A c \in Conn : Kept(left.conn[c], left.park[c])
  BY <1>1, <1>2, <1>4 DEF Half, Kept
<1>6. left.button => left.automation /\ \E c \in Conn : left.park[c].kind = "drag"
  BY <1>1, <1>2, <1>4 DEF Half
<1>7. Half(left)
  BY <1>1, <1>4, <1>5, <1>6 DEF Half
<1>8. ParksEnd(left) /\ GateHeld(left) /\ Fewer(s.park, left.park)
  BY <1>2, <1>4 DEF ParksEnd, GateHeld, Fewer, Whole
<1>9. QED
  BY <1>7, <1>8 DEF Whole, left, pk

LEMMA WindowClosesKeeps ==
  ASSUME IInv, NEW w \in Window, WindowCloses(w)
  PROVE  IInv'
<1> DEFINE s == Settled(Now, 1)
           left == [s EXCEPT !.park = [c \in Conn |-> [s.park[c] EXCEPT !.watch = @ \ {w}]]]
           cs == {c \in Conn : left.park[c].kind = "unmap" /\ left.park[c].watch = {}}
           u == Unparked(Resolved(left, cs))
<1>1. Become(u) /\ win' = [win EXCEPT ![w] = NoWindow] /\ UNCHANGED <<xdisplay, locked, env>>
  BY DEF WindowCloses, UnmapResolved
<1>2. Whole(s) /\ Fewer(park, s.park)
  BY SettledKeeps, NowIs DEF IInv, Whole
<1> HIDE DEF s
<1>3. Whole(left) /\ Fewer(s.park, left.park)
  BY <1>2, UnwatchedKeeps
<1> HIDE DEF left
<1>4. \A c \in cs : /\ left.conn[c].sock = "client" /\ left.conn[c].role = "request"
                    /\ left.park[c].kind # "drag"
  BY <1>3, ParkedAsks
<1>5. Whole(u) /\ Fewer(left.park, u.park)
  BY <1>3, <1>4, AnswersKeep
<1> HIDE DEF u
<1>6. Fewer(park, u.park)
  BY <1>2, <1>3, <1>5 DEF Fewer
<1>7. NoWindow \in Windows /\ ~NoWindow.listed /\ ~NoWindow.sized
  BY DEF NoWindow, Windows
<1>8. WindowsPlaced(win')
  BY <1>1, <1>7 DEF WindowsPlaced, IInv
<1>9. Unmissed(park, win')
  BY <1>1, <1>7 DEF Unmissed, Matches, IInv, WindowsPlaced
<1>10. Unmissed(u.park, win')
  BY <1>6, <1>9, FewerUnmissed
<1>11. {xdisplay', locked'} \subseteq BOOLEAN /\ env' = env
  BY <1>1 DEF IInv, Rest
<1>12. Whole(Now)' /\ Rest' /\ park' = u.park
  BY <1>1, <1>5, <1>11, Becomes
<1>13. QED
  BY <1>8, <1>10, <1>12 DEF IInv

\* A drag's own steps. Whatever ends it leaves the button up.
LEMMA DragMovesKeeps ==
  ASSUME IInv, NEW c \in Conn, DragMoves(c)
  PROVE  IInv'
<1> DEFINE p == [park[c] EXCEPT !.next = park[c].next + 1]
           t == [Now EXCEPT !.park[c].next = @ + 1]
<1>1. /\ park[c].kind = "drag" /\ park[c].next <= Steps /\ Become(t) /\ UNCHANGED world
  BY DEF DragMoves
<1>2. /\ Whole(Now) /\ Half(Now) /\ park \in [Conn -> Parks] /\ park[c] \in Parks
      /\ \A d \in Conn : Kept(conn[d], park[d])
  BY Sizes
<1>3. park[c].next + 1 \in 0..(Steps + 1)
  BY <1>1, <1>2, BoundAssumption DEF Parks
<1>4. p \in Parks /\ p.kind = "drag" /\ p.title = park[c].title /\ p.timed = park[c].timed
  BY <1>1, <1>2, <1>3 DEF Parks
<1>5. /\ t.conn = conn /\ t.park = [park EXCEPT ![c] = p] /\ t.remote = remote
      /\ t.automation = automation /\ t.button = button
      /\ t = [Now EXCEPT !.park = t.park]
  BY <1>2 DEF Now
<1> HIDE DEF p, t
<1>6. t \in State
  BY <1>2, <1>4, <1>5, NowIs DEF Half, State
<1>7. \A d \in Conn : /\ t.park[d].kind = park[d].kind /\ t.park[d].title = park[d].title
                      /\ t.park[d].timed = park[d].timed
  BY <1>1, <1>2, <1>4, <1>5
<1>8. \A d \in Conn : Kept(t.conn[d], t.park[d])
  BY <1>2, <1>5, <1>7 DEF Kept
<1>9. t.button => t.automation /\ \E d \in Conn : t.park[d].kind = "drag"
  BY <1>2, <1>5, <1>7, NowIs DEF Half
<1>10. Half(t)
  BY <1>2, <1>5, <1>6, <1>8, <1>9, NowIs DEF Half
<1>11. ParksEnd(t) /\ GateHeld(t) /\ Fewer(park, t.park)
  BY <1>2, <1>5, <1>7, NowIs DEF ParksEnd, GateHeld, Fewer, Whole
<1>12. QED
  BY <1>1, <1>10, <1>11, BecomesFewer, WorldRests DEF Whole

LEMMA DragEndsKeep ==
  ASSUME IInv, NEW c \in Conn, DragFails(c) \/ DragDrops(c)
  PROVE  IInv'
<1> DEFINE t == [Now EXCEPT !.button = FALSE]
           u == Unparked(Resolved(t, {c}))
<1>1. Whole(Now) /\ Half(Now) /\ Now \in State
  BY DEF IInv, Whole, Half
<1>2. button => automation
  BY <1>1, NowIs DEF Half
<1>3. button \in BOOLEAN /\ automation \in BOOLEAN
  <2>1. Now.button \in BOOLEAN /\ Now.automation \in BOOLEAN
    BY <1>1 DEF State
  <2>2. QED
    BY <2>1, NowIs
<1>4. (button /\ ~automation) = FALSE
  BY <1>2
<1>5. park[c].kind = "drag" /\ Become(u) /\ UNCHANGED world
  <2>1. CASE DragFails(c)
    <3>1. [Now EXCEPT !.button = @ /\ ~automation] = t
      BY <1>4, NowIs
    <3>2. QED
      BY <2>1, <3>1 DEF DragFails
  <2>2. CASE DragDrops(c)
    BY <2>2 DEF DragDrops
  <2>3. QED
    BY <2>1, <2>2
<1>6. /\ t.conn = conn /\ t.park = park /\ t.remote = remote
      /\ t.automation = automation /\ t.button = FALSE /\ t \in State
  BY <1>1 DEF Now, State
<1> HIDE DEF t
<1>7. Half(t)
  BY <1>1, <1>6, NowIs DEF Half
<1>8. Whole(t)
  BY <1>1, <1>6, <1>7, NowIs DEF Whole, ParksEnd, GateHeld
<1>9. {c} \in SUBSET Conn /\ (\A d \in {c} : t.conn[d].sock = "client" /\ t.conn[d].role = "request")
  BY <1>5, <1>6, <1>8, ParkedAsks
<1>10. Whole(u) /\ Fewer(t.park, u.park)
  BY <1>6, <1>8, <1>9, AnswersKeep
<1> HIDE DEF u
<1>11. QED
  BY <1>5, <1>6, <1>10, BecomesFewer, WorldRests

-----------------------------------------------------------------------------
(* The invariant.                                                          *)

LEMMA ServerInit == Init => IInv
<1> SUFFICES ASSUME Init
             PROVE  IInv
  OBVIOUS
<1> DEFINE k == [NewClient EXCEPT !.sock = "none"]
<1>1. /\ k \in Client /\ k.sock = "none" /\ k.role = "request" /\ ~k.spent /\ k.replies = 0
  BY DEF NewClient, Client, Roles
<1>2. NoPark \in Parks /\ NoPark.kind = "none" /\ ~NoPark.timed
  BY NoParkIsPark
<1>3. Kept(k, NoPark)
  BY <1>1, <1>2 DEF Kept
<1>4. /\ conn = [c \in Conn |-> k] /\ park = [c \in Conn |-> NoPark]
      /\ win = [w \in Window |-> NoWindow] /\ remote = NoServer
      /\ ~ping /\ ping \in BOOLEAN /\ xdisplay \in BOOLEAN /\ locked \in BOOLEAN
      /\ automation \in BOOLEAN /\ button = FALSE /\ env \in Env
  BY DEF Init
<1> HIDE DEF k, Init
<1>5. conn \in [Conn -> Client] /\ park \in [Conn -> Parks]
  BY <1>1, <1>2, <1>4
<1>6. remote \in [on : BOOLEAN, server : Conn \cup {None}, viewers : BOOLEAN]
      /\ remote.server = None /\ ~remote.on
  BY <1>4 DEF NoServer
<1>7. Now \in State
  BY <1>4, <1>5, <1>6 DEF Now, State
<1>8. \A c \in Conn : Kept(conn[c], park[c]) /\ park[c].kind = "none"
  BY <1>2, <1>3, <1>4
<1>9. Whole(Now)
  BY <1>4, <1>6, <1>7, <1>8, NowIs DEF Whole, Half, ParksEnd, GateHeld
<1>10. WindowsPlaced(win)
  BY <1>4 DEF WindowsPlaced, NoWindow, Windows
<1>11. Unmissed(park, win)
  BY <1>8 DEF Unmissed
<1>12. QED
  BY <1>4, <1>9, <1>10, <1>11 DEF IInv, Rest

LEMMA LoopKeeps ==
  ASSUME IInv, Loop
  PROVE  IInv'
BY WakeKeeps, FlushKeeps, LingerKeeps DEF Loop

LEMMA PeersStepKeeps ==
  ASSUME IInv, Peers
  PROVE  IInv'
BY PeersKeep, HangupKeeps, GarbageKeeps DEF Peers

LEMMA RequestsKeep ==
  ASSUME IInv, Requests
  PROVE  IInv'
<1>1. PICK c \in Conn :
        \/ Query(c) \/ SessionRequest(c) \/ WindowRequest(c) \/ InputRequest(c)
        \/ \E on \in BOOLEAN :
             SetAutomation(c, on) \/ SetRemote(c, on) \/ ReportRemoteViewers(c, on)
        \/ \E role \in Roles : Subscribe(c, role)
        \/ RegisterRemoteServer(c) \/ RegisterRemoteClient(c)
        \/ \E title, unmap, timed \in BOOLEAN : WaitWindow(c, title, unmap, timed)
        \/ \E timed \in BOOLEAN : WaitReady(c, timed)
        \/ Probe(c) \/ PickWindow(c)
        \/ \E target \in Window \cup {None} : StartDrag(c, target)
        \/ \E w \in Window : SetWindowName(c, w)
  BY DEF Requests
<1>2. QED
  BY <1>1, OneShotsKeep, GatesKeep, SubscribeKeeps, ServerKeeps, MachineKeeps,
     WaitsKeep, StartDragKeeps, SetWindowNameKeeps

LEMMA AnswersStepKeeps ==
  ASSUME IInv, Answers
  PROVE  IInv'
BY WindowOpensKeeps, WindowCommitsKeeps, WindowMovesKeeps, WindowClosesKeeps,
   AnswersAllKeep, StillKeeps, DragMovesKeeps, DragEndsKeep, EventsKeep DEF Answers

LEMMA ServerStep == IInv /\ [Next]_vars => IInv'
<1>1. ASSUME IInv, UNCHANGED vars
      PROVE  IInv'
  BY <1>1 DEF IInv, Rest, Now, vars
<1>2. QED
  BY <1>1, LoopKeeps, PeersStepKeeps, RequestsKeep, AnswersStepKeeps DEF Next

LEMMA ServerInvariant == Spec => []IInv
BY ServerInit, ServerStep, PTL DEF Spec

\* Every record keeps its shape.
THEOREM ServerTypeCorrect == Spec => []TypeOK
<1>1. IInv => TypeOK
  BY Sizes, NowIs DEF IInv, Rest, Whole, Half, State, WindowsPlaced, TypeOK
<1>2. QED
  BY <1>1, ServerInvariant, PTL

\* A request is answered at most once, and one that waits can be answered
\* (resolve_map_waiters, on_wait_window_timeout, drop_ipc_client).
THEOREM RequestsAreAnsweredOnce == Spec => []AnsweredOnce
<1>1. IInv => AnsweredOnce
  <2> SUFFICES ASSUME IInv, NEW c \in Conn
               PROVE  /\ conn[c].role = "request" => conn[c].replies <= 1
                      /\ Parked(c) => Connected(c) /\ conn[c].replies = 0
                      /\ Connected(c) /\ conn[c].role = "request" /\ conn[c].spent => Parked(c)
    BY DEF AnsweredOnce
  <2>1. Kept(conn[c], park[c])
    BY Sizes
  <2>2. Parked(c) => conn[c].sock = "client"
    BY NowIs DEF IInv, Whole, ParksEnd, Parked
  <2>3. QED
    BY <2>1, <2>2 DEF Kept, Parked, Connected
<1>2. QED
  BY <1>1, ServerInvariant, PTL

\* No map wait is left parked beside a window it waits for.
THEOREM NoWindowIsMissed == Spec => []NoMissedWindow
<1>1. IInv => NoMissedWindow
  BY DEF IInv, Unmissed, NoMissedWindow
<1>2. QED
  BY <1>1, ServerInvariant, PTL

\* The button a drag presses is down only while a drag goes on and the gate is
\* open (drag.rs, cancel_drag_owned_by).
THEOREM DragsRelease == Spec => []DragReleases
<1>1. IInv => DragReleases
  BY NowIs DEF IInv, Whole, Half, DragReleases, Dragging
<1>2. QED
  BY <1>1, ServerInvariant, PTL

\* The remote gate is open only while its server is connected, whatever ended
\* the connection (drop_ipc_client, set_remote).
THEOREM GateIsServed == Spec => []GateNeedsServer
<1>1. IInv => GateNeedsServer
  BY NowIs DEF IInv, Whole, Half, GateHeld, GateNeedsServer, Connected
<1>2. QED
  BY <1>1, ServerInvariant, PTL

-----------------------------------------------------------------------------
(* A queued reply is not cut short. A queue that somebody still reads wants *)
(* a write-ready source, and one that wants a source has it, or the ping    *)
(* that will arm it is on its way (ClientEntry, wants_flush).               *)

Alive(k) == k.sock \in {"client", "linger"}
Awaited(k) == k.queue > 0 => k.wants \/ k.peer = "gone"
Armed(k, pinged) == Alive(k) => Awaited(k) /\ (k.wants => k.flush \/ pinged)
ArmedInv == \A c \in Conn : Armed(conn[c], ping)

\* What a handler makes of a connection k, a source for it aside.
Turned(k, q) ==
  /\ k.sock = "linger" => q.sock = "linger"
  /\ Alive(q) => /\ Alive(k) /\ q.flush = k.flush
                 /\ k.wants => q.wants
                 /\ Awaited(k) => Awaited(q)

\* s is the current state, turned by a handler in its middle.
Turning(s) ==
  /\ s = [conn |-> s.conn, park |-> s.park, remote |-> s.remote,
          automation |-> s.automation, button |-> s.button]
  /\ s.conn \in [Conn -> Client]
  /\ \A c \in Conn : Turned(conn[c], s.conn[c])

\* A lingering connection is closed when its queue is, or unread.
NotCut(k, q) ==
  k.sock = "linger" /\ q.sock = "closed" /\ k.queue > 0
    => q.queue = 0 \/ k.peer # "reading"
Uncut == ArmedInv' /\ \A c \in Conn : NotCut(conn[c], conn'[c])

LEMMA TurnedOn ==
  ASSUME NEW k \in Client, NEW q \in Client, NEW r \in Client,
         Turned(k, q), Turned(q, r)
  PROVE  Turned(k, r)
BY DEF Turned

LEMMA SentTurns ==
  ASSUME NEW k \in Client, NEW n \in Nat
  PROVE  Turned(k, Sent(k, n))
<1>1. CASE k.peer = "reading"
  BY <1>1 DEF Sent, Client, Turned, Alive, Awaited
<1>2. CASE k.peer = "stalled"
  <2> DEFINE m == k.queue + n
  <2>1. m \in Nat
    BY DEF Client
  <2>2. Sent(k, n) = [k EXCEPT !.queue = m, !.wants = TRUE]
    BY <1>2 DEF Sent
  <2> HIDE DEF m
  <2>3. QED
    BY <2>1, <2>2 DEF Client, Turned, Alive, Awaited
<1>3. CASE k.peer = "gone"
  BY <1>3 DEF Sent, Client, Turned, Alive, Awaited
<1>4. QED
  BY <1>1, <1>2, <1>3 DEF Client

LEMMA RepliedTurns ==
  ASSUME NEW k \in Client
  PROVE  Turned(k, Replied(k))
<1> DEFINE s == Sent(k, 1)
           m == s.replies + 1
<1>1. s \in Client /\ Turned(k, s)
  BY SentKeeps, SentTurns
<1>2. Replied(k) \in {s, [s EXCEPT !.spent = TRUE, !.replies = m]}
  BY DEF Replied
<1> HIDE DEF s, m
<1>3. QED
  BY <1>1, <1>2 DEF Client, Turned, Alive, Awaited

LEMMA DroppedTurns ==
  ASSUME NEW k \in Client
  PROVE  Turned(k, Dropped(k))
BY DEF Dropped, Client, Turned, Alive, Awaited

LEMMA AnsweredTurns ==
  ASSUME NEW k \in Client
  PROVE  Turned(k, Answered(k)) /\ Answered(k) \in Client
<1>1. Replied(k) \in Client /\ Turned(k, Replied(k))
  BY RepliedKeeps, RepliedTurns
<1>2. Answered(k) \in Client /\ Turned(Replied(k), Answered(k))
  BY <1>1, DroppedKeeps, DroppedTurns DEF Answered
<1>3. QED
  BY <1>1, <1>2, TurnedOn

LEMMA SubscribedTurns ==
  ASSUME NEW k \in Client, NEW n \in Nat
  PROVE  Turned(k, Subscribed(k, n)) /\ Subscribed(k, n) \in Client
<1> DEFINE s == Sent(k, n)
           e == [s EXCEPT !.queue = 0]
<1>1. s \in Client /\ Turned(k, s)
  BY SentKeeps, SentTurns
<1>2. Subscribed(k, n) \in {Dropped(s), Dropped(e), s}
  BY DEF Subscribed
<1> HIDE DEF s
<1>3. e \in Client /\ Turned(s, e)
  BY <1>1 DEF Client, Turned, Alive, Awaited
<1> HIDE DEF e
<1>4. e \in Client /\ Turned(k, e)
  BY <1>1, <1>3, TurnedOn
<1>5. /\ Dropped(s) \in Client /\ Turned(s, Dropped(s))
      /\ Dropped(e) \in Client /\ Turned(e, Dropped(e))
  BY <1>1, <1>3, DroppedKeeps, DroppedTurns
<1>6. Turned(k, Dropped(s)) /\ Turned(k, Dropped(e))
  BY <1>1, <1>4, <1>5, TurnedOn
<1>7. QED
  BY <1>1, <1>2, <1>5, <1>6

\* The steps of a handler, whatever the order it takes them in.
LEMMA TurningNow == IInv => Turning(Now)
<1> SUFFICES ASSUME IInv
             PROVE  Turning(Now)
  OBVIOUS
<1>1. conn \in [Conn -> Client]
  BY Sizes
<1>2. \A c \in Conn : Turned(conn[c], conn[c])
  BY <1>1 DEF Turned
<1>3. QED
  BY <1>1, <1>2, NowIs DEF Turning, Now

\* Some connections, turned further.
LEMMA TurningOn ==
  ASSUME IInv, NEW s, Turning(s), NEW t, t.conn \in [Conn -> Client],
         t = [conn |-> t.conn, park |-> t.park, remote |-> t.remote,
              automation |-> t.automation, button |-> t.button],
         \A c \in Conn : Turned(s.conn[c], t.conn[c])
  PROVE  Turning(t)
<1>1. conn \in [Conn -> Client]
  BY Sizes
<1>2. \A c \in Conn : Turned(conn[c], t.conn[c])
  BY <1>1, TurnedOn DEF Turning
<1>3. QED
  BY <1>2 DEF Turning

LEMMA ToldTurns ==
  ASSUME IInv, NEW s, Turning(s), NEW n \in Nat
  PROVE  Turning([s EXCEPT !.conn = Pushed(@, n)])
<1> DEFINE cn == Pushed(s.conn, n)
           t == [s EXCEPT !.conn = cn]
<1>1. s.conn \in [Conn -> Client]
  BY DEF Turning
<1>2. cn \in [Conn -> Client] /\ \A c \in Conn : Turned(s.conn[c], cn[c])
  <2>1. \A c \in Conn : cn[c] \in {s.conn[c], Subscribed(s.conn[c], n)}
    BY DEF Pushed
  <2>2. \A c \in Conn : Turned(s.conn[c], s.conn[c])
    BY <1>1 DEF Turned
  <2>3. cn \in [Conn -> Client]
    BY <1>1, PushedKeeps
  <2> HIDE DEF cn
  <2>4. QED
    BY <1>1, <2>1, <2>2, <2>3, SubscribedTurns
<1> HIDE DEF cn
<1>3. /\ t.conn = cn
      /\ t = [conn |-> t.conn, park |-> t.park, remote |-> t.remote,
              automation |-> t.automation, button |-> t.button]
  BY DEF Turning
<1> HIDE DEF t
<1>4. Turning(t)
  BY <1>2, <1>3, TurningOn
<1>5. QED
  BY <1>4 DEF t, cn

\* What is not about connections turns none.
LEMMA AsideTurns ==
  ASSUME NEW s, Turning(s)
  PROVE  /\ \A pk : Turning([s EXCEPT !.park = pk])
         /\ \A rm : Turning([s EXCEPT !.remote = rm])
         /\ \A au : Turning([s EXCEPT !.automation = au])
         /\ \A bt : Turning([s EXCEPT !.button = bt])
BY DEF Turning

LEMMA ResolvedTurns ==
  ASSUME IInv, NEW s, Turning(s), NEW cs
  PROVE  Turning(Resolved(s, cs))
<1> DEFINE cn == [c \in Conn |-> IF c \in cs THEN Answered(s.conn[c]) ELSE s.conn[c]]
           pk == [c \in Conn |-> IF c \in cs THEN NoPark ELSE s.park[c]]
           t == [s EXCEPT !.conn = cn]
<1>1. s.conn \in [Conn -> Client]
  BY DEF Turning
<1>2. \A c \in Conn : Turned(s.conn[c], s.conn[c])
  BY <1>1 DEF Turned
<1>3. cn \in [Conn -> Client] /\ \A c \in Conn : Turned(s.conn[c], cn[c])
  BY <1>1, <1>2, AnsweredTurns
<1>4. Resolved(s, cs) = [t EXCEPT !.park = pk]
  BY DEF Resolved, Turning
<1> HIDE DEF cn, pk
<1>5. /\ t.conn = cn
      /\ t = [conn |-> t.conn, park |-> t.park, remote |-> t.remote,
              automation |-> t.automation, button |-> t.button]
  BY DEF Turning
<1> HIDE DEF t
<1>6. Turning(t)
  BY <1>3, <1>5, TurningOn
<1>7. QED
  BY <1>4, <1>6, AsideTurns

LEMMA UnparkedTurns ==
  ASSUME NEW s, Turning(s)
  PROVE  Turning(Unparked(s))
<1> DEFINE gone == {c \in Conn : s.conn[c].sock # "client"}
           bt == s.button /\ ~\E c \in gone : s.park[c].kind = "drag"
           pk == [c \in Conn |-> IF c \in gone THEN NoPark ELSE s.park[c]]
           t == [s EXCEPT !.button = bt]
<1>1. Unparked(s) = [t EXCEPT !.park = pk]
  BY DEF Unparked, Turning
<1> HIDE DEF bt, pk
<1>2. Turning(t)
  BY AsideTurns
<1> HIDE DEF t
<1>3. QED
  BY <1>1, <1>2, AsideTurns

LEMMA GateSetTurns ==
  ASSUME NEW s, Turning(s), NEW on
  PROVE  Turning(GateSet(s, on))
<1> DEFINE bt == s.button /\ on
           t == [s EXCEPT !.automation = on]
<1>1. GateSet(s, on) = [t EXCEPT !.button = bt]
  BY DEF GateSet, Turning
<1> HIDE DEF bt
<1>2. Turning(t)
  BY AsideTurns
<1> HIDE DEF t
<1>3. QED
  BY <1>1, <1>2, AsideTurns

LEMMA SettledTurns ==
  ASSUME IInv, NEW s, Turning(s), NEW n \in Nat
  PROVE  Turning(Settled(s, n))
<1> DEFINE told == [s EXCEPT !.conn = Pushed(@, n)]
           torn == ServerTornDown(told)
           m == TeardownNews(told)
           down == [torn EXCEPT !.conn = Pushed(@, m)]
<1>1. Turning(told)
  BY ToldTurns
<1> HIDE DEF told
<1>2. Turning(torn)
  <2>1. Turning([GateSet(told, FALSE) EXCEPT !.remote = NoServer])
    BY <1>1, GateSetTurns, AsideTurns
  <2>2. Turning([told EXCEPT !.remote = NoServer])
    BY <1>1, AsideTurns
  <2>3. QED
    BY <2>1, <2>2 DEF ServerTornDown
<1>3. m \in Nat
  BY DEF TeardownNews
<1>4. Settled(s, n) = Unparked(IF ServerLost(told) THEN down ELSE told)
  BY DEF Settled, told
<1> HIDE DEF torn, m
<1>5. Turning(down)
  BY <1>2, <1>3, ToldTurns
<1> HIDE DEF down
<1>6. QED
  BY <1>1, <1>4, <1>5, UnparkedTurns

LEMMA MapResolvedTurns ==
  ASSUME IInv, NEW s, Turning(s), NEW ws
  PROVE  Turning(MapResolved(s, ws))
BY ResolvedTurns DEF MapResolved

LEMMA UnmapResolvedTurns ==
  ASSUME IInv, NEW s, Turning(s), NEW w
  PROVE  Turning(UnmapResolved(s, w))
<1> DEFINE pk == [c \in Conn |-> [s.park[c] EXCEPT !.watch = @ \ {w}]]
           left == [s EXCEPT !.park = pk]
           cs == {c \in Conn : left.park[c].kind = "unmap" /\ left.park[c].watch = {}}
<1>1. UnmapResolved(s, w) = Resolved(left, cs)
  BY DEF UnmapResolved
<1> HIDE DEF pk
<1>2. Turning(left)
  BY AsideTurns
<1> HIDE DEF left, cs
<1>3. QED
  BY <1>1, <1>2, ResolvedTurns

\* One connection, turned.
LEMMA WithTurns ==
  ASSUME IInv, NEW c \in Conn, NEW k \in Client, Turned(conn[c], k)
  PROVE  Turning(With(c, k))
<1>1. conn \in [Conn -> Client]
  BY Sizes
<1>2. \A d \in Conn : Turned(conn[d], conn[d])
  BY <1>1 DEF Turned
<1> DEFINE cn == [conn EXCEPT ![c] = k]
           t == With(c, k)
<1>3. cn \in [Conn -> Client] /\ \A d \in Conn : Turned(conn[d], cn[d])
  BY <1>1, <1>2
<1>4. /\ t.conn = cn
      /\ t = [conn |-> t.conn, park |-> t.park, remote |-> t.remote,
              automation |-> t.automation, button |-> t.button]
  BY DEF With, Now
<1> HIDE DEF cn, t
<1>5. Turning(t)
  BY <1>3, <1>4 DEF Turning
<1>6. QED
  BY <1>5 DEF t

\* What a handler leaves: a queue that has come to want a source is pinged for.
LEMMA TurnedUncut ==
  ASSUME IInv, ArmedInv, conn' \in [Conn -> Client],
         \A c \in Conn : Turned(conn[c], conn'[c]),
         ping' = (ping \/ \E c \in Conn : conn'[c].wants /\ ~conn[c].wants)
  PROVE  Uncut
<1>1. conn \in [Conn -> Client] /\ ping \in BOOLEAN
  BY Sizes
<1>3. ASSUME NEW c \in Conn
      PROVE  Armed(conn'[c], ping') /\ NotCut(conn[c], conn'[c])
  <2>1. conn[c] \in Client /\ conn'[c] \in Client /\ Turned(conn[c], conn'[c])
    BY <1>1
  <2>2. Armed(conn[c], ping)
    BY DEF ArmedInv
  <2>3. ping \/ (conn'[c].wants /\ ~conn[c].wants) => ping'
    OBVIOUS
  <2>4. QED
    BY <2>1, <2>2, <2>3 DEF Armed, NotCut, Turned, Client
<1>4. QED
  BY <1>3 DEF Uncut, ArmedInv

LEMMA TurnsUncut ==
  ASSUME IInv, ArmedInv, NEW s, Turning(s), Become(s)
  PROVE  Uncut
BY TurnedUncut DEF Turning, Become

\* A handler that answers nobody else's request.
LEMMA OneTurnsUncut ==
  ASSUME IInv, ArmedInv, NEW c \in Conn, NEW k \in Client, Turned(conn[c], k),
         NEW s, s.conn = [conn EXCEPT ![c] = k], Become(s)
  PROVE  Uncut
<1>1. conn \in [Conn -> Client]
  BY Sizes
<1>2. With(c, k).conn = s.conn /\ Turning(With(c, k))
  BY WithIs, WithTurns
<1>3. conn' = With(c, k).conn /\ ping' = (ping \/ \E d \in Conn : With(c, k).conn[d].wants /\ ~conn[d].wants)
  BY <1>2 DEF Become
<1>4. QED
  BY <1>2, <1>3, TurnedUncut DEF Turning

\* The loop's own sources: what becomes of one connection is told.
LEMMA OneArmedUncut ==
  ASSUME IInv, ArmedInv, NEW c \in Conn, NEW k \in Client, conn' = [conn EXCEPT ![c] = k],
         ping => ping', Armed(k, ping'), NotCut(conn[c], k)
  PROVE  Uncut
<1>1. conn \in [Conn -> Client]
  BY Sizes
<1>2. ASSUME NEW d \in Conn
      PROVE  Armed(conn'[d], ping') /\ NotCut(conn[d], conn'[d])
  <2>1. CASE d = c
    BY <1>1, <2>1
  <2>2. CASE d # c
    <3>1. conn'[d] = conn[d] /\ Armed(conn[d], ping)
      BY <1>1, <2>2 DEF ArmedInv
    <3>2. QED
      BY <3>1 DEF Armed, NotCut
  <2>3. QED
    BY <2>1, <2>2
<1>3. QED
  BY <1>2 DEF Uncut, ArmedInv

LEMMA SameUncut ==
  ASSUME IInv, ArmedInv, UNCHANGED <<conn, ping>>
  PROVE  Uncut
BY DEF ArmedInv, Uncut, NotCut

LEMMA AcceptUncut ==
  ASSUME IInv, ArmedInv, NEW c \in Conn, Accept(c)
  PROVE  Uncut
<1>1. NewClient \in Client /\ Armed(NewClient, ping') /\ NotCut(conn[c], NewClient)
  BY DEF NewClient, Client, Roles, Armed, Awaited, NotCut
<1>2. QED
  BY <1>1, OneArmedUncut DEF Accept

LEMMA PeerUncut ==
  ASSUME IInv, ArmedInv, NEW c \in Conn, NEW peer \in {"reading", "stalled", "gone"},
         PeerTurns(c, peer)
  PROVE  Uncut
<1> DEFINE k == [conn[c] EXCEPT !.peer = peer]
<1>1. conn \in [Conn -> Client] /\ conn[c] \in Client /\ Armed(conn[c], ping)
  BY Sizes DEF ArmedInv
<1>2. /\ conn' = [conn EXCEPT ![c] = k] /\ ping' = ping
      /\ conn[c].sock \in {"client", "linger"} /\ conn[c].peer # "gone"
  BY <1>1 DEF PeerTurns
<1>3. k \in Client /\ Armed(k, ping) /\ NotCut(conn[c], k)
  BY <1>1, <1>2 DEF Client, Armed, Awaited, Alive, NotCut
<1> HIDE DEF k
<1>4. QED
  BY <1>2, <1>3, OneArmedUncut

LEMMA LingerUncut ==
  ASSUME IInv, ArmedInv, NEW c \in Conn, LingerTimeout(c)
  PROVE  Uncut
<1> DEFINE k == [conn[c] EXCEPT !.sock = "closed", !.flush = FALSE]
<1>1. conn \in [Conn -> Client] /\ conn[c] \in Client /\ Armed(conn[c], ping)
  BY Sizes DEF ArmedInv
<1>2. /\ conn' = [conn EXCEPT ![c] = k] /\ ping' = ping /\ conn[c].sock = "linger"
      /\ IF conn[c].flush THEN conn[c].peer = "stalled" ELSE ~(ping /\ conn[c].wants)
  BY <1>1 DEF LingerTimeout
<1>3. k \in Client /\ k.sock = "closed"
  BY <1>1 DEF Client
<1>4. conn[c].queue > 0 => conn[c].peer # "reading"
  BY <1>1, <1>2 DEF Client, Armed, Awaited, Alive
<1> HIDE DEF k
<1>5. QED
  BY <1>2, <1>3, <1>4, OneArmedUncut DEF Armed, Alive, NotCut

LEMMA WakeUncut ==
  ASSUME IInv, ArmedInv, Wake
  PROVE  Uncut
<1>1. ASSUME NEW c \in Conn
      PROVE  Armed(conn'[c], ping') /\ NotCut(conn[c], conn'[c])
  <2>1. conn[c] \in Client /\ Armed(conn[c], ping)
    BY Sizes DEF ArmedInv
  <2>2. conn'[c] = IF conn[c].sock \in {"client", "linger"} /\ conn[c].wants
                   THEN [conn[c] EXCEPT !.flush = TRUE] ELSE conn[c]
    BY DEF Wake
  <2>3. CASE conn[c].sock \in {"client", "linger"} /\ conn[c].wants
    BY <2>1, <2>2, <2>3 DEF Client, Armed, Awaited, Alive, NotCut
  <2>4. CASE ~(conn[c].sock \in {"client", "linger"} /\ conn[c].wants)
    BY <2>1, <2>2, <2>4 DEF Client, Armed, Awaited, Alive, NotCut
  <2>5. QED
    BY <2>3, <2>4
<1>2. QED
  BY <1>1 DEF Uncut, ArmedInv

LEMMA FlushUncut ==
  ASSUME IInv, ArmedInv, NEW c \in Conn, Flush(c)
  PROVE  Uncut
<1> DEFINE drained == [conn[c] EXCEPT !.queue = 0, !.flush = FALSE,
                                      !.wants = @ /\ conn[c].peer = "gone"]
           closed == [drained EXCEPT !.sock = "closed", !.wants = FALSE]
<1>1. conn[c] \in Client
  BY Sizes
<1>2. /\ drained \in Client /\ drained.sock = conn[c].sock /\ drained.queue = 0
      /\ conn[c].peer # "gone" => ~drained.wants
  BY <1>1 DEF Client
<1>3. \/ conn[c].sock = "linger" /\ Become([Now EXCEPT !.conn[c] = closed])
      \/ /\ conn[c].sock # "linger"
         /\ Become(Settled([Now EXCEPT !.conn[c] = Dropped(drained)], 0))
      \/ conn[c].peer # "gone" /\ Become([Now EXCEPT !.conn[c] = drained])
  <2>1. CASE conn[c].sock = "linger"
    BY <2>1 DEF Flush
  <2>2. CASE conn[c].sock # "linger" /\ conn[c].peer = "gone"
    BY <2>2 DEF Flush
  <2>3. CASE conn[c].sock # "linger" /\ conn[c].peer # "gone"
    BY <2>3 DEF Flush
  <2>4. QED
    BY <2>1, <2>2, <2>3
<1> HIDE DEF drained
<1>4. closed \in Client /\ closed.sock = "closed" /\ closed.queue = 0
  BY <1>2 DEF Client
<1> HIDE DEF closed
<1>5. CASE conn[c].sock = "linger" /\ Become([Now EXCEPT !.conn[c] = closed])
  <2>1. conn' = [conn EXCEPT ![c] = closed] /\ (ping => ping')
    BY <1>5 DEF Become, Now
  <2>2. QED
    BY <1>4, <2>1, OneArmedUncut DEF Armed, Alive, NotCut
<1>6. CASE /\ conn[c].sock # "linger"
           /\ Become(Settled([Now EXCEPT !.conn[c] = Dropped(drained)], 0))
  <2>1. Dropped(drained) \in Client /\ Dropped(drained).sock \notin {"client", "linger"}
    <3>1. CASE drained.sock = "client"
      <4>1. Dropped(drained) = [drained EXCEPT !.sock = "closed", !.wants = FALSE,
                                               !.flush = FALSE]
        BY <1>2, <3>1 DEF Dropped
      <4>2. QED
        BY <1>2, <4>1 DEF Client
    <3>2. CASE drained.sock # "client"
      BY <1>2, <1>6, <3>2 DEF Dropped
    <3>3. QED
      BY <3>1, <3>2
  <2>2. Turned(conn[c], Dropped(drained))
    BY <1>6, <2>1 DEF Turned, Alive
  <2>3. Turning(With(c, Dropped(drained)))
    BY <2>1, <2>2, WithTurns
  <2>4. Turning(Settled(With(c, Dropped(drained)), 0))
    BY <2>3, SettledTurns
  <2>5. QED
    BY <1>6, <2>4, TurnsUncut DEF With
<1>7. CASE conn[c].peer # "gone" /\ Become([Now EXCEPT !.conn[c] = drained])
  <2>1. conn' = [conn EXCEPT ![c] = drained] /\ (ping => ping')
    BY <1>7 DEF Become, Now
  <2>2. Armed(drained, ping') /\ NotCut(conn[c], drained)
    BY <1>2, <1>7 DEF Armed, Awaited, NotCut
  <2>3. QED
    BY <1>2, <2>1, <2>2, OneArmedUncut
<1>8. QED
  BY <1>3, <1>5, <1>6, <1>7

-----------------------------------------------------------------------------
(* Every handler.                                                           *)

LEMMA ReplyToUncut ==
  ASSUME IInv, ArmedInv, NEW c, NEW n \in Nat, ReplyTo(c, n)
  PROVE  Uncut
BY TurningNow, ResolvedTurns, SettledTurns, TurnsUncut DEF ReplyTo

LEMMA HangupUncut ==
  ASSUME IInv, ArmedInv, NEW c \in Conn, Hangup(c)
  PROVE  Uncut
<1>1. conn[c] \in Client /\ Dropped(conn[c]) \in Client /\ Turned(conn[c], Dropped(conn[c]))
  BY Sizes, DroppedKeeps, DroppedTurns
<1>2. Become(Settled([Now EXCEPT !.conn[c] = Dropped(@)], 0))
  BY DEF Hangup, Drop
<1>3. Become(Settled(With(c, Dropped(conn[c])), 0))
  BY <1>2, NowIs DEF With
<1>4. QED
  BY <1>1, <1>3, WithTurns, SettledTurns, TurnsUncut

LEMMA GarbageUncut ==
  ASSUME IInv, ArmedInv, NEW c \in Conn, Garbage(c)
  PROVE  Uncut
<1> DEFINE r == Resolved(Now, {c})
           pk == [r.park EXCEPT ![c] = park[c]]
           t == [r EXCEPT !.park = pk]
<1>1. Turning(r)
  BY TurningNow, ResolvedTurns
<1>2. Become(Settled(t, 0))
  BY DEF Garbage
<1> HIDE DEF r, pk
<1>3. Turning(t)
  BY <1>1, AsideTurns
<1> HIDE DEF t
<1>4. QED
  BY <1>2, <1>3, SettledTurns, TurnsUncut

LEMMA GatesUncut ==
  ASSUME IInv, ArmedInv, NEW c \in Conn, NEW on \in BOOLEAN,
         SetAutomation(c, on) \/ SetRemote(c, on) \/ ReportRemoteViewers(c, on)
  PROVE  Uncut
<1>1. Turning(Now) /\ Turning(GateSet(Now, on))
  BY TurningNow, GateSetTurns
<1>2. CASE SetAutomation(c, on)
  <2> DEFINE n == IF on # automation THEN 2 ELSE 0
  <2>1. n \in Nat
    OBVIOUS
  <2>2. Become(Settled(Resolved(GateSet(Now, on), {c}), n))
    BY <1>2 DEF SetAutomation
  <2> HIDE DEF n
  <2>3. QED
    BY <1>1, <2>1, <2>2, ResolvedTurns, SettledTurns, TurnsUncut
<1>3. CASE SetRemote(c, on)
  <2> DEFINE g == GateSet(Now, on)
             set == [g EXCEPT !.remote.on = on, !.remote.viewers = @ /\ on]
             rm == [[g.remote EXCEPT !.on = on] EXCEPT !.viewers = @ /\ on]
             n == (IF on # remote.on THEN 1 ELSE 0) + (IF on # automation THEN 2 ELSE 0)
  <2>1. n \in Nat
    OBVIOUS
  <2>2. ReplyTo(c, 0) \/ Become(Settled(Resolved(set, {c}), n))
    BY <1>3 DEF SetRemote
  <2> HIDE DEF n
  <2>3. set = [g EXCEPT !.remote = rm]
    <3>1. g \in [{"conn", "park", "remote", "automation", "button"} ->
                 {g.conn, g.park, g.remote, g.automation, g.button}]
      BY DEF GateSet, Now
    <3> HIDE DEF g
    <3>2. QED
      BY <3>1
  <2>4. Turning(set)
    BY <1>1, <2>3, AsideTurns
  <2> HIDE DEF set
  <2>5. QED
    BY <2>1, <2>2, <2>4, ReplyToUncut, ResolvedTurns, SettledTurns, TurnsUncut
<1>4. CASE ReportRemoteViewers(c, on)
  <2> DEFINE rm == [remote EXCEPT !.viewers = on]
             n == IF on # remote.viewers THEN 1 ELSE 0
  <2>1. n \in Nat
    OBVIOUS
  <2>2. Become(Settled(Resolved([Now EXCEPT !.remote = rm], {c}), n))
    BY <1>4, NowIs DEF ReportRemoteViewers
  <2> HIDE DEF n, rm
  <2>3. Turning([Now EXCEPT !.remote = rm])
    BY <1>1, AsideTurns
  <2>4. QED
    BY <2>1, <2>2, <2>3, ResolvedTurns, SettledTurns, TurnsUncut
<1>5. QED
  BY <1>2, <1>3, <1>4

\* A reply, and a role for the connection.
LEMMA EnrolledTurns ==
  ASSUME IInv, NEW c \in Conn, NEW role \in Roles
  PROVE  LET k == [Replied(conn[c]) EXCEPT !.role = role]
         IN k \in Client /\ Turned(conn[c], k)
<1> DEFINE r == Replied(conn[c])
<1>1. conn[c] \in Client /\ r \in Client /\ Turned(conn[c], r)
  BY Sizes, RepliedKeeps, RepliedTurns
<1> HIDE DEF r
<1>2. [r EXCEPT !.role = role] \in Client /\ Turned(conn[c], [r EXCEPT !.role = role])
  BY <1>1 DEF Client, Turned, Alive, Awaited
<1>3. QED
  BY <1>2 DEF r

LEMMA EnrolUncut ==
  ASSUME IInv, ArmedInv, NEW c \in Conn,
         (\E role \in Roles : Subscribe(c, role)) \/ RegisterRemoteClient(c)
  PROVE  Uncut
<1>1. \/ ReplyTo(c, 0)
      \/ \E role \in Roles :
           Become([Now EXCEPT !.conn[c] = [Replied(@) EXCEPT !.role = role]])
  BY DEF Subscribe, RegisterRemoteClient, Roles
<1>2. ASSUME NEW role \in Roles,
             Become([Now EXCEPT !.conn[c] = [Replied(@) EXCEPT !.role = role]])
      PROVE  Uncut
  <2>1. Become(With(c, [Replied(conn[c]) EXCEPT !.role = role]))
    BY <1>2, NowIs DEF With
  <2>2. QED
    BY <2>1, EnrolledTurns, WithTurns, TurnsUncut
<1>3. QED
  BY <1>1, <1>2, ReplyToUncut

LEMMA ServerUncut ==
  ASSUME IInv, ArmedInv, NEW c \in Conn, RegisterRemoteServer(c)
  PROVE  Uncut
<1> DEFINE k == [Replied(conn[c]) EXCEPT !.role = "server"]
           rm == [remote EXCEPT !.server = c]
           t == [Now EXCEPT !.conn[c] = [Replied(@) EXCEPT !.role = "server"],
                            !.remote.server = c]
<1>1. Become(Settled(t, 1))
  BY DEF RegisterRemoteServer
<1>2. t = [With(c, k) EXCEPT !.remote = rm]
  BY DEF Now, With
<1>3. Turning(With(c, k))
  BY EnrolledTurns, WithTurns DEF Roles
<1> HIDE DEF k, rm
<1>4. Turning(t)
  BY <1>2, <1>3, AsideTurns
<1> HIDE DEF t
<1>5. QED
  BY <1>1, <1>4, SettledTurns, TurnsUncut

\* A request that waits is marked spent, and its connection told nothing.
LEMMA SpentUncut ==
  ASSUME IInv, ArmedInv, NEW c \in Conn, NEW s, s.conn = [conn EXCEPT ![c].spent = TRUE],
         Become(s)
  PROVE  Uncut
<1> DEFINE k == [conn[c] EXCEPT !.spent = TRUE]
<1>1. conn \in [Conn -> Client] /\ conn[c] \in Client
  BY Sizes
<1>2. k \in Client /\ Turned(conn[c], k)
  BY <1>1 DEF Client, Turned, Alive, Awaited
<1>3. s.conn = [conn EXCEPT ![c] = k]
  BY <1>1
<1> HIDE DEF k
<1>4. QED
  BY <1>2, <1>3, OneTurnsUncut

LEMMA HoldUncut ==
  ASSUME IInv, ArmedInv, NEW c \in Conn, NEW request, Hold(c, request)
  PROVE  Uncut
<1> DEFINE t == [Now EXCEPT !.conn[c].spent = TRUE, !.park[c] = request]
<1>1. Become(t)
  BY DEF Hold
<1>2. t.conn = [conn EXCEPT ![c].spent = TRUE]
  BY DEF Now
<1> HIDE DEF t
<1>3. QED
  BY <1>1, <1>2, SpentUncut

LEMMA WaitsUncut ==
  ASSUME IInv, ArmedInv, NEW c \in Conn,
         \/ \E title, unmap, timed \in BOOLEAN : WaitWindow(c, title, unmap, timed)
         \/ \E timed \in BOOLEAN : WaitReady(c, timed)
         \/ Probe(c) \/ PickWindow(c)
  PROVE  Uncut
<1>1. ReplyTo(c, 0) \/ \E request : Hold(c, request)
  BY DEF WaitWindow, WaitReady, Probe, PickWindow
<1>2. QED
  BY <1>1, ReplyToUncut, HoldUncut

LEMMA StartDragUncut ==
  ASSUME IInv, ArmedInv, NEW c \in Conn, NEW target, StartDrag(c, target)
  PROVE  Uncut
<1> DEFINE p == [NoPark EXCEPT !.kind = "drag", !.target = target,
                               !.underLock = locked, !.next = 1]
           t == [Now EXCEPT !.conn[c].spent = TRUE, !.button = TRUE, !.park[c] = p]
<1>1. ReplyTo(c, 0) \/ Become(t)
  BY DEF StartDrag
<1> HIDE DEF p
<1>2. t.conn = [conn EXCEPT ![c].spent = TRUE]
  BY DEF Now
<1> HIDE DEF t
<1>3. QED
  BY <1>1, <1>2, ReplyToUncut, SpentUncut

\* The requests an event answers, whichever they are.
LEMMA ResolvedUncut ==
  ASSUME IInv, ArmedInv, NEW s, Turning(s), NEW cs, Become(Unparked(Resolved(s, cs)))
  PROVE  Uncut
BY ResolvedTurns, UnparkedTurns, TurnsUncut

LEMMA AnswersUncut ==
  ASSUME IInv, ArmedInv,
         \/ XwaylandReady \/ Render \/ LockSession
         \/ \E c \in Conn : WaitTimeout(c) \/ PickerFinishes(c)
  PROVE  Uncut
<1>1. \E cs : Become(Unparked(Resolved(Now, cs)))
  BY DEF XwaylandReady, Render, LockSession, WaitTimeout, PickerFinishes
<1>2. QED
  BY <1>1, TurningNow, ResolvedUncut

LEMMA DragsUncut ==
  ASSUME IInv, ArmedInv, NEW c \in Conn, DragMoves(c) \/ DragFails(c) \/ DragDrops(c)
  PROVE  Uncut
<1>1. CASE DragMoves(c)
  <2> DEFINE pk == [park EXCEPT ![c].next = @ + 1]
  <2>1. Become([Now EXCEPT !.park = pk])
    BY <1>1, NowIs DEF DragMoves
  <2> HIDE DEF pk
  <2>2. QED
    BY <2>1, TurningNow, AsideTurns, TurnsUncut
<1>2. CASE DragFails(c) \/ DragDrops(c)
  <2>1. \E bt : Become(Unparked(Resolved([Now EXCEPT !.button = bt], {c})))
    <3>1. CASE DragFails(c)
      <4> DEFINE bt == Now.button /\ ~automation
      <4>1. Become(Unparked(Resolved([Now EXCEPT !.button = bt], {c})))
        BY <3>1 DEF DragFails
      <4> HIDE DEF bt
      <4>2. QED
        BY <4>1
    <3>2. CASE DragDrops(c)
      BY <3>2 DEF DragDrops
    <3>3. QED
      BY <1>2, <3>1, <3>2
  <2>2. QED
    BY <2>1, TurningNow, AsideTurns, ResolvedUncut
<1>3. QED
  BY <1>1, <1>2

LEMMA EventsUncut ==
  ASSUME IInv, ArmedInv, NEW c \in Conn, Sampled(c) \/ CapturedInput(c)
  PROVE  Uncut
<1>1. /\ Subscribed(conn[c], 1) \in Client /\ Turned(conn[c], Subscribed(conn[c], 1))
      /\ Sent(conn[c], 1) \in Client /\ Turned(conn[c], Sent(conn[c], 1))
  BY Sizes, SubscribedTurns, SentKeeps, SentTurns
<1>2. CASE Sampled(c)
  <2>1. Become([Now EXCEPT !.conn[c] = Subscribed(@, 1)])
    BY <1>2 DEF Sampled
  <2>2. Become(With(c, Subscribed(conn[c], 1)))
    BY <2>1, NowIs DEF With
  <2>3. QED
    BY <1>1, <2>2, WithTurns, TurnsUncut
<1>3. CASE CapturedInput(c)
  <2>1. Become([Now EXCEPT !.conn[c] = Sent(@, 1)])
    BY <1>3 DEF CapturedInput
  <2>2. Become(With(c, Sent(conn[c], 1)))
    BY <2>1, NowIs DEF With
  <2>3. QED
    BY <1>1, <2>2, WithTurns, TurnsUncut
<1>4. QED
  BY <1>2, <1>3

\* A window's event is told, and answers the waits it concerns.
LEMMA WindowsUncut ==
  ASSUME IInv, ArmedInv, NEW w \in Window,
         \/ WindowOpens(w) \/ WindowCloses(w)
         \/ \E titled, drawn \in BOOLEAN : WindowCommits(w, titled, drawn)
  PROVE  Uncut
<1>1. \A n \in Nat : Turning(Settled(Now, n))
  BY TurningNow, SettledTurns
<1>2. \/ Become(Unparked(UnmapResolved(Settled(Now, 1), w)))
      \/ \E n \in {0, 1} : Become(Unparked(MapResolved(Settled(Now, n), win')))
  <2>1. CASE WindowOpens(w)
    BY <2>1 DEF WindowOpens
  <2>2. CASE WindowCloses(w)
    BY <2>2 DEF WindowCloses
  <2>3. CASE \E titled, drawn \in BOOLEAN : WindowCommits(w, titled, drawn)
    <3>1. PICK titled \in BOOLEAN, drawn \in BOOLEAN : WindowCommits(w, titled, drawn)
      BY <2>3
    <3> DEFINE n == IF win[w].shown /\ titled /\ ~win[w].titled THEN 1 ELSE 0
    <3>2. Become(Unparked(MapResolved(Settled(Now, n), win')))
      BY <3>1 DEF WindowCommits
    <3>3. n \in {0, 1}
      OBVIOUS
    <3> HIDE DEF n
    <3>4. QED
      BY <3>2, <3>3
  <2>4. QED
    BY <2>1, <2>2, <2>3
<1>3. QED
  BY <1>1, <1>2, MapResolvedTurns, UnmapResolvedTurns, UnparkedTurns, TurnsUncut

LEMMA SetNameUncut ==
  ASSUME IInv, ArmedInv, NEW c \in Conn, NEW w \in Window, SetWindowName(c, w)
  PROVE  Uncut
<1>1. Turning(MapResolved(Settled(Now, 1), win'))
  BY TurningNow, SettledTurns, MapResolvedTurns
<1>2. QED
  BY <1>1, ResolvedUncut DEF SetWindowName

LEMMA StillUncut ==
  ASSUME IInv, ArmedInv,
         XwaylandDies \/ UnlockSession \/ (\E w \in Window : WindowMoves(w)) \/ UNCHANGED vars
  PROVE  Uncut
BY SameUncut DEF XwaylandDies, UnlockSession, WindowMoves, vars

LEMMA ArmedInit == Init => ArmedInv
<1>1. [NewClient EXCEPT !.sock = "none"].sock = "none"
  BY DEF NewClient
<1>2. QED
  BY <1>1 DEF Init, ArmedInv, Armed, Alive

LEMMA ArmedStep ==
  ASSUME IInv, ArmedInv, [Next]_vars
  PROVE  Uncut
<1>1. CASE Loop
  BY <1>1, WakeUncut, FlushUncut, LingerUncut DEF Loop
<1>2. CASE Peers
  BY <1>2, AcceptUncut, PeerUncut, HangupUncut, GarbageUncut DEF Peers
<1>3. CASE Requests
  <2>1. PICK c \in Conn :
          \/ \E news \in Nat : ReplyTo(c, news)
          \/ \E on \in BOOLEAN :
               SetAutomation(c, on) \/ SetRemote(c, on) \/ ReportRemoteViewers(c, on)
          \/ (\E role \in Roles : Subscribe(c, role)) \/ RegisterRemoteClient(c)
          \/ RegisterRemoteServer(c)
          \/ \E title, unmap, timed \in BOOLEAN : WaitWindow(c, title, unmap, timed)
          \/ \E timed \in BOOLEAN : WaitReady(c, timed)
          \/ Probe(c) \/ PickWindow(c)
          \/ \E target \in Window \cup {None} : StartDrag(c, target)
          \/ \E w \in Window : SetWindowName(c, w)
    BY <1>3 DEF Requests, Query, SessionRequest, WindowRequest, InputRequest, OneShot
  <2>2. QED
    BY <2>1, ReplyToUncut, GatesUncut, EnrolUncut, ServerUncut, WaitsUncut,
       StartDragUncut, SetNameUncut
<1>4. CASE Answers
  BY <1>4, WindowsUncut, StillUncut, AnswersUncut, DragsUncut, EventsUncut DEF Answers
<1>5. QED
  BY <1>1, <1>2, <1>3, <1>4, StillUncut DEF Next

\* A dropped connection that owes its peer bytes is only closed when the peer
\* has read them, or does not read (drop_ipc_client, flush_ipc_client,
\* check_ipc_linger).
THEOREM RepliesAreNotCut == Spec => ReplyNotCut
<1>1. IInv /\ ArmedInv /\ [Next]_vars
        => ArmedInv' /\ [\A c \in Conn :
             conn[c].sock = "linger" /\ conn'[c].sock = "closed" /\ conn[c].queue > 0
               => conn'[c].queue = 0 \/ conn[c].peer # "reading"]_vars
  BY ArmedStep DEF Uncut, NotCut
<1>2. QED
  BY <1>1, ArmedInit, ServerInvariant, PTL DEF Spec, ReplyNotCut
=============================================================================
