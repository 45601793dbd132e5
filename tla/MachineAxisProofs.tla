-------------------------- MODULE MachineAxisProofs --------------------------
(***************************************************************************)
(* The theorems of MachineAxis: its variables keep their types, a viewer   *)
(* that knows its place ends up on screen exactly if its machine is in     *)
(* view, and it throws no input away.                                      *)
(***************************************************************************)
EXTENDS MachineAxis, TLAPS

\* Whether a viewer at place x that is active as a says takes itself for the
\* one in view, once it has read n events of q.
Belief(a, q, n, x) ==
  \/ a /\ \A k \in 1..n : q[k].type # "view"
  \/ \E k \in 1..n :
       /\ q[k].type = "view" /\ q[k].index = x
       /\ \A j \in (k + 1)..n : q[j].type # "view"

InView(m) == view # 0 /\ machines[view] = m

\* Nobody's index is behind its place.
Placed == \A i \in DOMAIN machines : index[machines[i]] >= i

\* A viewer that is in view as v says will have been told so, and reads input
\* only while it thinks that it is.
Fits(a, q, x, v) ==
  /\ Belief(a, q, Len(q), x) <=> v
  /\ \A n \in 1..Len(q) : q[n].type # "view" => Belief(a, q, n - 1, x)

Informed(m) == KnowsPlace(m) => Fits(active[m], queue[m], index[m], InView(m))

IInv == TypeOK /\ Placed /\ \A m \in Machine : Informed(m)

-----------------------------------------------------------------------------
(* One viewer's connection.                                                *)

LEMMA AppendFacts ==
  ASSUME NEW q \in Seq(Event), NEW e \in Event
  PROVE  /\ Append(q, e) \in Seq(Event) /\ Len(q) \in Nat /\ Len(Append(q, e)) = Len(q) + 1
         /\ Append(q, e)[Len(q) + 1] = e
         /\ \A i \in 1..Len(q) : Append(q, e)[i] = q[i]
OBVIOUS

LEMMA TailFacts ==
  ASSUME NEW q \in Seq(Event), q # <<>>
  PROVE  /\ Tail(q) \in Seq(Event) /\ Len(q) \in Nat \ {0} /\ Len(Tail(q)) = Len(q) - 1
         /\ Head(q) = q[1] /\ Head(q) \in Event
         /\ \A i \in 1..(Len(q) - 1) : Tail(q)[i] = q[i + 1]
OBVIOUS

\* Nothing read, nothing changed.
LEMMA BeliefNone ==
  ASSUME NEW a \in BOOLEAN, NEW q, NEW x
  PROVE  Belief(a, q, 0, x) <=> a
BY DEF Belief

LEMMA BeliefAppend ==
  ASSUME NEW a \in BOOLEAN, NEW q \in Seq(Event), NEW e \in Event, NEW x \in Nat
  PROVE  /\ \A n \in 0..Len(q) : Belief(a, Append(q, e), n, x) <=> Belief(a, q, n, x)
         /\ Belief(a, Append(q, e), Len(q) + 1, x) <=>
              IF e.type = "view" THEN e.index = x ELSE Belief(a, q, Len(q), x)
<1> DEFINE p == Append(q, e)
<1>1. Len(q) \in Nat /\ p[Len(q) + 1] = e /\ \A i \in 1..Len(q) : p[i] = q[i]
  BY AppendFacts
<1> HIDE DEF p
<1>2. ASSUME NEW n \in 0..Len(q)
      PROVE  Belief(a, p, n, x) <=> Belief(a, q, n, x)
  BY <1>1 DEF Belief
<1>3. CASE e.type = "view"
  <2>1. ASSUME e.index = x
        PROVE  Belief(a, p, Len(q) + 1, x)
    BY <1>1, <1>3, <2>1 DEF Belief
  <2>2. ASSUME Belief(a, p, Len(q) + 1, x)
        PROVE  e.index = x
    BY <1>1, <1>3, <2>2 DEF Belief
  <2>3. QED
    BY <1>2, <1>3, <2>1, <2>2 DEF p
<1>4. CASE e.type # "view"
  <2>1. ASSUME Belief(a, q, Len(q), x)
        PROVE  Belief(a, p, Len(q) + 1, x)
    BY <1>1, <1>4, <2>1 DEF Belief
  <2>2. ASSUME Belief(a, p, Len(q) + 1, x)
        PROVE  Belief(a, q, Len(q), x)
    BY <1>1, <1>4, <2>2 DEF Belief
  <2>3. QED
    BY <1>2, <1>4, <2>1, <2>2 DEF p
<1>5. QED
  BY <1>3, <1>4

LEMMA BeliefTail ==
  ASSUME NEW a \in BOOLEAN, NEW q \in Seq(Event), q # <<>>, NEW x \in Nat,
         NEW n \in 0..(Len(q) - 1)
  PROVE  Belief(IF Head(q).type = "view" THEN Head(q).index = x ELSE a, Tail(q), n, x)
           <=> Belief(a, q, n + 1, x)
<1> DEFINE t == Tail(q)
           h == q[1]
           b == IF h.type = "view" THEN h.index = x ELSE a
<1>1. /\ Len(q) \in Nat \ {0} /\ Head(q) = h
      /\ \A i \in 1..(Len(q) - 1) : t[i] = q[i + 1]
  BY TailFacts
<1> HIDE DEF t
<1>2. \A k \in 1..n : t[k] = q[k + 1]
  BY <1>1
<1>3. ASSUME Belief(b, t, n, x)
      PROVE  Belief(a, q, n + 1, x)
  <2>1. CASE b /\ \A k \in 1..n : t[k].type # "view"
    <3>1. \A k \in 2..(n + 1) : q[k].type # "view"
      <4> SUFFICES ASSUME NEW k \in 2..(n + 1)
                   PROVE  q[k].type # "view"
        OBVIOUS
      <4>1. k - 1 \in 1..n /\ t[k - 1] = q[(k - 1) + 1]
        BY <1>2
      <4>2. QED
        BY <2>1, <4>1
    <3>2. CASE h.type = "view"
      BY <1>1, <2>1, <3>1, <3>2 DEF Belief
    <3>3. CASE h.type # "view"
      <4>1. \A k \in 1..(n + 1) : q[k].type # "view"
        BY <3>1, <3>3
      <4>2. QED
        BY <2>1, <3>3, <4>1 DEF Belief
    <3>4. QED
      BY <3>2, <3>3
  <2>2. CASE \E k \in 1..n :
               /\ t[k].type = "view" /\ t[k].index = x
               /\ \A j \in (k + 1)..n : t[j].type # "view"
    <3>1. PICK k \in 1..n :
               /\ t[k].type = "view" /\ t[k].index = x
               /\ \A j \in (k + 1)..n : t[j].type # "view"
      BY <2>2
    <3>2. \A j \in (k + 2)..(n + 1) : q[j].type # "view"
      <4> SUFFICES ASSUME NEW j \in (k + 2)..(n + 1)
                   PROVE  q[j].type # "view"
        OBVIOUS
      <4>1. j - 1 \in (k + 1)..n /\ j - 1 \in 1..n /\ t[j - 1] = q[(j - 1) + 1]
        BY <1>2
      <4>2. QED
        BY <3>1, <4>1
    <3>3. k + 1 \in 1..(n + 1) /\ q[k + 1].type = "view" /\ q[k + 1].index = x
      BY <1>2, <3>1
    <3>4. QED
      BY <3>2, <3>3 DEF Belief
  <2>3. QED
    BY <1>3, <2>1, <2>2 DEF Belief
<1>4. ASSUME Belief(a, q, n + 1, x)
      PROVE  Belief(b, t, n, x)
  <2>1. CASE a /\ \A k \in 1..(n + 1) : q[k].type # "view"
    BY <1>1, <1>2, <2>1 DEF Belief
  <2>2. CASE \E k \in 1..(n + 1) :
               /\ q[k].type = "view" /\ q[k].index = x
               /\ \A j \in (k + 1)..(n + 1) : q[j].type # "view"
    <3>1. PICK k \in 1..(n + 1) :
               /\ q[k].type = "view" /\ q[k].index = x
               /\ \A j \in (k + 1)..(n + 1) : q[j].type # "view"
      BY <2>2
    <3>2. CASE k = 1
      <4>1. b /\ \A j \in 1..n : t[j].type # "view"
        BY <1>2, <3>1, <3>2
      <4>2. QED
        BY <4>1 DEF Belief
    <3>3. CASE k # 1
      <4>1. /\ k - 1 \in 1..n /\ t[k - 1].type = "view" /\ t[k - 1].index = x
            /\ \A j \in k..n : t[j].type # "view"
        BY <1>2, <3>1, <3>3
      <4>2. QED
        BY <4>1 DEF Belief
    <3>4. QED
      BY <3>2, <3>3
  <2>3. QED
    BY <1>4, <2>1, <2>2 DEF Belief
<1>5. QED
  BY <1>1, <1>3, <1>4 DEF t

\* A broadcast tells it which machine is in view.
LEMMA FitsView ==
  ASSUME NEW a \in BOOLEAN, NEW q \in Seq(Event), NEW x \in Nat, NEW v \in BOOLEAN,
         Fits(a, q, x, v), NEW i \in Nat
  PROVE  Viewed(i) \in Event /\ Fits(a, Append(q, Viewed(i)), x, i = x)
<1> DEFINE e == Viewed(i)
           p == Append(q, e)
<1>1. e \in Event /\ e.type = "view" /\ e.index = i
  BY DEF Event, Viewed
<1>2. /\ Len(q) \in Nat /\ Len(p) = Len(q) + 1 /\ p[Len(q) + 1] = e
      /\ \A n \in 1..Len(q) : p[n] = q[n]
  BY <1>1, AppendFacts
<1>3. /\ \A n \in 0..Len(q) : Belief(a, p, n, x) <=> Belief(a, q, n, x)
      /\ Belief(a, p, Len(q) + 1, x) <=> i = x
  BY <1>1, BeliefAppend
<1> HIDE DEF e, p
<1>4. ASSUME NEW n \in 1..Len(p), p[n].type # "view"
      PROVE  Belief(a, p, n - 1, x)
  <2>1. n \in 1..Len(q)
    BY <1>1, <1>2, <1>4
  <2>2. n - 1 \in 0..Len(q) /\ q[n].type # "view"
    BY <1>2, <1>4, <2>1
  <2>3. QED
    BY <1>3, <2>1, <2>2 DEF Fits
<1>5. Fits(a, p, x, i = x)
  BY <1>2, <1>3, <1>4 DEF Fits
<1>6. QED
  BY <1>1, <1>5 DEF e, p

\* Input goes to the one that is in view.
LEMMA FitsInput ==
  ASSUME NEW a \in BOOLEAN, NEW q \in Seq(Event), NEW x \in Nat, Fits(a, q, x, TRUE),
         NEW e \in Event, e.type # "view"
  PROVE  Fits(a, Append(q, e), x, TRUE)
<1> DEFINE p == Append(q, e)
<1>1. /\ Len(q) \in Nat /\ Len(p) = Len(q) + 1 /\ p[Len(q) + 1] = e
      /\ \A n \in 1..Len(q) : p[n] = q[n]
  BY AppendFacts
<1>2. /\ \A n \in 0..Len(q) : Belief(a, p, n, x) <=> Belief(a, q, n, x)
      /\ Belief(a, p, Len(q) + 1, x) <=> Belief(a, q, Len(q), x)
  BY BeliefAppend
<1> HIDE DEF p
<1>3. Belief(a, q, Len(q), x)
  BY DEF Fits
<1>4. ASSUME NEW n \in 1..Len(p), p[n].type # "view"
      PROVE  Belief(a, p, n - 1, x)
  <2>1. CASE n \in 1..Len(q)
    <3>1. n - 1 \in 0..Len(q) /\ q[n].type # "view"
      BY <1>1, <1>4, <2>1
    <3>2. QED
      BY <1>2, <2>1, <3>1 DEF Fits
  <2>2. CASE n = Len(q) + 1
    <3>1. n - 1 = Len(q) /\ Len(q) \in 0..Len(q)
      BY <1>1, <2>2
    <3>2. QED
      BY <1>2, <1>3, <3>1
  <2>3. QED
    BY <1>1, <2>1, <2>2
<1>5. Fits(a, p, x, TRUE)
  BY <1>1, <1>2, <1>3, <1>4 DEF Fits
<1>6. QED
  BY <1>5 DEF p

\* It reads one event.
LEMMA FitsRead ==
  ASSUME NEW a \in BOOLEAN, NEW q \in Seq(Event), q # <<>>, NEW x \in Nat,
         NEW v \in BOOLEAN, Fits(a, q, x, v)
  PROVE  Fits(IF Head(q).type = "view" THEN Head(q).index = x ELSE a, Tail(q), x, v)
<1> DEFINE t == Tail(q)
           b == IF Head(q).type = "view" THEN Head(q).index = x ELSE a
<1>1. /\ Len(q) \in Nat \ {0} /\ Len(t) = Len(q) - 1
      /\ \A i \in 1..(Len(q) - 1) : t[i] = q[i + 1]
  BY TailFacts
<1>2. \A n \in 0..(Len(q) - 1) : Belief(b, t, n, x) <=> Belief(a, q, n + 1, x)
  BY BeliefTail
<1> HIDE DEF t, b
<1>3. Belief(b, t, Len(t), x) <=> v
  <2>1. Len(t) \in 0..(Len(q) - 1) /\ Len(t) + 1 = Len(q)
    BY <1>1
  <2>2. Belief(b, t, Len(t), x) <=> Belief(a, q, Len(q), x)
    BY <1>2, <2>1
  <2>3. QED
    BY <2>2 DEF Fits
<1>4. ASSUME NEW n \in 1..Len(t), t[n].type # "view"
      PROVE  Belief(b, t, n - 1, x)
  <2>1. n + 1 \in 1..Len(q) /\ n - 1 \in 0..(Len(q) - 1) /\ (n - 1) + 1 = n
    BY <1>1
  <2>2. q[n + 1].type # "view"
    BY <1>1, <1>4
  <2>3. Belief(a, q, (n + 1) - 1, x)
    BY <2>1, <2>2 DEF Fits
  <2>4. (n + 1) - 1 = (n - 1) + 1
    BY <2>1
  <2>5. QED
    BY <1>2, <2>1, <2>3, <2>4
<1>5. Fits(b, t, x, v)
  BY <1>3, <1>4 DEF Fits
<1>6. QED
  BY <1>5 DEF t, b

\* With nothing to read it is as it is.
LEMMA FitsNone ==
  ASSUME NEW a \in BOOLEAN, NEW x, NEW v \in BOOLEAN
  PROVE  Fits(a, <<>>, x, v) <=> (a <=> v)
<1>1. Len(<<>>) = 0 /\ 1..0 = {}
  OBVIOUS
<1>2. Belief(a, <<>>, 0, x) <=> a
  BY BeliefNone
<1>3. QED
  BY <1>1, <1>2 DEF Fits

-----------------------------------------------------------------------------
(* The view.                                                               *)

Axle(ms) ==
  /\ ms \in Seq(Machine)
  /\ \A i, j \in DOMAIN ms : ms[i] = ms[j] => i = j

\* SetViewMovesTo changes nothing, or tells every viewer on the axis.
LEMMA ViewMoves ==
  ASSUME NEW ms \in Seq(Machine), NEW v \in 0..Len(ms), NEW q \in [Machine -> Seq(Event)],
         NEW i \in Nat, SetViewMovesTo(ms, v, q, i), pointer \in Nat
  PROVE  /\ view' \in 0..Len(ms) /\ pointer' \in Nat
         /\ queue' \in [Machine -> Seq(Event)]
         /\ \/ view' = v /\ queue' = q
            \/ queue' = Broadcast(q, ms, view')
         /\ (i <= Len(ms) /\ i # v => view' = i /\ queue' = Broadcast(q, ms, view'))
<1> DEFINE target == IF i > Len(ms) THEN Len(ms) ELSE i
<1>1. target \in 0..Len(ms) /\ Len(ms) \in Nat
  OBVIOUS
<1>2. CASE target = v
  <2>1. view' = v /\ queue' = q /\ UNCHANGED pointer
    BY <1>2 DEF SetViewMovesTo
  <2>2. ~(i <= Len(ms) /\ i # v)
    BY <1>1, <1>2
  <2>3. QED
    BY <2>1, <2>2
<1>3. CASE target # v
  <2>1. /\ view' = target /\ queue' = Broadcast(q, ms, target)
        /\ pointer' = IF target = 0 THEN pointer ELSE Width[ms[target]] \div 2
    BY <1>3 DEF SetViewMovesTo
  <2>2. Viewed(target) \in Event
    BY <1>1 DEF Viewed, Event
  <2>3. ASSUME NEW m \in Machine
        PROVE  Append(q[m], Viewed(target)) \in Seq(Event)
    BY <2>2, AppendFacts
  <2>4. queue' \in [Machine -> Seq(Event)]
    BY <2>1, <2>3 DEF Broadcast
  <2>5. target # 0 => ms[target] \in Machine
    BY <1>1
  <2>6. pointer' \in Nat
    <3>1. \A w \in Nat : w \div 2 \in Nat
      OBVIOUS
    <3>2. target # 0 => Width[ms[target]] \in Nat
      BY <2>5, WidthAssumption
    <3>3. QED
      BY <2>1, <3>1, <3>2
  <2>7. QED
    BY <1>1, <2>1, <2>4, <2>6
<1>4. QED
  BY <1>2, <1>3

\* A broadcast informs whoever knows its place.
LEMMA BroadcastFits ==
  ASSUME NEW ms, Axle(ms), NEW k \in DOMAIN ms, NEW i \in 0..Len(ms), NEW m, ms[k] = m,
         NEW q \in [Machine -> Seq(Event)], NEW a \in BOOLEAN, NEW v \in BOOLEAN,
         Fits(a, q[m], k, v),
         NEW b \in BOOLEAN, b <=> i # 0 /\ ms[i] = m
  PROVE  Fits(a, Broadcast(q, ms, i)[m], k, b)
<1>1. m \in Machine /\ k \in Nat \ {0} /\ DOMAIN ms = 1..Len(ms) /\ q[m] \in Seq(Event)
  BY DEF Axle
<1>2. Broadcast(q, ms, i)[m] = Append(q[m], Viewed(i))
  BY <1>1 DEF Broadcast
<1>3. Fits(a, Append(q[m], Viewed(i)), k, i = k)
  BY <1>1, FitsView
<1>4. b = (i = k)
  BY <1>1 DEF Axle
<1>5. QED
  BY <1>2, <1>3, <1>4

\* What may happen to the connections while the axis stays as it is.
Written ==
  \/ view' = view /\ queue' = queue
  \/ queue' = Broadcast(queue, machines, view')
  \/ view' = view /\ \E m \in Captured, e \in Event : e.type # "view" /\ Push(m, e)

LEMMA CapturedInView ==
  ASSUME TypeOK, NEW m \in Captured
  PROVE  m \in OnAxis /\ m \in Machine /\ InView(m)
<1>1. view # 0 /\ m = machines[view]
  BY DEF Captured
<1>2. view \in DOMAIN machines /\ machines[view] \in Machine
  BY <1>1 DEF TypeOK
<1>3. QED
  BY <1>1, <1>2 DEF OnAxis, InView

LEMMA WrittenInforms ==
  ASSUME IInv, UNCHANGED <<machines, index, active>>, view' \in 0..Len(machines), Written
  PROVE  /\ Placed' /\ \A m \in Machine : Informed(m)'
         /\ \A m \in Machine : m \notin OnAxis => queue'[m] = <<>>
<1>0. /\ machines \in Seq(Machine) /\ Axle(machines) /\ queue \in [Machine -> Seq(Event)]
      /\ index \in [Machine -> Nat] /\ active \in [Machine -> BOOLEAN]
      /\ \A m \in Machine : m \notin OnAxis => queue[m] = <<>>
  BY DEF IInv, TypeOK, Axle
<1>1. Placed'
  BY DEF IInv, Placed
<1>2. ASSUME NEW m \in Machine, KnowsPlace(m)'
      PROVE  /\ KnowsPlace(m) /\ Fits(active[m], queue[m], index[m], InView(m))
             /\ index[m] \in DOMAIN machines /\ machines[index[m]] = m
  BY <1>2 DEF KnowsPlace, IInv, Informed
<1>3. CASE view' = view /\ queue' = queue
  BY <1>0, <1>1, <1>2, <1>3 DEF Informed, InView, OnAxis
<1>4. CASE queue' = Broadcast(queue, machines, view')
  <2>1. ASSUME NEW m \in Machine, KnowsPlace(m)'
        PROVE  Fits(active[m], queue'[m], index[m], InView(m)')
    <3>1. /\ Fits(active[m], queue[m], index[m], InView(m))
          /\ index[m] \in DOMAIN machines /\ machines[index[m]] = m
      BY <1>2, <2>1
    <3>2. InView(m) \in BOOLEAN /\ active[m] \in BOOLEAN
      BY <1>0 DEF InView
    <3>3. InView(m)' \in BOOLEAN /\ (InView(m)' <=> view' # 0 /\ machines[view'] = m)
      BY DEF InView
    <3>4. Fits(active[m], Broadcast(queue, machines, view')[m], index[m], InView(m)')
      <4> DEFINE b == InView(m)'
                 i == view'
                 ms == machines
                 q == queue
                 k == index[m]
                 a == active[m]
                 v == InView(m)
      <4>1. /\ Axle(ms) /\ k \in DOMAIN ms /\ i \in 0..Len(ms) /\ ms[k] = m
            /\ q \in [Machine -> Seq(Event)] /\ a \in BOOLEAN /\ v \in BOOLEAN
            /\ Fits(a, q[m], k, v) /\ b \in BOOLEAN
        BY <1>0, <3>1, <3>2, <3>3
      <4>2. b <=> i # 0 /\ ms[i] = m
        BY <3>3
      <4> HIDE DEF b, i, ms, q, k, a, v
      <4>3. Fits(a, Broadcast(q, ms, i)[m], k, b)
        BY <4>1, <4>2, BroadcastFits
      <4>4. QED
        BY <4>3 DEF b, i, ms, q, k, a, v
    <3>5. QED
      BY <1>4, <3>4
  <2>2. ASSUME NEW m \in Machine, m \notin OnAxis
        PROVE  queue'[m] = queue[m]
    BY <1>0, <1>4, <2>2 DEF Broadcast, OnAxis
  <2>3. QED
    BY <1>0, <1>1, <2>1, <2>2 DEF Informed
<1>5. CASE view' = view /\ \E m \in Captured, e \in Event : e.type # "view" /\ Push(m, e)
  <2>1. PICK c \in Captured, e \in Event : e.type # "view" /\ Push(c, e)
    BY <1>5
  <2>2. c \in OnAxis /\ c \in Machine /\ InView(c)
    BY CapturedInView DEF IInv
  <2>3. queue' = [queue EXCEPT ![c] = Append(queue[c], e)]
    BY <2>1 DEF Push
  <2>4. ASSUME NEW m \in Machine, KnowsPlace(m)'
        PROVE  Fits(active[m], queue'[m], index[m], InView(m)')
    <3>1. Fits(active[m], queue[m], index[m], InView(m)) /\ InView(m)' = InView(m)
      BY <1>2, <1>5, <2>4 DEF InView
    <3>2. CASE m = c
      <4>1. InView(m) = TRUE
        BY <2>2, <3>2 DEF InView
      <4>2. Fits(active[m], queue[m], index[m], TRUE)
        BY <3>1, <4>1
      <4>3. Fits(active[m], Append(queue[m], e), index[m], TRUE)
        BY <1>0, <2>1, <4>2, FitsInput
      <4>4. QED
        BY <1>0, <2>3, <3>1, <3>2, <4>1, <4>3
    <3>3. CASE m # c
      BY <1>0, <2>3, <3>1, <3>3
    <3>4. QED
      BY <3>2, <3>3
  <2>5. QED
    BY <1>0, <1>1, <2>2, <2>3, <2>4 DEF Informed
<1>6. QED
  BY <1>3, <1>4, <1>5 DEF Written

\* So the invariant is kept by a step that writes so and types well.
LEMMA WrittenKeeps ==
  ASSUME IInv, Written, Bounded, UNCHANGED <<machines, index, active, held, env>>,
         view' \in 0..Len(machines), pointer' \in Nat, queue' \in [Machine -> Seq(Event)],
         locked' \in BOOLEAN, picker' \in BOOLEAN, phys' \subseteq Code
  PROVE  IInv'
<1>1. /\ Placed' /\ \A m \in Machine : Informed(m)'
      /\ \A m \in Machine : m \notin OnAxis => queue'[m] = <<>>
  BY WrittenInforms
<1>2. TypeOK'
  BY <1>1 DEF IInv, TypeOK, Bounded, OnAxis
<1>3. QED
  BY <1>1, <1>2 DEF IInv

LEMMA PushType ==
  ASSUME TypeOK, NEW m \in Machine, NEW e \in Event, Push(m, e)
  PROVE  queue' \in [Machine -> Seq(Event)]
BY DEF TypeOK, Push

LEMMA SetViewKeeps ==
  ASSUME IInv, NEW i \in Nat, SetView(i), Bounded
  PROVE  IInv'
<1>1. /\ machines \in Seq(Machine) /\ view \in 0..Len(machines) /\ pointer \in Nat
      /\ queue \in [Machine -> Seq(Event)]
      /\ SetViewMovesTo(machines, view, queue, i)
  BY DEF IInv, TypeOK, SetView
<1>2. /\ view' \in 0..Len(machines) /\ pointer' \in Nat /\ queue' \in [Machine -> Seq(Event)]
      /\ \/ view' = view /\ queue' = queue
         \/ queue' = Broadcast(queue, machines, view')
  BY <1>1, ViewMoves
<1>3. UNCHANGED <<machines, locked, picker, phys, index, active, held, env>>
  BY DEF SetView, viewers
<1>4. QED
  BY <1>2, <1>3, WrittenKeeps DEF Written, IInv, TypeOK

LEMMA InputKeeps ==
  ASSUME IInv, NEW c \in Code, NEW down \in BOOLEAN, Input(c, down), Bounded
  PROVE  IInv'
<1>0. /\ machines \in Seq(Machine) /\ view \in 0..Len(machines) /\ pointer \in Nat
      /\ queue \in [Machine -> Seq(Event)] /\ TypeOK /\ view + 1 \in Nat
  BY DEF IInv, TypeOK
<1>1. /\ phys' \subseteq Code /\ UNCHANGED <<machines, locked, index, active, held, env>>
      /\ locked \in BOOLEAN
  BY DEF Input, viewers, IInv, TypeOK
<1>2. Pressed(c, down) \in Event /\ Pressed(c, down).type # "view"
  BY DEF Pressed, Event
<1>3. picker' \in BOOLEAN
  BY DEF Input, ProcessButton, IInv, TypeOK
<1>4. /\ view' \in 0..Len(machines) /\ pointer' \in Nat /\ queue' \in [Machine -> Seq(Event)]
      /\ Written
  <2>1. CASE SetViewMovesTo(machines, view, queue, view + 1)
    <3>1. /\ view' \in 0..Len(machines) /\ pointer' \in Nat
          /\ queue' \in [Machine -> Seq(Event)]
          /\ \/ view' = view /\ queue' = queue
             \/ queue' = Broadcast(queue, machines, view')
      BY <1>0, <2>1, ViewMoves
    <3>2. QED
      BY <3>1 DEF Written
  <2>2. CASE UNCHANGED <<view, pointer, queue>>
    BY <1>0, <2>2 DEF Written
  <2>3. CASE /\ Captured # {} /\ UNCHANGED <<view, pointer>>
             /\ \A m \in Captured : Push(m, Pressed(c, down))
    <3>1. PICK m \in Captured : Push(m, Pressed(c, down))
      BY <2>3
    <3>2. queue' \in [Machine -> Seq(Event)]
      BY <1>0, <1>2, <3>1, CapturedInView, PushType
    <3>3. QED
      BY <1>0, <1>2, <2>3, <3>1, <3>2 DEF Written
  <2>4. QED
    BY <2>1, <2>2, <2>3 DEF Input, ProcessButton, ProcessKey
<1>5. QED
  BY <1>1, <1>3, <1>4, WrittenKeeps

LEMMA MotionKeeps ==
  ASSUME IInv, NEW dx \in {-1, 1}, Motion(dx), Bounded
  PROVE  IInv'
<1>0. TypeOK /\ pointer \in Nat
  BY DEF IInv, TypeOK
<1>1. PICK m \in Captured :
        /\ pointer' = IF pointer + dx < 0 THEN 0
                      ELSE IF pointer + dx > Width[m] THEN Width[m] ELSE pointer + dx
        /\ Push(m, Moved(pointer'))
  BY DEF Motion
<1>2. m \in Machine /\ Width[m] \in Nat
  BY <1>0, CapturedInView, WidthAssumption
<1>3. pointer' \in Nat
  BY <1>0, <1>1, <1>2
<1>4. Moved(pointer') \in Event /\ Moved(pointer').type # "view"
  BY <1>3 DEF Moved, Event
<1>5. queue' \in [Machine -> Seq(Event)]
  BY <1>0, <1>1, <1>2, <1>4, PushType
<1>6. UNCHANGED <<machines, view, locked, picker, phys, index, active, held, env>>
  BY DEF Motion, viewers
<1>7. Written
  BY <1>1, <1>4, <1>6 DEF Written
<1>8. QED
  BY <1>3, <1>5, <1>6, <1>7, WrittenKeeps DEF IInv, TypeOK

\* Nothing is written.
LEMMA QuietKeeps ==
  ASSUME IInv, UNCHANGED <<machines, view, pointer, phys, queue, index, active, held, env>>,
         locked' \in BOOLEAN, picker' \in BOOLEAN
  PROVE  IInv'
<1>1. /\ Placed' /\ \A m \in Machine : Informed(m)'
  BY WrittenInforms DEF Written, IInv, TypeOK
<1>2. TypeOK'
  BY DEF IInv, TypeOK, OnAxis
<1>3. QED
  BY <1>1, <1>2 DEF IInv

LEMMA RegisterKeeps ==
  ASSUME IInv, NEW m \in Machine, Register(m)
  PROVE  IInv'
<1> DEFINE n == Len(machines) + 1
<1>0. /\ machines \in Seq(Machine) /\ Len(machines) \in Nat /\ view \in 0..Len(machines)
      /\ index \in [Machine -> Nat]
      /\ \A i, j \in DOMAIN machines : machines[i] = machines[j] => i = j
  BY DEF IInv, TypeOK
<1>1. /\ machines' \in Seq(Machine) /\ Len(machines') = n /\ machines'[n] = m
      /\ \A i \in 1..Len(machines) : machines'[i] = machines[i]
      /\ DOMAIN machines = 1..Len(machines) /\ DOMAIN machines' = 1..n
  BY <1>0 DEF Register
<1>2. /\ index' = [index EXCEPT ![m] = n] /\ m \notin OnAxis
      /\ UNCHANGED <<view, pointer, locked, picker, phys, queue, active, held, env>>
  BY <1>1 DEF Register
<1>3. \A i \in 1..Len(machines) : machines[i] # m
  BY <1>1, <1>2 DEF OnAxis
<1>4. \A i, j \in DOMAIN machines' : machines'[i] = machines'[j] => i = j
  BY <1>0, <1>1, <1>3
<1>5. \A o \in Machine : o \notin OnAxis' => o \notin OnAxis
  BY <1>0, <1>1 DEF OnAxis
<1>6. TypeOK'
  <2>1. index' \in [Machine -> Nat] /\ view' \in 0..Len(machines')
    BY <1>0, <1>1, <1>2
  <2>2. QED
    BY <1>1, <1>2, <1>4, <1>5, <2>1 DEF IInv, TypeOK
<1>7. Placed'
  BY <1>0, <1>1, <1>2, <1>3 DEF IInv, Placed
<1>8. ASSUME NEW o \in Machine, KnowsPlace(o)'
      PROVE  Fits(active'[o], queue'[o], index'[o], InView(o)')
  <2>1. CASE o = m
    <3>1. queue'[o] = <<>> /\ active'[o] = FALSE
      BY <1>2, <2>1 DEF IInv, TypeOK
    <3>2. InView(o)' = FALSE
      BY <1>0, <1>1, <1>2, <1>3, <2>1 DEF InView
    <3>3. QED
      BY <3>1, <3>2, FitsNone
  <2>2. CASE o # m
    <3>1. KnowsPlace(o) /\ index'[o] = index[o]
      BY <1>0, <1>1, <1>2, <1>8, <2>2 DEF KnowsPlace
    <3>2. InView(o)' = InView(o)
      BY <1>0, <1>1, <1>2 DEF InView
    <3>3. QED
      BY <1>2, <3>1, <3>2 DEF IInv, Informed
  <2>3. QED
    BY <2>1, <2>2
<1>9. QED
  BY <1>6, <1>7, <1>8 DEF IInv, Informed

LEMMA ReadKeeps ==
  ASSUME IInv, NEW m \in Machine, Read(m)
  PROVE  IInv'
<1> DEFINE q == queue[m]
           e == Head(q)
           b == IF e.type = "view" THEN e.index = index[m] ELSE active[m]
<1>0. /\ queue \in [Machine -> Seq(Event)] /\ active \in [Machine -> BOOLEAN]
      /\ held \in [Machine -> SUBSET Code] /\ index \in [Machine -> Nat]
      /\ q \in Seq(Event) /\ q # <<>>
  BY DEF IInv, TypeOK, Read
<1>1. /\ queue' = [queue EXCEPT ![m] = Tail(q)] /\ Tail(q) \in Seq(Event) /\ e \in Event
      /\ Len(Tail(q)) = Len(q) - 1 /\ Len(q) \in Nat
      /\ UNCHANGED <<machines, view, pointer, locked, picker, phys, index, env>>
  BY <1>0, TailFacts DEF Read
<1>2. active' = [active EXCEPT ![m] = b] /\ b \in BOOLEAN
  BY <1>0 DEF Read, ReadView, ReadInput
<1>3. held' \in [Machine -> SUBSET Code] /\ \A o \in Machine \ {m} : held'[o] = held[o]
  BY <1>0, <1>1 DEF Read, ReadView, ReadInput, Event
<1>4. m \in OnAxis
  BY <1>0 DEF IInv, TypeOK
<1>5. TypeOK'
  <2>1. \A o \in Machine : Len(queue'[o]) <= Cap
    BY <1>0, <1>1, CapAssumption DEF IInv, TypeOK
  <2>2. \A o \in Machine : o \notin OnAxis' => queue'[o] = <<>> /\ held'[o] = {} /\ ~active'[o]
    <3> SUFFICES ASSUME NEW o \in Machine, o \notin OnAxis'
                 PROVE  queue'[o] = <<>> /\ held'[o] = {} /\ ~active'[o]
      OBVIOUS
    <3>1. o \notin OnAxis /\ o # m
      BY <1>1, <1>4 DEF OnAxis
    <3>2. queue[o] = <<>> /\ held[o] = {} /\ ~active[o]
      BY <3>1 DEF IInv, TypeOK
    <3>3. QED
      BY <1>0, <1>1, <1>2, <1>3, <3>1, <3>2
  <2>3. queue' \in [Machine -> Seq(Event)] /\ active' \in [Machine -> BOOLEAN]
    BY <1>0, <1>1, <1>2
  <2>4. QED
    BY <1>1, <1>3, <2>1, <2>2, <2>3 DEF IInv, TypeOK
<1>6. Placed'
  BY <1>1 DEF IInv, Placed
<1>7. ASSUME NEW o \in Machine, KnowsPlace(o)'
      PROVE  Fits(active'[o], queue'[o], index'[o], InView(o)')
  <2>1. /\ Fits(active[o], queue[o], index[o], InView(o))
        /\ InView(o)' = InView(o) /\ index'[o] = index[o] /\ InView(o) \in BOOLEAN
    BY <1>1, <1>7 DEF IInv, Informed, KnowsPlace, InView
  <2>2. CASE o = m
    <3>1. Fits(b, Tail(q), index[m], InView(m))
      BY <1>0, <2>1, <2>2, FitsRead
    <3>2. QED
      BY <1>0, <1>1, <1>2, <2>1, <2>2, <3>1
  <2>3. CASE o # m
    BY <1>0, <1>1, <1>2, <2>1, <2>3
  <2>4. QED
    BY <2>2, <2>3
<1>8. QED
  BY <1>5, <1>6, <1>7 DEF IInv, Informed

LEMMA IsSequence ==
  ASSUME NEW n \in Nat, NEW f \in [1..n -> Machine]
  PROVE  f \in Seq(Machine) /\ Len(f) = n /\ DOMAIN f = 1..n
OBVIOUS

\* A machine leaves; who was after it no longer knows its place.
LEMMA WithoutFacts ==
  ASSUME NEW ms, Axle(ms), NEW r \in DOMAIN ms
  PROVE  /\ Axle(Without(ms, r)) /\ Len(Without(ms, r)) = Len(ms) - 1 /\ Len(ms) \in Nat \ {0}
         /\ \A i \in 1..(r - 1) : Without(ms, r)[i] = ms[i]
         /\ \A i \in r..(Len(ms) - 1) : Without(ms, r)[i] = ms[i + 1]
         /\ \A m : (\E i \in DOMAIN Without(ms, r) : Without(ms, r)[i] = m)
                     <=> m # ms[r] /\ \E i \in DOMAIN ms : ms[i] = m
<1> DEFINE w == Without(ms, r)
           n == Len(ms) - 1
<1>1. /\ Len(ms) \in Nat \ {0} /\ DOMAIN ms = 1..Len(ms) /\ r \in 1..Len(ms) /\ n \in Nat
      /\ \A i \in 1..Len(ms) : ms[i] \in Machine
  BY DEF Axle
<1>2. w = [k \in 1..n |-> IF k < r THEN ms[k] ELSE ms[k + 1]]
  BY DEF Without
<1>3. w \in [1..n -> Machine]
  <2>1. \A k \in 1..n : (IF k < r THEN ms[k] ELSE ms[k + 1]) \in Machine
    BY <1>1
  <2>2. QED
    BY <1>2, <2>1
<1>4. w \in Seq(Machine) /\ Len(w) = n /\ DOMAIN w = 1..n
  BY <1>1, <1>3, IsSequence
<1>5. /\ \A i \in 1..(r - 1) : w[i] = ms[i]
      /\ \A i \in r..n : w[i] = ms[i + 1]
  BY <1>1, <1>2
<1> HIDE DEF w
<1>6. ASSUME NEW i \in 1..n, NEW j \in 1..n, w[i] = w[j]
      PROVE  i = j
  <2> DEFINE up(k) == IF k < r THEN k ELSE k + 1
  <2>1. /\ up(i) \in DOMAIN ms /\ up(j) \in DOMAIN ms
        /\ w[i] = ms[up(i)] /\ w[j] = ms[up(j)]
    BY <1>1, <1>5
  <2>2. up(i) = up(j)
    <3> HIDE DEF up
    <3>1. \A a, b \in DOMAIN ms : ms[a] = ms[b] => a = b
      BY DEF Axle
    <3>2. QED
      BY <1>6, <2>1, <3>1
  <2>3. QED
    BY <1>1, <2>2
<1>7. Axle(w)
  BY <1>4, <1>6 DEF Axle
<1>8. ASSUME NEW m, NEW i \in 1..n, w[i] = m
      PROVE  m # ms[r] /\ \E k \in DOMAIN ms : ms[k] = m
  <2> DEFINE k == IF i < r THEN i ELSE i + 1
  <2>1. k \in DOMAIN ms /\ w[i] = ms[k] /\ k # r
    BY <1>1, <1>5
  <2>2. QED
    BY <1>8, <2>1 DEF Axle
<1>9. ASSUME NEW m, m # ms[r], NEW k \in DOMAIN ms, ms[k] = m
      PROVE  \E i \in 1..n : w[i] = m
  <2>1. CASE k < r
    BY <1>1, <1>5, <1>9, <2>1
  <2>2. CASE k > r
    <3>1. k - 1 \in r..n /\ k - 1 \in 1..n /\ (k - 1) + 1 = k
      BY <1>1, <2>2
    <3>2. QED
      BY <1>5, <1>9, <3>1
  <2>3. QED
    BY <1>1, <1>9, <2>1, <2>2
<1>10. QED
  BY <1>1, <1>4, <1>5, <1>7, <1>8, <1>9 DEF w

LEMMA LeaveKeeps ==
  ASSUME IInv, NEW m \in Machine, Leave(m), Bounded
  PROVE  IInv'
<1>1. PICK r \in DOMAIN machines :
        /\ machines[r] = m
        /\ machines' = Without(machines, r)
        /\ LET v == ViewAfterRemoval(view, r)
               q == [queue EXCEPT ![m] = <<>>]
           IN IF v = view
              THEN queue' = q /\ UNCHANGED <<view, pointer>>
              ELSE SetViewMovesTo(machines', view, q, v)
  BY DEF Leave
<1> DEFINE v == ViewAfterRemoval(view, r)
           q == [queue EXCEPT ![m] = <<>>]
<1>2. /\ index' = [index EXCEPT ![m] = 0] /\ active' = [active EXCEPT ![m] = FALSE]
      /\ held' = [held EXCEPT ![m] = {}] /\ UNCHANGED <<locked, picker, phys, env>>
  BY DEF Leave
<1>3. /\ Axle(machines) /\ view \in 0..Len(machines) /\ pointer \in Nat
      /\ queue \in [Machine -> Seq(Event)] /\ index \in [Machine -> Nat]
      /\ active \in [Machine -> BOOLEAN] /\ DOMAIN machines = 1..Len(machines)
      /\ held \in [Machine -> SUBSET Code]
  BY DEF IInv, TypeOK, Axle
<1>4. q \in [Machine -> Seq(Event)] /\ q[m] = <<>> /\ \A o \in Machine \ {m} : q[o] = queue[o]
  <2>1. <<>> \in Seq(Event)
    OBVIOUS
  <2>2. QED
    BY <1>3, <2>1
<1>5. /\ Axle(machines') /\ machines' \in Seq(Machine) /\ Len(machines') = Len(machines) - 1
      /\ Len(machines) \in Nat \ {0} /\ DOMAIN machines' = 1..Len(machines')
      /\ \A i \in 1..(r - 1) : machines'[i] = machines[i]
      /\ \A i \in r..(Len(machines) - 1) : machines'[i] = machines[i + 1]
  <2>1. /\ Axle(machines') /\ Len(machines') = Len(machines) - 1
        /\ Len(machines) \in Nat \ {0}
        /\ \A i \in 1..(r - 1) : machines'[i] = machines[i]
        /\ \A i \in r..(Len(machines) - 1) : machines'[i] = machines[i + 1]
    <3> DEFINE ms == machines
    <3>1. Axle(ms) /\ r \in DOMAIN ms
      BY <1>3
    <3> HIDE DEF ms
    <3>2. /\ Axle(Without(ms, r)) /\ Len(Without(ms, r)) = Len(ms) - 1
          /\ Len(ms) \in Nat \ {0}
          /\ \A i \in 1..(r - 1) : Without(ms, r)[i] = ms[i]
          /\ \A i \in r..(Len(ms) - 1) : Without(ms, r)[i] = ms[i + 1]
      BY <3>1, WithoutFacts
    <3>3. QED
      BY <1>1, <3>2 DEF ms
  <2>2. machines' \in Seq(Machine)
    BY <2>1 DEF Axle
  <2>3. QED
    BY <2>1, <2>2
<1>6. \A o : (\E i \in DOMAIN machines' : machines'[i] = o)
               <=> o # m /\ \E i \in DOMAIN machines : machines[i] = o
  <2>1. \A o : (\E i \in DOMAIN Without(machines, r) : Without(machines, r)[i] = o)
                 <=> o # machines[r] /\ \E i \in DOMAIN machines : machines[i] = o
    BY <1>1, <1>3, WithoutFacts
  <2>2. QED
    BY <1>1, <2>1, Zenon
<1>7. \A o \in Machine : o \in OnAxis' <=> o # m /\ o \in OnAxis
  BY <1>6 DEF OnAxis
<1>8. v \in 0..Len(machines') /\ (v = view => view < r)
  <2>1. /\ view \in 0..Len(machines) /\ r \in 1..Len(machines) /\ Len(machines) \in Nat
        /\ Len(machines') = Len(machines) - 1
    BY <1>1, <1>3, <1>5
  <2> HIDE DEF q
  <2>2. QED
    BY <2>1 DEF ViewAfterRemoval
<1>v. \/ v = view /\ queue' = q /\ UNCHANGED <<view, pointer>>
      \/ v # view /\ SetViewMovesTo(machines', view, q, v)
  BY <1>1
<1> HIDE DEF v, q
<1>9. /\ view' = v /\ pointer' \in Nat /\ queue' \in [Machine -> Seq(Event)]
      /\ \/ v = view /\ queue' = q
         \/ queue' = Broadcast(q, machines', v)
  <2>1. CASE v = view
    BY <1>3, <1>4, <1>v, <2>1
  <2>2. CASE v # view
    <3>1. SetViewMovesTo(machines', view, q, v)
      BY <1>v, <2>2
    <3>2. CASE view <= Len(machines')
      <4>1. view \in 0..Len(machines') /\ v \in Nat /\ v <= Len(machines')
        BY <1>3, <1>5, <1>8, <3>2
      <4>2. QED
        BY <1>3, <1>4, <1>5, <2>2, <3>1, <4>1, ViewMoves
    <3>3. CASE view > Len(machines')
      <4>1. /\ ~(v > Len(machines')) /\ v \in Nat
        BY <1>5, <1>8
      <4>2. /\ view' = v /\ queue' = Broadcast(q, machines', v)
            /\ pointer' = IF v = 0 THEN pointer ELSE Width[machines'[v]] \div 2
        BY <2>2, <3>1, <4>1 DEF SetViewMovesTo
      <4>3. v # 0 => Width[machines'[v]] \in Nat
        BY <1>5, <1>8, <4>1, WidthAssumption DEF Axle
      <4>4. \A w \in Nat : w \div 2 \in Nat
        OBVIOUS
      <4>5. pointer' \in Nat
        BY <1>3, <4>2, <4>3, <4>4
      <4>6. Viewed(v) \in Event
        BY <4>1 DEF Viewed, Event
      <4>7. \A o \in Machine : Append(q[o], Viewed(v)) \in Seq(Event)
        BY <1>4, <4>6, AppendFacts
      <4>8. queue' \in [Machine -> Seq(Event)]
        BY <1>4, <4>2, <4>7 DEF Broadcast
      <4>9. QED
        BY <4>2, <4>5, <4>8
    <3>4. QED
      BY <1>3, <1>5, <3>2, <3>3
  <2>3. QED
    BY <2>1, <2>2
<1>10. ASSUME NEW o \in Machine, o \notin OnAxis'
       PROVE  queue'[o] = <<>> /\ held'[o] = {} /\ ~active'[o]
  <2>1. q[o] = <<>> /\ held'[o] = {} /\ ~active'[o]
    BY <1>2, <1>3, <1>4, <1>7, <1>10 DEF IInv, TypeOK
  <2>2. queue'[o] = q[o]
    BY <1>4, <1>9, <1>10 DEF Broadcast, OnAxis
  <2>3. QED
    BY <2>1, <2>2
<1>11. TypeOK'
  <2>1. /\ index' \in [Machine -> Nat] /\ active' \in [Machine -> BOOLEAN]
        /\ held' \in [Machine -> SUBSET Code]
    BY <1>2, <1>3
  <2>2. view' \in 0..Len(machines')
    BY <1>8, <1>9
  <2>3. QED
    BY <1>2, <1>5, <1>9, <1>10, <2>1, <2>2 DEF IInv, TypeOK, Bounded, Axle
<1>12. ASSUME NEW i \in DOMAIN machines'
       PROVE  /\ machines'[i] # m /\ machines'[i] \in Machine
              /\ index'[machines'[i]] = index[machines'[i]]
              /\ i < r => index[machines'[i]] >= i /\ machines[i] = machines'[i]
              /\ i >= r => index[machines'[i]] > i
  <2>1. machines'[i] # m /\ machines'[i] \in Machine
    <3>1. machines'[i] # m
      BY <1>6
    <3>2. machines'[i] \in Machine
      BY <1>5
    <3>3. QED
      BY <3>1, <3>2
  <2>2. CASE i < r
    <3>1. i \in 1..(r - 1) /\ i \in DOMAIN machines
      BY <1>3, <1>5, <2>2
    <3>2. machines'[i] = machines[i] /\ index[machines[i]] >= i
      BY <1>5, <3>1 DEF IInv, Placed
    <3>3. QED
      BY <1>2, <1>3, <2>1, <2>2, <3>1, <3>2
  <2>3. CASE i >= r
    <3>1. i \in r..(Len(machines) - 1) /\ i + 1 \in DOMAIN machines /\ i \in Nat
      <4>1. /\ i \in 1..(Len(machines) - 1) /\ Len(machines) \in Nat /\ r \in Nat
            /\ DOMAIN machines = 1..Len(machines)
        BY <1>3, <1>5
      <4>2. QED
        BY <2>3, <4>1
    <3>2. machines'[i] = machines[i + 1] /\ index[machines[i + 1]] >= i + 1
      BY <1>5, <3>1 DEF IInv, Placed
    <3>3. QED
      BY <1>2, <1>3, <2>1, <2>3, <3>1, <3>2
  <2>4. QED
    BY <1>3, <1>5, <2>2, <2>3
<1>13. Placed'
  <2> SUFFICES ASSUME NEW i \in DOMAIN machines'
               PROVE  index'[machines'[i]] >= i
    BY DEF Placed
  <2>1. i \in Nat /\ r \in Nat /\ index[machines'[i]] \in Nat
    BY <1>3, <1>5, <1>12
  <2>2. CASE i < r
    BY <1>12, <2>2
  <2>3. CASE i >= r
    BY <1>12, <2>1, <2>3
  <2>4. QED
    BY <2>1, <2>2, <2>3
<1>14. ASSUME NEW o \in Machine, KnowsPlace(o)'
       PROVE  Fits(active'[o], queue'[o], index'[o], InView(o)')
  <2>1. PICK i \in DOMAIN machines' : machines'[i] = o /\ index'[o] = i
    BY <1>14 DEF KnowsPlace
  <2>2. o # m /\ index[o] = i /\ i < r /\ machines[i] = o
    <3>1. /\ o # m /\ index[o] = i
          /\ i < r => machines[i] = o
          /\ i >= r => index[o] > i
      BY <1>12, <2>1
    <3>2. i \in Nat /\ r \in Nat
      <4>1. i \in 1..(Len(machines) - 1) /\ Len(machines) \in Nat
        BY <1>5, <2>1
      <4>2. r \in 1..Len(machines)
        BY <1>3
      <4>3. QED
        BY <4>1, <4>2
    <3>3. ~(i > i)
      BY <3>2
    <3>4. i < r
      BY <3>1, <3>2, <3>3
    <3>5. QED
      BY <3>1, <3>4
  <2>3. KnowsPlace(o)
    BY <1>3, <1>5, <2>1, <2>2 DEF KnowsPlace
  <2>4. /\ Fits(active[o], q[o], i, InView(o)) /\ active'[o] = active[o]
        /\ active[o] \in BOOLEAN /\ InView(o) \in BOOLEAN
    BY <1>2, <1>3, <1>4, <2>2, <2>3 DEF IInv, Informed, InView
  <2>5. CASE v = view /\ queue' = q
    <3>1. view < r /\ (view # 0 => machines'[view] = machines[view])
      <4>1. view < r /\ (view # 0 => view \in 1..(r - 1))
        BY <1>3, <1>8, <2>5
      <4>2. QED
        BY <1>5, <4>1
    <3>2. InView(o)' = InView(o)
      <4>1. view' = view
        BY <1>9, <2>5
      <4>2. CASE view = 0
        BY <4>1, <4>2 DEF InView
      <4>3. CASE view # 0
        BY <3>1, <4>1, <4>3 DEF InView
      <4>4. QED
        BY <4>2, <4>3
    <3>3. QED
      BY <2>1, <2>4, <2>5, <3>2
  <2>6. CASE queue' = Broadcast(q, machines', v)
    <3>1. InView(o)' \in BOOLEAN /\ (InView(o)' <=> v # 0 /\ machines'[v] = o)
      BY <1>9 DEF InView
    <3>2. Fits(active[o], Broadcast(q, machines', v)[o], i, InView(o)')
      <4> DEFINE b == InView(o)'
                 ms == machines'
                 a == active[o]
                 was == InView(o)
      <4>1. /\ Axle(ms) /\ i \in DOMAIN ms /\ v \in 0..Len(ms) /\ ms[i] = o
            /\ a \in BOOLEAN /\ was \in BOOLEAN /\ Fits(a, q[o], i, was) /\ b \in BOOLEAN
            /\ b <=> v # 0 /\ ms[v] = o
            /\ q \in [Machine -> Seq(Event)]
        BY <1>4, <1>5, <1>8, <2>1, <2>4, <3>1
      <4> HIDE DEF b, ms, a, was
      <4>2. Fits(a, Broadcast(q, ms, v)[o], i, b)
        BY <4>1, BroadcastFits
      <4>3. QED
        BY <4>2 DEF b, ms, a
    <3>3. QED
      BY <2>1, <2>4, <2>6, <3>2
  <2>7. QED
    BY <1>9, <2>5, <2>6
<1>15. QED
  BY <1>11, <1>13, <1>14 DEF IInv, Informed

-----------------------------------------------------------------------------
(* The invariant.                                                          *)

LEMMA AxisInit == Init => IInv
<1> SUFFICES ASSUME Init
             PROVE  IInv
  OBVIOUS
<1>1. /\ machines = <<>> /\ DOMAIN machines = {} /\ machines \in Seq(Machine)
      /\ Len(machines) = 0 /\ <<>> \in Seq(Event) /\ Len(<<>>) = 0
  BY DEF Init
<1>2. TypeOK
  <2>1. /\ \A i, j \in DOMAIN machines : machines[i] = machines[j] => i = j
        /\ view \in 0..Len(machines) /\ pointer \in Nat /\ locked \in BOOLEAN
        /\ picker \in BOOLEAN /\ phys \subseteq Code /\ env \in Env
    <3>1. /\ machines = <<>> /\ view = 0 /\ pointer = 0 /\ locked = FALSE /\ picker = FALSE
          /\ phys = {} /\ env \in Env
      BY DEF Init
    <3>2. 0 \in 0..0 /\ 0 \in Nat
      OBVIOUS
    <3>3. QED
      BY <1>1, <3>1, <3>2
  <2>2. /\ queue = [m \in Machine |-> <<>>] /\ queue \in [Machine -> Seq(Event)]
        /\ index \in [Machine -> Nat] /\ active \in [Machine -> BOOLEAN]
        /\ held \in [Machine -> SUBSET Code]
    BY <1>1 DEF Init
  <2>3. \A m \in Machine : queue[m] = <<>> /\ held[m] = {} /\ ~active[m]
    BY DEF Init
  <2>4. \A m \in Machine : Len(queue[m]) <= Cap
    BY <1>1, <2>3, CapAssumption
  <2>5. QED
    BY <1>1, <2>1, <2>2, <2>3, <2>4 DEF TypeOK
<1>3. Placed /\ \A m \in Machine : ~KnowsPlace(m)
  BY <1>1 DEF Placed, KnowsPlace
<1>4. QED
  BY <1>2, <1>3 DEF IInv, Informed

LEMMA AxisStep == IInv /\ [Next]_vars => IInv'
<1> SUFFICES ASSUME IInv, [Next]_vars
             PROVE  IInv'
  OBVIOUS
<1>1. CASE \E m \in Machine : Register(m)
  BY <1>1, RegisterKeeps
<1>2. CASE \E m \in Machine : Leave(m) /\ Bounded
  BY <1>2, LeaveKeeps
<1>3. CASE \E i \in 0..Cardinality(Machine) : SetView(i) /\ Bounded
  BY <1>3, SetViewKeeps
<1>4. CASE \E c \in Code, down \in BOOLEAN : Input(c, down) /\ Bounded
  BY <1>4, InputKeeps
<1>5. CASE \E dx \in {-1, 1} : Motion(dx) /\ Bounded
  BY <1>5, MotionKeeps
<1>6. CASE Lock \/ Unlock \/ PickerToggles
  BY <1>6, QuietKeeps DEF Lock, Unlock, PickerToggles, viewers, IInv, TypeOK
<1>7. CASE \E m \in Machine : Read(m)
  BY <1>7, ReadKeeps
<1>8. CASE UNCHANGED vars
  BY <1>8, QuietKeeps DEF vars, IInv, TypeOK
<1>9. QED
  BY <1>1, <1>2, <1>3, <1>4, <1>5, <1>6, <1>7, <1>8 DEF Next

LEMMA Invariant == Spec => []IInv
BY AxisInit, AxisStep, PTL DEF Spec

-----------------------------------------------------------------------------
(* The theorems.                                                           *)

\* Every variable of MachineAxis keeps its type.
THEOREM AxisTypeCorrect == Spec => []TypeOK
<1>1. IInv => TypeOK
  BY DEF IInv
<1>2. QED
  BY <1>1, Invariant, PTL

\* A viewer that knows its place and has read everything is on screen exactly
\* if its machine is in view (set_view, drop_remote_client and the remote client's
\* handling of ViewChanged).
THEOREM ViewerIsShown == Spec => []ViewedMachineShown
<1>1. IInv => ViewedMachineShown
  <2> SUFFICES ASSUME IInv, NEW m \in Machine, KnowsPlace(m), queue[m] = <<>>
               PROVE  active[m] <=> view # 0 /\ machines[view] = m
    BY DEF ViewedMachineShown
  <2>1. active[m] \in BOOLEAN /\ InView(m) \in BOOLEAN
    BY DEF IInv, TypeOK, InView
  <2>2. Fits(active[m], <<>>, index[m], InView(m))
    BY DEF IInv, Informed
  <2>3. QED
    BY <2>1, <2>2, FitsNone DEF InView
<1>2. QED
  BY <1>1, Invariant, PTL

\* A viewer reads captured input only once it has read that its machine is in
\* view (forward_captured, the remote client's relay).
THEOREM InputIsRelayed == Spec => []NoInputDiscarded
<1>1. IInv => NoInputDiscarded
  <2> SUFFICES ASSUME IInv, NEW m \in Machine, KnowsPlace(m), queue[m] # <<>>,
                      Head(queue[m]).type # "view"
               PROVE  active[m]
    BY DEF NoInputDiscarded
  <2>1. queue[m] \in Seq(Event) /\ active[m] \in BOOLEAN
    BY DEF IInv, TypeOK
  <2>2. 1 \in 1..Len(queue[m]) /\ queue[m][1].type # "view"
    BY <2>1, TailFacts
  <2>3. Belief(active[m], queue[m], 1 - 1, index[m])
    BY <2>2 DEF IInv, Informed, Fits
  <2>4. Belief(active[m], queue[m], 0, index[m])
    BY <2>3
  <2>5. QED
    BY <2>1, <2>4, BeliefNone
<1>2. QED
  BY <1>1, Invariant, PTL
=============================================================================
