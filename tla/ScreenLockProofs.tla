--------------------------- MODULE ScreenLockProofs ---------------------------
(***************************************************************************)
(* The theorems of ScreenLock: its variables keep their types, what was    *)
(* typed goes with the prompt, an unlock is read only from the owner of a  *)
(* confirmed lock, and only a verified program ends the lock.              *)
(***************************************************************************)
EXTENDS ScreenLock, TLAPS

Key == Char \cup {"enter", "escape", "backspace"}
Has(q, x) == \E i \in 1..Len(q) : q[i] = x

\* The lock of l is confirmed, or will be once k's requests are read; unless k
\* cannot draw.
Confirming(l, k, s) ==
  s.owner = l /\ s.surface # None /\ (s.confirmed \/ ~k.draws \/ Has(k.out, "commit"))

\* Program l, in state k, unlocks last of all, verified and after a commit.
UnlocksLast(l, k, s) ==
  \A i \in 1..Len(k.out) : k.out[i] = "unlock" =>
    /\ i = Len(k.out) /\ k.verified /\ k.state \in {"done", "zombie", "gone"}
    /\ s.owner = l /\ s.surface # None
    /\ s.confirmed \/ ~k.draws \/ \E j \in 1..(i - 1) : k.out[j] = "commit"

\* It is prompting only if its lock is confirmed, or about to be; it has a key
\* to read only if that is so, if it is first to read what makes it commit, or
\* if it is first to read that it was refused. The owner whose surface was read
\* is confirmed, or about to be, or has yet to read what makes it commit.
PromptsHeld(l, k, s) ==
  k.state = "running" =>
    /\ k.prompt => Confirming(l, k, s)
    /\ \A i \in 1..Len(k.in) : k.in[i] \in Key =>
         \/ \E j \in 1..(i - 1) : k.in[j] = "finished"
         \/ /\ s.owner = l /\ s.surface # None
            /\ Confirming(l, k, s) \/ \E j \in 1..(i - 1) : k.in[j] = "configure"
    /\ s.owner = l =>
         \/ Has(k.out, "surface")
         \/ s.surface # None /\ (Confirming(l, k, s) \/ Has(k.in, "configure"))

\* It asks for the lock first, then for its one surface.
Opening(k) ==
  \A i \in 1..Len(k.out) :
    /\ k.out[i] = "lock" => i = 1 /\ Len(k.out) >= 2 /\ k.out[2] = "surface"
    /\ k.out[i] = "surface" => i = 1 \/ (i = 2 /\ k.out[1] = "lock")

\* Its surface is listed only once it was read, and by then it owns the lock or
\* has been refused.
Listed(l, k, s) ==
  /\ s.surface = l => ~Has(k.out, "surface")
  /\ k.state = "running" => Has(k.out, "lock") \/ s.owner = l \/ Has(k.in, "finished")

Forgets(k) == ~k.prompt => k.password = <<>>

\* One that has not asked for the lock has nothing to do with it.
Fresh(l, k, s) ==
  k.state \in {"none", "starting"} =>
    k.in = <<>> /\ k.out = <<>> /\ ~k.prompt /\ s.owner # l /\ s.surface # l

Good(l, k, s) ==
  /\ Forgets(k) /\ UnlocksLast(l, k, s) /\ PromptsHeld(l, k, s)
  /\ Opening(k) /\ Listed(l, k, s) /\ Fresh(l, k, s)

IInv == TypeOK /\ \A l \in Locker : Good(l, proc[l], session)

-----------------------------------------------------------------------------
(* Sequences.                                                              *)

LEMMA AppendFacts ==
  ASSUME NEW S, NEW q \in Seq(S), NEW x \in S
  PROVE  /\ Append(q, x) \in Seq(S) /\ Len(Append(q, x)) = Len(q) + 1
         /\ Append(q, x)[Len(q) + 1] = x
         /\ \A i \in 1..Len(q) : Append(q, x)[i] = q[i]
OBVIOUS

LEMMA TailFacts ==
  ASSUME NEW S, NEW q \in Seq(S), q # <<>>
  PROVE  /\ Tail(q) \in Seq(S) /\ Len(q) \in Nat \ {0} /\ Len(Tail(q)) = Len(q) - 1
         /\ Head(q) = q[1] /\ Head(q) \in S
         /\ \A i \in 1..(Len(q) - 1) : Tail(q)[i] = q[i + 1]
OBVIOUS

LEMMA EmptySeq == \A S : <<>> \in Seq(S)
OBVIOUS

LEMMA HasAppend ==
  ASSUME NEW S, NEW q \in Seq(S), NEW x \in S, NEW y
  PROVE  Has(Append(q, x), y) <=> Has(q, y) \/ x = y
<1>1. Len(q) \in Nat
  OBVIOUS
<1>2. QED
  BY <1>1, AppendFacts DEF Has

LEMMA HasTail ==
  ASSUME NEW S, NEW q \in Seq(S), q # <<>>, NEW y, Has(q, y), Head(q) # y
  PROVE  Has(Tail(q), y)
<1>1. PICK i \in 1..Len(q) : q[i] = y
  BY DEF Has
<1>2. i # 1 /\ i - 1 \in 1..Len(Tail(q)) /\ Tail(q)[i - 1] = y
  BY <1>1, TailFacts
<1>3. QED
  BY <1>2 DEF Has

LEMMA TailHas ==
  ASSUME NEW S, NEW q \in Seq(S), q # <<>>, NEW y, Has(Tail(q), y)
  PROVE  \E i \in 2..Len(q) : q[i] = y
<1>1. PICK i \in 1..Len(Tail(q)) : Tail(q)[i] = y
  BY DEF Has
<1>2. i + 1 \in 2..Len(q) /\ q[i + 1] = y
  BY <1>1, TailFacts
<1>3. QED
  BY <1>2

-----------------------------------------------------------------------------
(* One program, whatever it or the compositor does.                        *)

\* The shape of what it asks survives the reading of a request, and another
\* one after the first two.
LEMMA OpeningTail ==
  ASSUME NEW k \in Programs, Opening(k), k.out # <<>>, NEW t \in Programs,
         t.out = Tail(k.out)
  PROVE  Opening(t) /\ (Has(t.out, "surface") => Head(k.out) = "lock")
<1>1. k.out \in Seq(Request)
  BY DEF Programs
<1>2. /\ Len(t.out) = Len(k.out) - 1 /\ Len(k.out) \in Nat \ {0} /\ Head(k.out) = k.out[1]
      /\ \A i \in 1..Len(t.out) : i + 1 \in 1..Len(k.out) /\ t.out[i] = k.out[i + 1]
  <2>1. Len(Tail(k.out)) = Len(k.out) - 1 /\ Len(k.out) \in Nat \ {0}
    BY <1>1, TailFacts
  <2>2. QED
    BY <1>1, <2>1, TailFacts
<1>3. ASSUME NEW i \in 1..Len(t.out)
      PROVE  t.out[i] # "lock" /\ (t.out[i] = "surface" => i = 1 /\ k.out[1] = "lock")
  BY <1>2, <1>3 DEF Opening
<1>4. QED
  BY <1>2, <1>3 DEF Opening, Has

LEMMA OpeningAppend ==
  ASSUME NEW k \in Programs, Opening(k), NEW x \in {"commit", "unlock"},
         NEW t \in Programs, t.out = Append(k.out, x)
  PROVE  Opening(t)
<1>1. k.out \in Seq(Request) /\ x \in Request /\ Len(k.out) \in Nat
  BY DEF Programs, Request
<1>2. /\ Len(t.out) = Len(k.out) + 1 /\ t.out[Len(k.out) + 1] = x
      /\ \A i \in 1..Len(k.out) : t.out[i] = k.out[i]
  BY <1>1, AppendFacts
<1>3. ASSUME NEW i \in 1..Len(t.out)
      PROVE  /\ t.out[i] = "lock" => i = 1 /\ Len(t.out) >= 2 /\ t.out[2] = "surface"
             /\ t.out[i] = "surface" => i = 1 \/ (i = 2 /\ t.out[1] = "lock")
  <2>1. CASE i \in 1..Len(k.out)
    <3>1. /\ k.out[i] = "lock" => i = 1 /\ Len(k.out) >= 2 /\ k.out[2] = "surface"
          /\ k.out[i] = "surface" => i = 1 \/ (i = 2 /\ k.out[1] = "lock")
      BY <2>1 DEF Opening
    <3>2. t.out[i] = k.out[i]
      BY <1>2, <2>1
    <3>3. 1 \in 1..Len(k.out) /\ (Len(k.out) >= 2 => 2 \in 1..Len(k.out))
      BY <1>1, <2>1
    <3>4. QED
      BY <1>1, <1>2, <3>1, <3>2, <3>3
  <2>2. CASE i = Len(k.out) + 1
    BY <1>2, <2>2
  <2>3. QED
    BY <1>1, <1>2, <2>1, <2>2
<1>4. QED
  BY <1>3 DEF Opening

\* So do its unlocking last, and what makes it unlock.
LEMMA UnlocksTail ==
  ASSUME NEW l \in Locker, NEW k \in Programs, NEW s \in Sessions, UnlocksLast(l, k, s),
         k.out # <<>>, Head(k.out) # "commit"
  PROVE  UnlocksLast(l, [k EXCEPT !.out = Tail(k.out)], s)
<1> DEFINE t == [k EXCEPT !.out = Tail(k.out)]
<1>1. /\ k.out \in Seq(Request) /\ t.out = Tail(k.out) /\ t.draws = k.draws
      /\ t.state = k.state /\ t.verified = k.verified
  BY DEF Programs
<1>2. SUFFICES ASSUME NEW i \in 1..Len(t.out), t.out[i] = "unlock"
               PROVE  /\ i = Len(t.out) /\ t.verified /\ t.state \in {"done", "zombie", "gone"}
                      /\ s.owner = l /\ s.surface # None
                      /\ s.confirmed \/ ~t.draws \/ \E j \in 1..(i - 1) : t.out[j] = "commit"
  BY DEF UnlocksLast
<1>3. /\ i + 1 \in 1..Len(k.out) /\ k.out[i + 1] = "unlock" /\ Len(t.out) = Len(k.out) - 1
      /\ Len(k.out) \in Nat
  <2>1. Len(Tail(k.out)) = Len(k.out) - 1 /\ Len(k.out) \in Nat \ {0}
    BY <1>1, TailFacts
  <2>2. i \in 1..(Len(k.out) - 1)
    BY <1>1, <2>1
  <2>3. Tail(k.out)[i] = k.out[i + 1]
    BY <1>1, <2>2, TailFacts
  <2>4. QED
    BY <1>1, <1>2, <2>1, <2>2, <2>3
<1>4. /\ i + 1 = Len(k.out) /\ k.verified /\ k.state \in {"done", "zombie", "gone"}
      /\ s.owner = l /\ s.surface # None
      /\ s.confirmed \/ ~k.draws \/ \E j \in 1..i : k.out[j] = "commit"
  BY <1>3 DEF UnlocksLast
<1>5. ASSUME NEW j \in 1..i, k.out[j] = "commit"
      PROVE  j - 1 \in 1..(i - 1) /\ t.out[j - 1] = "commit"
  <2>1. j # 1
    BY <1>1, <1>5, TailFacts
  <2>2. j \in 1..i /\ i \in Nat /\ j - 1 \in 1..(Len(k.out) - 1)
    BY <1>3, <1>4, <2>1
  <2>3. t.out[j - 1] = k.out[(j - 1) + 1]
    BY <1>1, <2>2, TailFacts
  <2>4. (j - 1) + 1 = j /\ j - 1 \in 1..(i - 1)
    BY <2>1, <2>2
  <2>5. QED
    BY <1>5, <2>3, <2>4
<1>6. QED
  BY <1>1, <1>3, <1>4, <1>5

\* The compositor takes a request other than a commit off its connection: the
\* one for the lock if it was refused or is the owner, the one for a surface if
\* it is not.
LEMMA ReadsOn ==
  ASSUME NEW l \in Locker, NEW k \in Programs, NEW s \in Sessions, Good(l, k, s),
         k.out # <<>>, Head(k.out) # "commit",
         Head(k.out) = "lock" /\ k.state = "running" => s.owner = l \/ Has(k.in, "finished"),
         Head(k.out) = "surface" /\ k.state = "running" => s.owner # l
  PROVE  /\ [k EXCEPT !.out = Tail(k.out)] \in Programs
         /\ Good(l, [k EXCEPT !.out = Tail(k.out)], s)
<1> DEFINE t == [k EXCEPT !.out = Tail(k.out)]
<1>1. /\ k.out \in Seq(Request) /\ t.out = Tail(k.out) /\ t.in = k.in /\ t.prompt = k.prompt
      /\ t.password = k.password /\ t.state = k.state /\ t.verified = k.verified
      /\ t.draws = k.draws
  BY DEF Programs
<1>2. t \in Programs
  BY <1>1, TailFacts DEF Programs
<1>3. /\ Has(k.out, "commit") => Has(t.out, "commit")
      /\ Head(k.out) # "surface" /\ Has(k.out, "surface") => Has(t.out, "surface")
      /\ Head(k.out) # "lock" /\ Has(k.out, "lock") => Has(t.out, "lock")
  BY <1>1, HasTail
<1>4. Has(t.out, "surface") => Has(k.out, "surface")
  <2>1. ASSUME Has(t.out, "surface")
        PROVE  \E i \in 2..Len(k.out) : k.out[i] = "surface"
    BY <1>1, <2>1, TailHas
  <2>2. \A i \in 2..Len(k.out) : i \in 1..Len(k.out)
    BY <1>1
  <2>3. QED
    BY <2>1, <2>2 DEF Has
<1>5. UnlocksLast(l, t, s)
  BY UnlocksTail DEF Good
<1>6. PromptsHeld(l, t, s)
  BY <1>1, <1>3 DEF Good, PromptsHeld, Confirming
<1>7. Opening(t)
  BY <1>1, <1>2, OpeningTail DEF Good
<1>8. Listed(l, t, s)
  BY <1>1, <1>3, <1>4 DEF Good, Listed
<1>9. QED
  BY <1>1, <1>2, <1>5, <1>6, <1>7, <1>8 DEF Good, Forgets, Fresh

\* Its request for the lock is granted.
LEMMA Granted ==
  ASSUME NEW l \in Locker, NEW k \in Programs, NEW s \in Sessions, Good(l, k, s),
         s.owner # l, k.out # <<>>, Head(k.out) = "lock",
         NEW c \in Sessions, c.owner = l, c.surface = None
  PROVE  /\ [k EXCEPT !.out = Tail(k.out)] \in Programs
         /\ Good(l, [k EXCEPT !.out = Tail(k.out)], c)
<1> DEFINE t == [k EXCEPT !.out = Tail(k.out)]
<1>1. /\ k.out \in Seq(Request) /\ t.out = Tail(k.out) /\ t.in = k.in /\ t.prompt = k.prompt
      /\ t.password = k.password /\ t.state = k.state
  BY DEF Programs
<1>2. t \in Programs
  BY <1>1, TailFacts DEF Programs
<1>3. UnlocksLast(l, t, c)
  <2>1. UnlocksLast(l, t, s)
    BY UnlocksTail DEF Good
  <2>2. QED
    BY <2>1 DEF UnlocksLast
<1>4. Has(t.out, "surface")
  <2>1. 1 \in 1..Len(k.out) /\ k.out[1] = "lock"
    BY <1>1, TailFacts
  <2>2. Len(k.out) >= 2 /\ k.out[2] = "surface" /\ Len(k.out) \in Nat
    BY <1>1, <2>1 DEF Good, Opening
  <2>3. 2 \in 1..Len(k.out)
    BY <2>2
  <2>4. Has(k.out, "surface")
    BY <2>2, <2>3 DEF Has
  <2>5. QED
    BY <1>1, <2>4, HasTail
<1>5. PromptsHeld(l, t, c)
  BY <1>1, <1>4 DEF Good, PromptsHeld, Confirming
<1>6. Opening(t)
  BY <1>1, <1>2, OpeningTail DEF Good
<1>7. Listed(l, t, c)
  BY LockerAssumption DEF Listed
<1>8. QED
  BY <1>1, <1>2, <1>3, <1>5, <1>6, <1>7 DEF Good, Forgets, Fresh

\* Its surface is listed. If it is running it was told of it.
LEMMA ReadsSurface ==
  ASSUME NEW l \in Locker, NEW k \in Programs, NEW s \in Sessions, Good(l, k, s),
         k.out # <<>>, Head(k.out) = "surface",
         k.state = "running" => Has(k.in, "configure")
  PROVE  /\ [k EXCEPT !.out = Tail(k.out)] \in Programs
         /\ Good(l, [k EXCEPT !.out = Tail(k.out)], [s EXCEPT !.surface = l])
<1> DEFINE t == [k EXCEPT !.out = Tail(k.out)]
           c == [s EXCEPT !.surface = l]
<1>1. /\ k.out \in Seq(Request) /\ t.out = Tail(k.out) /\ t.in = k.in /\ t.prompt = k.prompt
      /\ t.password = k.password /\ t.state = k.state /\ t.draws = k.draws
  BY DEF Programs
<1>2. /\ c.owner = s.owner /\ c.surface = l /\ c.confirmed = s.confirmed
      /\ l # None /\ c.surface # None
  BY LockerAssumption DEF Sessions
<1>3. t \in Programs
  BY <1>1, TailFacts DEF Programs
<1>4. /\ Has(k.out, "commit") => Has(t.out, "commit")
      /\ Has(k.out, "lock") => Has(t.out, "lock")
  BY <1>1, HasTail
<1>5. UnlocksLast(l, t, c)
  <2>1. UnlocksLast(l, t, s)
    BY UnlocksTail DEF Good
  <2>2. QED
    BY <1>2, <2>1 DEF UnlocksLast
<1>6. Confirming(l, k, s) => Confirming(l, t, c)
  BY <1>1, <1>2, <1>4 DEF Confirming
<1>7. PromptsHeld(l, t, c)
  BY <1>1, <1>2, <1>6 DEF Good, PromptsHeld
<1>8. Opening(t) /\ ~Has(t.out, "surface")
  BY <1>1, <1>3, OpeningTail DEF Good
<1>9. Listed(l, t, c)
  BY <1>1, <1>2, <1>4, <1>8 DEF Good, Listed
<1>10. Fresh(l, t, c)
  BY <1>1 DEF Good, Fresh
<1>11. QED
  BY <1>1, <1>3, <1>5, <1>7, <1>8, <1>9, <1>10 DEF Good, Forgets

\* What confirms the lock leaves every program good.
LEMMA ConfirmGood ==
  ASSUME NEW l \in Locker, NEW k \in Programs, NEW s \in Sessions, Good(l, k, s)
  PROVE  Good(l, k, [s EXCEPT !.confirmed = TRUE])
<1> DEFINE c == [s EXCEPT !.confirmed = TRUE]
<1>1. c.owner = s.owner /\ c.surface = s.surface /\ c.confirmed
  BY DEF Sessions
<1>2. Confirming(l, k, s) => Confirming(l, k, c)
  BY <1>1 DEF Confirming
<1>3. PromptsHeld(l, k, c)
  BY <1>1, <1>2 DEF Good, PromptsHeld
<1>4. UnlocksLast(l, k, c)
  BY <1>1 DEF Good, UnlocksLast
<1>5. QED
  BY <1>1, <1>3, <1>4 DEF Good, Fresh, Listed

\* So does a commit of its own.
LEMMA ReadsCommit ==
  ASSUME NEW l \in Locker, NEW k \in Programs, NEW s \in Sessions, Good(l, k, s),
         k.out # <<>>, Head(k.out) = "commit"
  PROVE  /\ [k EXCEPT !.out = Tail(k.out)] \in Programs
         /\ Good(l, [k EXCEPT !.out = Tail(k.out)],
                 IF Confirmed(s) THEN [s EXCEPT !.confirmed = TRUE] ELSE s)
<1> DEFINE t == [k EXCEPT !.out = Tail(k.out)]
           c == IF Confirmed(s) THEN [s EXCEPT !.confirmed = TRUE] ELSE s
<1>1. /\ k.out \in Seq(Request) /\ t.out = Tail(k.out) /\ t.in = k.in /\ t.prompt = k.prompt
      /\ t.password = k.password /\ t.state = k.state /\ t.verified = k.verified
  BY DEF Programs
<1>2. /\ c.owner = s.owner /\ c.surface = s.surface
      /\ s.owner = l /\ s.surface # None => c.confirmed
  BY LockerAssumption DEF Confirmed, Sessions
<1>3. t \in Programs
  BY <1>1, TailFacts DEF Programs
<1>4. UnlocksLast(l, t, c)
  <2> SUFFICES ASSUME NEW i \in 1..Len(t.out), t.out[i] = "unlock"
               PROVE  /\ i = Len(t.out) /\ t.verified /\ t.state \in {"done", "zombie", "gone"}
                      /\ c.owner = l /\ c.surface # None /\ c.confirmed
    BY DEF UnlocksLast
  <2>1. /\ i + 1 \in 1..Len(k.out) /\ k.out[i + 1] = "unlock" /\ Len(t.out) = Len(k.out) - 1
        /\ Len(k.out) \in Nat
    BY <1>1, TailFacts
  <2>2. /\ i + 1 = Len(k.out) /\ k.verified /\ k.state \in {"done", "zombie", "gone"}
        /\ s.owner = l /\ s.surface # None
    BY <2>1 DEF Good, UnlocksLast
  <2> HIDE DEF t, c
  <2>3. QED
    BY <1>1, <1>2, <2>1, <2>2
<1>5. Confirming(l, k, s) => Confirming(l, t, c)
  BY <1>2 DEF Confirming
<1>6. /\ Has(k.out, "surface") => Has(t.out, "surface")
      /\ Has(k.out, "lock") => Has(t.out, "lock")
  BY <1>1, HasTail
<1>7. PromptsHeld(l, t, c)
  BY <1>1, <1>2, <1>5, <1>6 DEF Good, PromptsHeld
<1>8. Opening(t) /\ ~Has(t.out, "surface")
  BY <1>1, <1>3, OpeningTail DEF Good
<1>9. Listed(l, t, c)
  BY <1>1, <1>2, <1>6, <1>8 DEF Good, Listed
<1>10. QED
  BY <1>1, <1>2, <1>3, <1>4, <1>7, <1>8, <1>9 DEF Good, Forgets, Fresh

\* The compositor tells it something; a key only where its surface is listed.
LEMMA TellGood ==
  ASSUME NEW l \in Locker, NEW k \in Programs, NEW s \in Sessions, Good(l, k, s),
         NEW e \in Event, k.state = "running", e \in Key => s.surface = l
  PROVE  /\ [k EXCEPT !.in = Append(k.in, e)] \in Programs
         /\ Good(l, [k EXCEPT !.in = Append(k.in, e)], s)
<1> DEFINE t == [k EXCEPT !.in = Append(k.in, e)]
<1>1. /\ k.in \in Seq(Event) /\ Len(k.in) \in Nat
      /\ t.in = Append(k.in, e) /\ t.out = k.out /\ t.prompt = k.prompt
      /\ t.password = k.password /\ t.state = k.state /\ t.verified = k.verified
      /\ t.draws = k.draws
  BY DEF Programs
<1>2. t \in Programs
  BY AppendFacts DEF Programs
<1>3. Confirming(l, t, s) <=> Confirming(l, k, s)
  BY <1>1 DEF Confirming
<1>4. /\ Has(k.in, "configure") => Has(t.in, "configure")
      /\ Has(k.in, "finished") => Has(t.in, "finished")
  BY <1>1, HasAppend
<1>5. ASSUME s.surface = l
      PROVE  \/ Has(k.in, "finished")
             \/ s.owner = l /\ s.surface # None /\ (Confirming(l, k, s) \/ Has(k.in, "configure"))
  <2>1. ~Has(k.out, "surface") /\ (Has(k.out, "lock") \/ s.owner = l \/ Has(k.in, "finished"))
    BY <1>5 DEF Good, Listed
  <2>2. ~Has(k.out, "lock")
    <3> SUFFICES ASSUME NEW i \in 1..Len(k.out), k.out[i] = "lock"
                 PROVE  FALSE
      BY DEF Has
    <3>1. Len(k.out) >= 2 /\ k.out[2] = "surface" /\ k.out \in Seq(Request)
      BY DEF Good, Opening, Programs
    <3>2. 2 \in 1..Len(k.out)
      BY <3>1
    <3>3. QED
      BY <2>1, <3>1, <3>2 DEF Has
  <2>3. QED
    BY <2>1, <2>2 DEF Good, PromptsHeld
<1>6. ASSUME NEW i \in 1..Len(t.in), t.in[i] \in Key
      PROVE  \/ \E j \in 1..(i - 1) : t.in[j] = "finished"
             \/ /\ s.owner = l /\ s.surface # None
                /\ Confirming(l, t, s) \/ \E j \in 1..(i - 1) : t.in[j] = "configure"
  <2>1. CASE i \in 1..Len(k.in)
    <3>1. t.in[i] = k.in[i]
      BY <1>1, <2>1, AppendFacts
    <3>2. \/ \E j \in 1..(i - 1) : k.in[j] = "finished"
          \/ /\ s.owner = l /\ s.surface # None
             /\ Confirming(l, k, s) \/ \E j \in 1..(i - 1) : k.in[j] = "configure"
      BY <1>6, <2>1, <3>1 DEF Good, PromptsHeld
    <3>3. \A j \in 1..(i - 1) : t.in[j] = k.in[j]
      BY <1>1, <2>1, AppendFacts
    <3>4. QED
      BY <1>3, <3>2, <3>3
  <2>2. CASE i \notin 1..Len(k.in)
    <3>1. i = Len(k.in) + 1 /\ e \in Key
      BY <1>1, <1>6, <2>2, AppendFacts
    <3>2. \/ Has(k.in, "finished")
          \/ s.owner = l /\ s.surface # None /\ (Confirming(l, k, s) \/ Has(k.in, "configure"))
      BY <1>5, <3>1
    <3>3. \A j \in 1..(i - 1) : t.in[j] = k.in[j]
      BY <1>1, <3>1, AppendFacts
    <3>4. i - 1 = Len(k.in)
      BY <1>1, <3>1
    <3>5. QED
      BY <1>3, <3>2, <3>3, <3>4 DEF Has
  <2>3. QED
    BY <2>1, <2>2
<1>7. PromptsHeld(l, t, s)
  BY <1>1, <1>3, <1>4, <1>6 DEF Good, PromptsHeld
<1>8. UnlocksLast(l, t, s) /\ Opening(t) /\ Listed(l, t, s)
  BY <1>1, <1>4 DEF Good, UnlocksLast, Opening, Listed
<1>9. QED
  BY <1>1, <1>2, <1>7, <1>8 DEF Good, Forgets, Fresh

\* Running, it has not asked to unlock.
LEMMA NotUnlocking ==
  ASSUME NEW l, NEW k \in Programs, NEW s, Good(l, k, s),
         k.state = "running", NEW i \in 1..Len(k.out)
  PROVE  k.out[i] # "unlock"
BY DEF Good, UnlocksLast

\* A key that is still to be read finds what it did before the first event was.
LEMMA KeysLeft ==
  ASSUME NEW l \in Locker, NEW k \in Programs, NEW s \in Sessions, Good(l, k, s),
         k.state = "running", k.in # <<>>, Head(k.in) # "finished",
         NEW i \in 1..Len(Tail(k.in)), Tail(k.in)[i] \in Key
  PROVE  \/ \E j \in 1..(i - 1) : Tail(k.in)[j] = "finished"
         \/ /\ s.owner = l /\ s.surface # None
            /\ \/ Confirming(l, k, s) \/ Head(k.in) = "configure"
               \/ \E j \in 1..(i - 1) : Tail(k.in)[j] = "configure"
<1>1. k.in \in Seq(Event) /\ Len(k.in) \in Nat \ {0} /\ Head(k.in) = k.in[1]
  <2>1. k.in \in Seq(Event)
    BY DEF Programs
  <2>2. QED
    BY <2>1, TailFacts
<1>2. /\ i + 1 \in 1..Len(k.in) /\ k.in[i + 1] \in Key /\ Len(Tail(k.in)) = Len(k.in) - 1
      /\ (i + 1) - 1 = i
  BY <1>1, TailFacts
<1>3. \/ \E j \in 1..i : k.in[j] = "finished"
      \/ /\ s.owner = l /\ s.surface # None
         /\ Confirming(l, k, s) \/ \E j \in 1..i : k.in[j] = "configure"
  BY <1>2 DEF Good, PromptsHeld
<1>4. ASSUME NEW j \in 1..i, j # 1
      PROVE  j - 1 \in 1..(i - 1) /\ Tail(k.in)[j - 1] = k.in[j]
  <2>1. j - 1 \in 1..(i - 1) /\ j - 1 \in 1..(Len(k.in) - 1)
    BY <1>1, <1>2, <1>4
  <2>2. Tail(k.in)[j - 1] = k.in[(j - 1) + 1]
    BY <1>1, <2>1, TailFacts
  <2>3. (j - 1) + 1 = j
    BY <1>4
  <2>4. QED
    BY <2>1, <2>2, <2>3
<1>5. QED
  BY <1>1, <1>3, <1>4

\* It has read an event that is no key, and done nothing else.
LEMMA HeardGood ==
  ASSUME NEW l \in Locker, NEW k \in Programs, NEW s \in Sessions, Good(l, k, s),
         k.state = "running", k.in # <<>>, Head(k.in) \notin {"configure", "finished"}
  PROVE  /\ [k EXCEPT !.in = Tail(k.in)] \in Programs
         /\ Good(l, [k EXCEPT !.in = Tail(k.in)], s)
<1> DEFINE t == [k EXCEPT !.in = Tail(k.in)]
<1>1. /\ k.in \in Seq(Event) /\ t.in = Tail(k.in) /\ t.out = k.out /\ t.prompt = k.prompt
      /\ t.password = k.password /\ t.state = k.state /\ t.verified = k.verified
      /\ t.draws = k.draws
  BY DEF Programs
<1>2. t \in Programs
  BY TailFacts DEF Programs
<1>3. Confirming(l, t, s) <=> Confirming(l, k, s)
  BY <1>1 DEF Confirming
<1>4. ASSUME NEW i \in 1..Len(t.in), t.in[i] \in Key
      PROVE  \/ \E j \in 1..(i - 1) : t.in[j] = "finished"
             \/ /\ s.owner = l /\ s.surface # None
                /\ Confirming(l, t, s) \/ \E j \in 1..(i - 1) : t.in[j] = "configure"
  BY <1>1, <1>3, <1>4, KeysLeft
<1>5. /\ Has(k.in, "configure") => Has(t.in, "configure")
      /\ Has(k.in, "finished") => Has(t.in, "finished")
  BY <1>1, HasTail
<1>6. PromptsHeld(l, t, s)
  BY <1>1, <1>3, <1>4, <1>5 DEF Good, PromptsHeld
<1>7. UnlocksLast(l, t, s) /\ Opening(t) /\ Listed(l, t, s)
  BY <1>1, <1>5 DEF Good, UnlocksLast, Opening, Listed
<1>8. QED
  BY <1>1, <1>2, <1>6, <1>7 DEF Good, Forgets, Fresh

\* Configured, it commits, if it can draw.
LEMMA ConfiguredGood ==
  ASSUME NEW l \in Locker, NEW k \in Programs, NEW s \in Sessions, Good(l, k, s),
         k.state = "running", k.in # <<>>, Head(k.in) = "configure"
  PROVE  /\ Configured([k EXCEPT !.in = Tail(k.in)]) \in Programs
         /\ Good(l, Configured([k EXCEPT !.in = Tail(k.in)]), s)
<1> DEFINE t == Configured([k EXCEPT !.in = Tail(k.in)])
<1>1. /\ k.in \in Seq(Event) /\ k.out \in Seq(Request) /\ "commit" \in Request
      /\ t.in = Tail(k.in) /\ t.out = IF k.draws THEN Append(k.out, "commit") ELSE k.out
      /\ t.prompt = k.prompt /\ t.password = k.password /\ t.state = k.state
      /\ t.draws = k.draws
  BY DEF Programs, Configured, Request
<1>2. t \in Programs
  BY <1>1, TailFacts, AppendFacts DEF Programs, Configured
<1>3. ~k.draws \/ Has(t.out, "commit")
  <2>1. Has(Append(k.out, "commit"), "commit")
    BY <1>1, HasAppend
  <2>2. QED
    BY <1>1, <2>1
<1>4. s.owner = l /\ s.surface # None => Confirming(l, t, s)
  BY <1>1, <1>3 DEF Confirming
<1>5. /\ Has(t.out, "surface") <=> Has(k.out, "surface")
      /\ Has(t.out, "lock") <=> Has(k.out, "lock")
  <2>1. /\ Has(Append(k.out, "commit"), "surface") <=> Has(k.out, "surface")
        /\ Has(Append(k.out, "commit"), "lock") <=> Has(k.out, "lock")
    BY <1>1, HasAppend
  <2>2. QED
    BY <1>1, <2>1
<1>6. ASSUME NEW i \in 1..Len(t.in), t.in[i] \in Key
      PROVE  \/ \E j \in 1..(i - 1) : t.in[j] = "finished"
             \/ s.owner = l /\ s.surface # None
  <2>1. i \in 1..Len(Tail(k.in)) /\ Tail(k.in)[i] \in Key /\ Head(k.in) # "finished"
    BY <1>1, <1>6
  <2>2. \/ \E j \in 1..(i - 1) : Tail(k.in)[j] = "finished"
        \/ s.owner = l /\ s.surface # None
    BY <2>1, KeysLeft
  <2>3. QED
    BY <1>1, <2>2
<1>7. k.prompt => s.owner = l /\ s.surface # None
  BY DEF Good, PromptsHeld, Confirming
<1>8. s.owner = l => Has(t.out, "surface") \/ s.surface # None
  BY <1>5 DEF Good, PromptsHeld
<1>9. PromptsHeld(l, t, s)
  BY <1>1, <1>4, <1>6, <1>7, <1>8 DEF PromptsHeld
<1>10. Has(k.in, "finished") => Has(t.in, "finished")
  BY <1>1, HasTail
<1>11. Listed(l, t, s)
  BY <1>1, <1>5, <1>10 DEF Good, Listed
<1>12. Opening(t)
  <2>1. CASE k.draws
    BY <1>1, <1>2, <2>1, OpeningAppend DEF Good
  <2>2. CASE ~k.draws
    BY <1>1, <2>2 DEF Good, Opening
  <2>3. QED
    BY <2>1, <2>2
<1>13. UnlocksLast(l, t, s)
  <2>1. \A i \in 1..Len(t.out) : t.out[i] # "unlock"
    <3> SUFFICES ASSUME NEW i \in 1..Len(t.out)
                 PROVE  t.out[i] # "unlock"
      OBVIOUS
    <3>1. Len(k.out) \in Nat /\ (i \in 1..Len(k.out) \/ (k.draws /\ i = Len(k.out) + 1))
      <4>1. Len(Append(k.out, "commit")) = Len(k.out) + 1 /\ Len(k.out) \in Nat
        BY <1>1, AppendFacts
      <4> HIDE DEF t
      <4>2. QED
        BY <1>1, <4>1
    <3>2. CASE i \in 1..Len(k.out)
      <4>1. k.out[i] # "unlock"
        BY <3>2, NotUnlocking
      <4>2. Append(k.out, "commit")[i] = k.out[i]
        BY <1>1, <3>2, AppendFacts
      <4>3. QED
        BY <1>1, <4>1, <4>2
    <3>3. CASE k.draws /\ i = Len(k.out) + 1
      BY <1>1, <3>3, AppendFacts
    <3>4. QED
      BY <3>1, <3>2, <3>3
  <2>2. QED
    BY <2>1 DEF UnlocksLast
<1>14. QED
  BY <1>1, <1>2, <1>9, <1>11, <1>12, <1>13 DEF Good, Forgets, Fresh

\* A key it reads finds its lock confirmed, or about to be.
LEMMA KeyHeld ==
  ASSUME NEW l \in Locker, NEW k \in Programs, NEW s \in Sessions, Good(l, k, s),
         k.state = "running", k.in # <<>>, Head(k.in) \in Key
  PROVE  Confirming(l, k, s)
<1>1. k.in \in Seq(Event)
  BY DEF Programs
<1>2. 1 \in 1..Len(k.in) /\ k.in[1] \in Key /\ 1..(1 - 1) = {}
  BY <1>1, TailFacts
<1>3. QED
  BY <1>2 DEF Good, PromptsHeld

\* What a key does to the prompt keeps it good.
LEMMA PromptGood ==
  ASSUME NEW l \in Locker, NEW p \in Programs, NEW s \in Sessions, Good(l, p, s),
         p.state = "running", Confirming(l, p, s), NEW q \in Programs, Forgets(q),
         q.in = p.in, q.out = p.out, q.state = p.state, q.draws = p.draws
  PROVE  Good(l, q, s)
<1>1. Confirming(l, q, s)
  BY DEF Confirming
<1>2. PromptsHeld(l, q, s)
  BY <1>1 DEF Good, PromptsHeld, Confirming
<1>3. UnlocksLast(l, q, s)
  BY NotUnlocking DEF UnlocksLast
<1>4. Opening(q) /\ Listed(l, q, s)
  BY DEF Good, Opening, Listed
<1>5. QED
  BY <1>2, <1>3, <1>4 DEF Good, Fresh

\* So does the right password.
LEMMA SubmittedGood ==
  ASSUME NEW l \in Locker, NEW p \in Programs, NEW s \in Sessions, Good(l, p, s),
         p.state = "running", Confirming(l, p, s), NEW accepted \in BOOLEAN
  PROVE  Submitted(p, accepted) \in Programs /\ Good(l, Submitted(p, accepted), s)
<1> DEFINE q == Submitted(p, accepted)
<1>1. p.out \in Seq(Request) /\ Len(p.out) \in Nat /\ "unlock" \in Request
  BY DEF Programs, Request
<1>2. q \in Programs
  BY <1>1, AppendFacts, EmptySeq DEF Programs, Submitted
<1>3. CASE "no_user" \in env
  BY <1>2, <1>3 DEF Submitted
<1>4. CASE ~accepted /\ "no_user" \notin env
  <2>1. q.in = p.in /\ q.out = p.out /\ q.state = p.state /\ q.draws = p.draws /\ Forgets(q)
    BY <1>4 DEF Programs, Submitted, Forgets
  <2>2. QED
    BY <1>2, <2>1, PromptGood
<1>5. CASE accepted /\ "no_user" \notin env
  <2>1. /\ q.out = Append(p.out, "unlock") /\ q.state = "done" /\ q.verified
        /\ q.draws = p.draws /\ Forgets(q)
    BY <1>5 DEF Programs, Submitted, Forgets
  <2>2. UnlocksLast(l, q, s)
    <3> SUFFICES ASSUME NEW i \in 1..Len(q.out), q.out[i] = "unlock"
                 PROVE  /\ i = Len(q.out)
                        /\ s.confirmed \/ ~q.draws \/ \E j \in 1..(i - 1) : q.out[j] = "commit"
      BY <2>1 DEF UnlocksLast, Confirming
    <3>1. i = Len(p.out) + 1 /\ Len(q.out) = Len(p.out) + 1
      BY <1>1, <2>1, NotUnlocking, AppendFacts
    <3>2. \A j \in 1..Len(p.out) : q.out[j] = p.out[j]
      BY <1>1, <2>1, AppendFacts
    <3>3. QED
      BY <1>1, <2>1, <3>1, <3>2 DEF Confirming, Has
  <2>3. PromptsHeld(l, q, s) /\ Fresh(l, q, s)
    BY <2>1 DEF PromptsHeld, Fresh
  <2>4. Opening(q)
    BY <1>2, <2>1, OpeningAppend DEF Good
  <2>5. Listed(l, q, s)
    <3>1. Has(q.out, "surface") => Has(p.out, "surface")
      BY <1>1, <2>1, HasAppend
    <3>2. QED
      BY <2>1, <3>1 DEF Good, Listed
  <2>6. QED
    BY <1>2, <2>1, <2>2, <2>3, <2>4, <2>5 DEF Good
<1>6. QED
  BY <1>3, <1>4, <1>5

\* Whatever the key.
LEMMA KeyedGood ==
  ASSUME NEW l \in Locker, NEW p \in Programs, NEW s \in Sessions, Good(l, p, s),
         p.state = "running", Confirming(l, p, s), NEW key \in Key, NEW accepted \in BOOLEAN
  PROVE  Keyed(p, key, accepted) \in Programs /\ Good(l, Keyed(p, key, accepted), s)
<1> DEFINE q == Keyed(p, key, accepted)
<1>1. p.password \in Seq(Char) /\ (accepted /\ p.password = Password) \in BOOLEAN
  BY DEF Programs
<1>2. CASE ~p.prompt
  <2>1. q = [p EXCEPT !.prompt = TRUE]
    BY <1>2 DEF Keyed
  <2>2. q \in Programs /\ Forgets(q) /\ q.in = p.in /\ q.out = p.out
          /\ q.state = p.state /\ q.draws = p.draws
    BY <2>1 DEF Programs, Forgets
  <2>3. QED
    BY <2>2, PromptGood
<1>3. CASE p.prompt /\ key = "enter"
  <2>1. q = Submitted(p, accepted /\ p.password = Password)
    BY <1>3, CharAssumption DEF Keyed
  <2>2. QED
    BY <1>1, <2>1, SubmittedGood
<1>4. CASE p.prompt /\ key = "escape"
  <2>1. q = HidePrompt(p)
    BY <1>4, CharAssumption DEF Keyed
  <2>2. q \in Programs /\ Forgets(q) /\ q.in = p.in /\ q.out = p.out
          /\ q.state = p.state /\ q.draws = p.draws
    <3>1. \A w \in Seq(Char) : LET x == [p EXCEPT !.prompt = FALSE, !.password = w]
            IN /\ x \in Programs /\ x.password = w /\ x.in = p.in /\ x.out = p.out
               /\ x.state = p.state /\ x.draws = p.draws
      BY DEF Programs
    <3>2. <<>> \in Seq(Char) /\ q = [p EXCEPT !.prompt = FALSE, !.password = <<>>]
      BY <2>1, EmptySeq DEF HidePrompt
    <3> HIDE DEF q
    <3>3. /\ q \in Programs /\ q.password = <<>> /\ q.in = p.in /\ q.out = p.out
          /\ q.state = p.state /\ q.draws = p.draws
      BY <3>1, <3>2
    <3>4. QED
      BY <3>3 DEF Forgets
  <2>3. QED
    BY <2>2, PromptGood
<1>5. CASE p.prompt /\ key = "backspace"
  <2>1. q = IF p.password = <<>> THEN p
            ELSE [p EXCEPT !.password = SubSeq(p.password, 1, Len(p.password) - 1)]
    BY <1>5, CharAssumption DEF Keyed
  <2>2. SubSeq(p.password, 1, Len(p.password) - 1) \in Seq(Char)
    BY <1>1
  <2>3. q \in Programs /\ Forgets(q) /\ q.in = p.in /\ q.out = p.out
          /\ q.state = p.state /\ q.draws = p.draws
    BY <1>5, <2>1, <2>2 DEF Programs, Forgets
  <2>4. QED
    BY <2>3, PromptGood
<1>6. CASE p.prompt /\ key \in Char
  <2>1. q = [p EXCEPT !.password = Append(p.password, key)]
    BY <1>6, CharAssumption DEF Keyed
  <2>2. Append(p.password, key) \in Seq(Char)
    BY <1>1, <1>6
  <2>3. q \in Programs /\ Forgets(q) /\ q.in = p.in /\ q.out = p.out
          /\ q.state = p.state /\ q.draws = p.draws
    BY <1>6, <2>1, <2>2 DEF Programs, Forgets
  <2>4. QED
    BY <2>3, PromptGood
<1>7. QED
  BY <1>2, <1>3, <1>4, <1>5, <1>6 DEF Key

\* It ends: by itself, or by a crash.
LEMMA EndedGood ==
  ASSUME NEW l \in Locker, NEW k \in Programs, NEW s \in Sessions, Good(l, k, s)
  PROVE  Ended(k) \in Programs /\ Good(l, Ended(k), s)
<1>1. /\ Ended(k).out = k.out /\ Ended(k).password = <<>> /\ Ended(k).verified = k.verified
      /\ Ended(k).state \in {"zombie", "gone"} /\ Ended(k).draws = k.draws
  BY DEF Ended, Programs
<1>2. Ended(k) \in Programs
  BY EmptySeq DEF Ended, Programs
<1>3. QED
  BY <1>1, <1>2 DEF Good, Forgets, UnlocksLast, PromptsHeld, Opening, Listed, Fresh

-----------------------------------------------------------------------------
(* The invariant.                                                          *)

LEMMA LockInit == Init => IInv
<1> SUFFICES ASSUME Init
             PROVE  IInv
  OBVIOUS
<1>1. Program \in Programs
  BY EmptySeq DEF Program, Programs
<1>2. NoSession \in Sessions
  BY DEF NoSession, Sessions
<1>3. TypeOK
  BY <1>1, <1>2 DEF Init, TypeOK, NoChild
<1>4. ASSUME NEW l \in Locker
      PROVE  Good(l, Program, NoSession)
  <2>1. /\ Program.state = "none" /\ Program.in = <<>> /\ Program.out = <<>>
        /\ ~Program.prompt /\ Program.password = <<>> /\ NoSession.owner = None
        /\ NoSession.surface = None
    BY DEF Program, NoSession
  <2>2. (\A i \in 1..Len(Program.out) : FALSE) /\ ~Has(Program.out, "surface")
    BY <2>1 DEF Has
  <2>3. QED
    BY <2>1, <2>2, LockerAssumption DEF Good, Forgets, UnlocksLast, PromptsHeld, Opening, Listed, Fresh
<1>5. QED
  BY <1>3, <1>4 DEF Init, IInv

\* One program takes a step of its own.
LEMMA OneMoves ==
  ASSUME IInv, NEW l \in Locker, NEW k \in Programs, Good(l, k, session),
         proc' = [proc EXCEPT ![l] = k], UNCHANGED session
  PROVE  proc' \in [Locker -> Programs] /\ \A m \in Locker : Good(m, proc'[m], session')
BY DEF IInv, TypeOK

\* It starts, asks for the lock, or is reaped.
LEMMA StateMoves ==
  ASSUME NEW l \in Locker, NEW k \in Programs, NEW s \in Sessions, Good(l, k, s)
  PROVE  /\ k.state = "none" =>
              \A b \in BOOLEAN :
                LET q == [k EXCEPT !.state = "starting", !.spawned = b]
                IN q \in Programs /\ Good(l, q, s)
         /\ k.state = "starting" =>
              \A b \in BOOLEAN :
                LET q == [k EXCEPT !.state = "running", !.draws = b,
                                   !.out = <<"lock", "surface">>]
                IN q \in Programs /\ Good(l, q, s)
         /\ k.state = "zombie" =>
              LET q == [k EXCEPT !.state = "gone"]
              IN q \in Programs /\ Good(l, q, s)
<1>1. ASSUME k.state = "none", NEW b \in BOOLEAN
      PROVE  LET q == [k EXCEPT !.state = "starting", !.spawned = b]
             IN q \in Programs /\ Good(l, q, s)
  <2> DEFINE q == [k EXCEPT !.state = "starting", !.spawned = b]
  <2>1. /\ q \in Programs /\ q.state = "starting" /\ q.out = k.out /\ q.in = k.in
        /\ q.prompt = k.prompt /\ q.password = k.password
    BY DEF Programs
  <2>2. k.in = <<>> /\ k.out = <<>> /\ ~k.prompt /\ s.owner # l /\ s.surface # l
    BY <1>1 DEF Good, Fresh
  <2>3. \A i \in 1..Len(q.out) : FALSE
    BY <2>1, <2>2
  <2>4. QED
    BY <2>1, <2>2, <2>3 DEF Good, Forgets, UnlocksLast, PromptsHeld, Opening, Listed, Fresh
<1>2. ASSUME k.state = "starting", NEW b \in BOOLEAN
      PROVE  LET q == [k EXCEPT !.state = "running", !.draws = b, !.out = <<"lock", "surface">>]
             IN q \in Programs /\ Good(l, q, s)
  <2> DEFINE q == [k EXCEPT !.state = "running", !.draws = b, !.out = <<"lock", "surface">>]
  <2>1. <<"lock", "surface">> \in Seq(Request)
    BY DEF Request
  <2>2. /\ q \in Programs /\ q.state = "running" /\ q.out = <<"lock", "surface">>
        /\ q.in = k.in /\ q.prompt = k.prompt /\ q.password = k.password
    BY <2>1 DEF Programs
  <2>3. k.in = <<>> /\ ~k.prompt /\ s.owner # l /\ s.surface # l
    BY <1>2 DEF Good, Fresh
  <2>4. /\ Len(q.out) = 2 /\ q.out[1] = "lock" /\ q.out[2] = "surface"
        /\ \A i \in 1..2 : i = 1 \/ i = 2
    BY <2>2
  <2>5. \A i \in 1..Len(q.in) : FALSE
    BY <2>2, <2>3
  <2>6. PromptsHeld(l, q, s)
    BY <2>2, <2>3, <2>5 DEF PromptsHeld
  <2> HIDE DEF q
  <2>7. Opening(q)
    BY <2>4 DEF Opening
  <2>8. Has(q.out, "lock") /\ UnlocksLast(l, q, s)
    BY <2>4 DEF Has, UnlocksLast
  <2>9. Forgets(q)
    <3>1. k.password = <<>>
      BY <2>3 DEF Good, Forgets
    <3>2. QED
      BY <2>2, <3>1 DEF Forgets
  <2>10. Listed(l, q, s) /\ Fresh(l, q, s)
    BY <2>2, <2>3, <2>8 DEF Listed, Fresh
  <2>11. q \in Programs /\ Good(l, q, s)
    BY <2>2, <2>6, <2>7, <2>8, <2>9, <2>10 DEF Good
  <2>12. QED
    BY <2>11 DEF q
<1>3. ASSUME k.state = "zombie"
      PROVE  LET q == [k EXCEPT !.state = "gone"]
             IN q \in Programs /\ Good(l, q, s)
  <2> DEFINE q == [k EXCEPT !.state = "gone"]
  <2>1. /\ q \in Programs /\ q.state = "gone" /\ q.out = k.out /\ q.in = k.in
        /\ q.prompt = k.prompt /\ q.password = k.password /\ q.verified = k.verified
    BY DEF Programs
  <2>2. QED
    BY <2>1 DEF Good, Forgets, UnlocksLast, PromptsHeld, Opening, Listed, Fresh
<1>4. QED
  BY <1>1, <1>2, <1>3

\* SpawnLock starts a program, or none.
LEMMA SpawnGood ==
  ASSUME IInv, SpawnLock, UNCHANGED session
  PROVE  /\ child' \in [pid : Locker \cup {None}, locked : BOOLEAN]
         /\ waiting' \in BOOLEAN /\ told' \in BOOLEAN
         /\ proc' \in [Locker -> Programs] /\ \A m \in Locker : Good(m, proc'[m], session')
<1>0. child \in [pid : Locker \cup {None}, locked : BOOLEAN] /\ {waiting, told} \subseteq BOOLEAN
  BY DEF IInv, TypeOK
<1>1. CASE /\ UNCHANGED <<child, proc>>
           /\ UNCHANGED <<waiting, told>> \/ Told
  BY <1>0, <1>1 DEF IInv, TypeOK, Told
<1>2. CASE \E l \in Locker :
             /\ proc[l].state = "none"
             /\ proc' = [proc EXCEPT ![l].state = "starting", ![l].spawned = TRUE]
             /\ child' = [pid |-> l, locked |-> FALSE]
             /\ waiting' = TRUE
             /\ UNCHANGED told
  <2>1. PICK l \in Locker :
             /\ proc[l].state = "none"
             /\ proc' = [proc EXCEPT ![l].state = "starting", ![l].spawned = TRUE]
             /\ child' = [pid |-> l, locked |-> FALSE]
             /\ waiting' = TRUE
             /\ UNCHANGED told
    BY <1>2
  <2> DEFINE q == [proc[l] EXCEPT !.state = "starting", !.spawned = TRUE]
  <2>2. proc[l] \in Programs /\ session \in Sessions /\ Good(l, proc[l], session)
    BY DEF IInv, TypeOK
  <2>3. q \in Programs /\ Good(l, q, session)
    BY <2>1, <2>2, StateMoves
  <2>4. proc' = [proc EXCEPT ![l] = q]
    BY <2>1 DEF IInv, TypeOK
  <2>5. QED
    BY <1>0, <2>1, <2>3, <2>4, OneMoves
<1>3. QED
  BY <1>1, <1>2 DEF SpawnLock

\* A program that does not hold the lock does not care who does, nor whose
\* surface is listed if it is not its own.
LEMMA Stranger ==
  ASSUME NEW l \in Locker, NEW k \in Programs, NEW s \in Sessions, NEW c \in Sessions,
         Good(l, k, s), s.owner # l, c.owner # l, c.surface = l => s.surface = l
  PROVE  Good(l, k, c)
BY DEF Good, UnlocksLast, PromptsHeld, Confirming, Listed, Fresh

\* Nor does the owner care who takes the place of its surface.
LEMMA SurfaceGood ==
  ASSUME NEW l \in Locker, NEW k \in Programs, NEW s \in Sessions, Good(l, k, s),
         NEW m \in Locker, m # l
  PROVE  Good(l, k, [s EXCEPT !.surface = m])
<1> DEFINE c == [s EXCEPT !.surface = m]
<1>1. c.owner = s.owner /\ c.surface = m /\ m # None /\ c.confirmed = s.confirmed
  BY LockerAssumption DEF Sessions
<1>2. Confirming(l, k, s) => Confirming(l, k, c)
  BY <1>1 DEF Confirming
<1>3. PromptsHeld(l, k, c)
  BY <1>1, <1>2 DEF Good, PromptsHeld
<1>4. UnlocksLast(l, k, c)
  BY <1>1 DEF Good, UnlocksLast
<1>5. QED
  BY <1>1, <1>3, <1>4 DEF Good, Listed, Fresh

\* An event is sent to one program.
LEMMA TellAll ==
  ASSUME NEW p \in [Locker -> Programs], NEW s \in Sessions,
         \A m \in Locker : Good(m, p[m], s),
         NEW l \in Locker, NEW e \in Event, e \in Key => s.surface = l
  PROVE  /\ Tell(p, l, e) \in [Locker -> Programs]
         /\ \A m \in Locker : Good(m, Tell(p, l, e)[m], s)
<1> DEFINE q == [p[l] EXCEPT !.in = Append(p[l].in, e)]
<1>1. CASE p[l].state = "running"
  <2>1. Tell(p, l, e) = [p EXCEPT ![l] = q]
    BY <1>1 DEF Tell
  <2>2. q \in Programs /\ Good(l, q, s)
    BY <1>1, TellGood
  <2>3. QED
    BY <2>1, <2>2
<1>2. CASE p[l].state # "running"
  BY <1>2 DEF Tell
<1>3. QED
  BY <1>1, <1>2

\* It is sent to the program whose request was just read.
LEMMA TellRead ==
  ASSUME IInv, NEW l \in Locker, NEW e \in Event, e \notin Key
  PROVE  LET k == proc[l]
             u == IF k.state = "running" THEN [k EXCEPT !.in = Append(k.in, e)] ELSE k
             p == [proc EXCEPT ![l] = [k EXCEPT !.out = Tail(k.out)]]
         IN /\ u \in Programs /\ Good(l, u, session) /\ u.out = k.out /\ u.state = k.state
            /\ u.state = "running" => Has(u.in, e)
            /\ Tell(p, l, e) = [proc EXCEPT ![l] = [u EXCEPT !.out = Tail(u.out)]]
<1> DEFINE k == proc[l]
           u == IF k.state = "running" THEN [k EXCEPT !.in = Append(k.in, e)] ELSE k
           t == [k EXCEPT !.out = Tail(k.out)]
           p == [proc EXCEPT ![l] = t]
<1>1. /\ k \in Programs /\ session \in Sessions /\ Good(l, k, session)
      /\ proc \in [Locker -> Programs] /\ k.in \in Seq(Event)
  BY DEF IInv, TypeOK, Programs
<1>2. u \in Programs /\ Good(l, u, session)
  BY <1>1, TellGood
<1>3. u.out = k.out /\ u.state = k.state
  BY <1>1 DEF Programs
<1>4. u.state = "running" => Has(u.in, e)
  <2>1. Has(Append(k.in, e), e)
    BY <1>1, HasAppend
  <2>2. k.state = "running" => u.in = Append(k.in, e)
    BY <1>1 DEF Programs
  <2>3. QED
    BY <1>3, <2>1, <2>2
<1>5. Tell(p, l, e) = [proc EXCEPT ![l] = [u EXCEPT !.out = Tail(u.out)]]
  <2>1. p[l] = t /\ t.state = k.state /\ t.in = k.in
    BY <1>1 DEF Programs
  <2>2. CASE k.state = "running"
    <3>1. Tell(p, l, e) = [p EXCEPT ![l] = [t EXCEPT !.in = Append(k.in, e)]]
      BY <1>1, <2>1, <2>2 DEF Tell
    <3>2. [t EXCEPT !.in = Append(k.in, e)] = [u EXCEPT !.out = Tail(u.out)]
      BY <1>1, <1>3, <2>2 DEF Programs
    <3>3. QED
      BY <1>1, <3>1, <3>2
  <2>3. CASE k.state # "running"
    <3>1. Tell(p, l, e) = p
      BY <2>1, <2>3 DEF Tell
    <3>2. QED
      BY <2>3, <3>1
  <2>4. QED
    BY <2>2, <2>3
<1>6. QED
  BY <1>2, <1>3, <1>4, <1>5

LEMMA CommitsGood ==
  ASSUME NEW p \in [Locker -> Programs], session \in Sessions, Commits(p),
         \A m \in Locker :
           Good(m, p[m], IF Confirmed(session) THEN [session EXCEPT !.confirmed = TRUE]
                         ELSE session)
  PROVE  /\ session' \in Sessions /\ (session'.owner = None => session'.owner = session.owner)
         /\ proc' \in [Locker -> Programs] /\ \A m \in Locker : Good(m, proc'[m], session')
<1>1. CASE Confirmed(session)
  <2>1. /\ session' = [session EXCEPT !.confirmed = TRUE] /\ session' \in Sessions
        /\ session'.owner = session.owner
    BY <1>1 DEF Commits, Sessions
  <2>2. proc' = Tell(p, session.owner, "locked") /\ session.owner \in Locker
    BY <1>1 DEF Commits, Confirmed, Sessions
  <2>3. "locked" \in Event /\ "locked" \notin Key
    BY CharAssumption DEF Event, Key
  <2>4. QED
    BY <1>1, <2>1, <2>2, <2>3, TellAll
<1>2. CASE ~Confirmed(session)
  BY <1>2 DEF Commits
<1>3. QED
  BY <1>1, <1>2

\* The compositor reads a request.
LEMMA ReadsGood ==
  ASSUME IInv, NEW l \in Locker, Reads(l)
  PROVE  IInv'
<1> DEFINE k == proc[l]
           t == [k EXCEPT !.out = Tail(k.out)]
           p == [proc EXCEPT ![l] = t]
<1>1. /\ k \in Programs /\ session \in Sessions /\ k.out \in Seq(Request) /\ k.out # <<>>
      /\ \A m \in Locker : Good(m, proc[m], session)
      /\ proc \in [Locker -> Programs]
  BY DEF IInv, TypeOK, Reads, Programs
<1>2. t \in Programs /\ Head(k.out) \in Request
  BY <1>1, TailFacts DEF Programs
<1>3. p \in [Locker -> Programs] /\ p = [proc EXCEPT ![l].out = Tail(@)]
  BY <1>1, <1>2
<1>4. \A m \in Locker : m # l => Good(m, p[m], session) /\ p[m] \in Programs
  BY <1>1
<1>5. UNCHANGED <<told, idle, armed, inhibit, env>>
  BY DEF Reads, clock
<1>6. SUFFICES /\ session' \in Sessions /\ (session'.owner = None => session' = NoSession)
               /\ child' \in [pid : Locker \cup {None}, locked : BOOLEAN]
               /\ waiting' \in BOOLEAN
               /\ proc' \in [Locker -> Programs]
               /\ \A m \in Locker : Good(m, proc'[m], session')
  BY <1>5 DEF IInv, TypeOK
<1>c. child \in [pid : Locker \cup {None}, locked : BOOLEAN] /\ waiting \in BOOLEAN
      /\ (session.owner = None => session = NoSession)
  BY DEF IInv, TypeOK
<1>7. CASE Head(k.out) = "lock"
  <2>1. Locks(l, p)
    BY <1>3, <1>7 DEF Reads
  <2>2. CASE Locked
    <3>1. proc' = Tell(p, l, "finished") /\ UNCHANGED <<session, child, waiting>>
      BY <2>1, <2>2 DEF Locks
    <3>2. "finished" \in Event /\ "finished" \notin Key
      BY CharAssumption DEF Event, Key
    <3> DEFINE u == IF k.state = "running" THEN [k EXCEPT !.in = Append(k.in, "finished")]
                    ELSE k
               v == [u EXCEPT !.out = Tail(u.out)]
    <3>3. /\ u \in Programs /\ Good(l, u, session) /\ u.out = k.out /\ u.state = k.state
          /\ u.state = "running" => Has(u.in, "finished")
          /\ proc' = [proc EXCEPT ![l] = v]
      BY <3>1, <3>2, TellRead
    <3>4. v \in Programs /\ Good(l, v, session)
      BY <1>1, <1>7, <3>3, ReadsOn
    <3> HIDE DEF v
    <3>5. proc' \in [Locker -> Programs] /\ \A m \in Locker : Good(m, proc'[m], session')
      BY <3>1, <3>3, <3>4, OneMoves
    <3>6. QED
      BY <1>1, <1>c, <3>1, <3>5
  <2>3. CASE ~Locked
    <3> DEFINE c == [owner |-> l, confirmed |-> FALSE, surface |-> None]
    <3>1. /\ session' = c /\ proc' = p /\ waiting' = FALSE
          /\ child' = [child EXCEPT !.locked = child.pid # None]
      BY <2>1, <2>3 DEF Locks
    <3>2. c \in Sessions /\ c.owner = l /\ c.surface = None /\ session.owner = None /\ l # None
      BY <2>3, LockerAssumption DEF Sessions, Locked
    <3>3. ASSUME NEW m \in Locker, m # l
          PROVE  Good(m, p[m], c)
      <4>1. session.owner # m /\ c.owner # m /\ c.surface # m
        BY <3>2, <3>3, LockerAssumption
      <4>2. QED
        BY <1>1, <1>4, <3>2, <3>3, <4>1, Stranger
    <3>4. Good(l, t, c)
      BY <1>1, <1>7, <3>2, Granted
    <3>5. \A m \in Locker : Good(m, p[m], c)
      BY <1>1, <3>3, <3>4
    <3>6. QED
      BY <1>3, <1>c, <3>1, <3>2, <3>5
  <2>4. QED
    BY <2>2, <2>3
<1>8. CASE Head(k.out) = "surface"
  <2>1. /\ session' = IF Locked THEN [session EXCEPT !.surface = l] ELSE session
        /\ proc' = Tell(p, l, "configure") /\ UNCHANGED <<child, waiting>>
    BY <1>3, <1>8 DEF Reads, NewSurface
  <2>2. "configure" \in Event /\ "configure" \notin Key
    BY CharAssumption DEF Event, Key
  <2> DEFINE u == IF k.state = "running" THEN [k EXCEPT !.in = Append(k.in, "configure")]
                  ELSE k
             v == [u EXCEPT !.out = Tail(u.out)]
  <2>3. /\ u \in Programs /\ Good(l, u, session) /\ u.out = k.out /\ u.state = k.state
        /\ u.state = "running" => Has(u.in, "configure")
        /\ proc' = [proc EXCEPT ![l] = v]
    BY <2>1, <2>2, TellRead
  <2> HIDE DEF u
  <2>4. CASE ~Locked
    <3>1. session.owner = None /\ session' = session /\ l # None
      BY <2>1, <2>4, LockerAssumption DEF Locked
    <3>2. v \in Programs /\ Good(l, v, session)
      BY <1>1, <1>8, <2>3, <3>1, ReadsOn
    <3>3. QED
      BY <1>1, <1>c, <2>1, <2>3, <3>1, <3>2, OneMoves
  <2>5. CASE Locked
    <3> DEFINE c == [session EXCEPT !.surface = l]
    <3>1. session' = c /\ c \in Sessions /\ c.owner = session.owner /\ c.owner # None
      BY <1>1, <2>1, <2>5 DEF Sessions, Locked
    <3>2. v \in Programs /\ Good(l, v, c)
      BY <1>1, <1>8, <2>3, ReadsSurface
    <3>3. ASSUME NEW m \in Locker, m # l
          PROVE  Good(m, proc[m], c)
      BY <1>1, <3>3, SurfaceGood
    <3>4. proc' \in [Locker -> Programs] /\ proc'[l] = v
          /\ \A m \in Locker : m # l => proc'[m] = proc[m]
      BY <1>1, <2>3, <3>2
    <3>5. \A m \in Locker : Good(m, proc'[m], c)
      BY <3>2, <3>3, <3>4
    <3>6. QED
      BY <1>c, <2>1, <3>1, <3>4, <3>5
  <2>6. QED
    BY <2>4, <2>5
<1>9. CASE Head(k.out) = "commit"
  <2>1. Commits(p) /\ UNCHANGED <<child, waiting>>
    BY <1>3, <1>9 DEF Reads, Commits
  <2>2. ASSUME NEW m \in Locker
        PROVE  Good(m, p[m], IF Confirmed(session) THEN [session EXCEPT !.confirmed = TRUE]
                             ELSE session)
    <3>1. CASE m = l
      BY <1>1, <1>9, <3>1, ReadsCommit
    <3>2. CASE m # l
      BY <1>1, <3>2, ConfirmGood
    <3>3. QED
      BY <3>1, <3>2
  <2>3. /\ session' \in Sessions /\ (session'.owner = None => session'.owner = session.owner)
        /\ proc' \in [Locker -> Programs] /\ \A m \in Locker : Good(m, proc'[m], session')
    BY <1>1, <1>3, <2>1, <2>2, CommitsGood
  <2>4. session'.owner = None => session' = session
    BY <2>1, <2>3 DEF Commits, Confirmed
  <2>5. QED
    BY <1>c, <2>1, <2>3, <2>4
<1>10. CASE Head(k.out) = "unlock"
  <2>1. Unlocks(l, p)
    BY <1>3, <1>10 DEF Reads
  <2>2. proc' = p /\ UNCHANGED <<child, waiting>>
    BY <2>1 DEF Unlocks
  <2>3. CASE UNCHANGED session
    <3>1. Good(l, t, session)
      BY <1>1, <1>10, ReadsOn
    <3>2. QED
      BY <1>1, <1>c, <1>3, <1>4, <2>2, <2>3, <3>1
  <2>4. CASE session.owner = l /\ session' = NoSession
    <3>1. /\ NoSession \in Sessions /\ NoSession.owner = None /\ NoSession.surface = None
          /\ l # None
      BY LockerAssumption DEF NoSession, Sessions
    <3>2. ASSUME NEW m \in Locker, m # l
          PROVE  Good(m, p[m], NoSession)
      <4>1. session.owner # m /\ NoSession.owner # m /\ NoSession.surface # m
        BY <2>4, <3>1, <3>2, LockerAssumption
      <4>2. Good(m, p[m], session) /\ p[m] \in Programs
        BY <1>4, <3>2
      <4>3. QED
        BY <1>1, <3>1, <4>1, <4>2, Stranger
    <3>3. Good(l, t, NoSession)
      <4>1. 1 \in 1..Len(k.out) /\ k.out[1] = "unlock"
        BY <1>1, <1>10, TailFacts
      <4>2. Len(k.out) = 1 /\ k.state \in {"done", "zombie", "gone"} /\ Forgets(k)
        BY <1>1, <4>1 DEF Good, UnlocksLast
      <4>3. Len(t.out) = 0 /\ t.state = k.state /\ t.prompt = k.prompt /\ t.password = k.password
        BY <1>1, <4>2, TailFacts DEF Programs
      <4>4. 1..0 = {}
        OBVIOUS
      <4>5. UnlocksLast(l, t, NoSession)
        BY <4>3, <4>4 DEF UnlocksLast
      <4>6. Opening(t) /\ Listed(l, t, NoSession)
        BY <3>1, <4>2, <4>3, <4>4 DEF Opening, Listed
      <4>7. QED
        BY <4>2, <4>3, <4>5, <4>6 DEF Good, Forgets, PromptsHeld, Fresh
    <3>4. \A m \in Locker : Good(m, p[m], NoSession)
      BY <1>1, <3>2, <3>3
    <3>5. QED
      BY <1>c, <1>3, <2>2, <2>4, <3>1, <3>4
  <2>5. QED
    BY <2>1, <2>3, <2>4 DEF Unlocks
<1>11. QED
  BY <1>2, <1>7, <1>8, <1>9, <1>10 DEF Request

\* A lock program hears an event.
LEMMA HearsGood ==
  ASSUME IInv, NEW l \in Locker, Hears(l)
  PROVE  /\ proc' \in [Locker -> Programs] /\ \A m \in Locker : Good(m, proc'[m], session')
<1> DEFINE k == proc[l]
           t == [k EXCEPT !.in = Tail(k.in)]
           e == Head(k.in)
<1>1. /\ k \in Programs /\ session \in Sessions /\ Good(l, k, session)
      /\ k.state = "running" /\ k.in # <<>> /\ k.in \in Seq(Event) /\ UNCHANGED session
  BY DEF IInv, TypeOK, Hears, Programs
<1>2. PICK accepted \in BOOLEAN :
        proc' = [proc EXCEPT ![l] =
          CASE e = "configure" -> Configured(t)
            [] e = "locked" -> t
            [] e = "finished" -> [t EXCEPT !.state = "done"]
            [] OTHER -> Keyed(t, e, accepted)]
  BY DEF Hears
<1>3. e \in Event
  BY <1>1, TailFacts
<1>4. e \notin {"configure", "finished"} => t \in Programs /\ Good(l, t, session)
  BY <1>1, HeardGood
<1>5. CASE e = "configure"
  <2>1. Configured(t) \in Programs /\ Good(l, Configured(t), session)
    BY <1>1, <1>5, ConfiguredGood
  <2>2. proc' = [proc EXCEPT ![l] = Configured(t)]
    BY <1>2, <1>5
  <2>3. QED
    BY <1>1, <2>1, <2>2, OneMoves
<1>6. CASE e = "locked"
  <2>1. proc' = [proc EXCEPT ![l] = t]
    BY <1>2, <1>6
  <2>2. QED
    BY <1>1, <1>4, <1>6, <2>1, OneMoves
<1>7. CASE e = "finished"
  <2> DEFINE q == [t EXCEPT !.state = "done"]
  <2>1. proc' = [proc EXCEPT ![l] = q]
    BY <1>2, <1>7
  <2>2. /\ q \in Programs /\ q.state = "done" /\ q.out = k.out /\ q.prompt = k.prompt
        /\ q.password = k.password
    BY <1>1, TailFacts DEF Programs
  <2>3. \A i \in 1..Len(q.out) : q.out[i] # "unlock"
    BY <1>1, <2>2, NotUnlocking
  <2>4. Good(l, q, session)
    BY <1>1, <2>2, <2>3 DEF Good, Forgets, UnlocksLast, PromptsHeld, Opening, Listed, Fresh
  <2>5. QED
    BY <1>1, <2>1, <2>2, <2>4, OneMoves
<1>8. CASE e \notin {"configure", "locked", "finished"}
  <2>1. e \in Key
    BY <1>3, <1>8 DEF Event, Key
  <2>2. proc' = [proc EXCEPT ![l] = Keyed(t, e, accepted)]
    BY <1>2, <1>8
  <2>3. t \in Programs /\ Good(l, t, session) /\ t.state = "running" /\ t.out = k.out
    BY <1>1, <1>4, <1>8 DEF Programs
  <2>4. Confirming(l, t, session)
    BY <1>1, <2>1, <2>3, KeyHeld DEF Confirming
  <2>5. Keyed(t, e, accepted) \in Programs /\ Good(l, Keyed(t, e, accepted), session)
    BY <1>1, <2>1, <2>3, <2>4, KeyedGood
  <2>6. QED
    BY <1>1, <2>2, <2>5, OneMoves
<1>9. QED
  BY <1>5, <1>6, <1>7, <1>8

LEMMA LockStep == IInv /\ [Next]_vars => IInv'
<1> SUFFICES ASSUME IInv, [Next]_vars
             PROVE  IInv'
  OBVIOUS
<1>0. /\ TypeOK /\ session \in Sessions /\ (session.owner = None => session = NoSession)
      /\ proc \in [Locker -> Programs]
      /\ \A m \in Locker : proc[m] \in Programs /\ Good(m, proc[m], session)
  BY DEF IInv, TypeOK
<1>1. CASE LockRequested
  <2>1. SpawnLock /\ UNCHANGED <<session, idle, armed, inhibit, env>>
    BY <1>1 DEF LockRequested, clock
  <2>2. QED
    BY <2>1, SpawnGood, <1>0 DEF IInv, TypeOK
<1>2. CASE IdleTick
  <2>1. UNCHANGED <<session, idle, armed, inhibit, env>>
    BY <1>2 DEF IdleTick, clock
  <2>2. CASE UNCHANGED <<child, proc, waiting, told>>
    BY <1>0, <2>1, <2>2 DEF IInv, TypeOK
  <2>3. CASE SpawnLock
    BY <2>1, <2>3, SpawnGood, <1>0 DEF IInv, TypeOK
  <2>4. QED
    BY <1>2, <2>2, <2>3 DEF IdleTick
<1>3. CASE IdleChanges
  BY <1>0, <1>3 DEF IdleChanges, IInv, TypeOK
<1>4. CASE OtherCommits
  <2>1. Commits(proc) /\ UNCHANGED <<child, waiting, told, idle, armed, inhibit, env>>
    BY <1>4 DEF OtherCommits, Commits, clock
  <2>2. \A m \in Locker :
          Good(m, proc[m], IF Confirmed(session) THEN [session EXCEPT !.confirmed = TRUE]
                           ELSE session)
    BY <1>0, ConfirmGood
  <2>3. /\ session' \in Sessions /\ (session'.owner = None => session'.owner = session.owner)
        /\ proc' \in [Locker -> Programs] /\ \A m \in Locker : Good(m, proc'[m], session')
    BY <1>0, <2>1, <2>2, CommitsGood
  <2>4. session'.owner = None => session' = session
    BY <2>1, <2>3 DEF Commits, Confirmed
  <2>5. QED
    BY <1>0, <2>1, <2>3, <2>4 DEF IInv, TypeOK
<1>5. CASE \E k \in Char \cup {"enter", "escape", "backspace"} : Press(k)
  <2>1. PICK k \in Char \cup {"enter", "escape", "backspace"} : Press(k)
    BY <1>5
  <2>2. /\ proc' = Tell(proc, session.surface, k) /\ session.surface \in Locker
        /\ idle' = FALSE /\ told' = FALSE
        /\ UNCHANGED <<session, child, waiting, armed, inhibit, env>>
    BY <1>0, <2>1 DEF Press, Locked, Sessions
  <2>3. k \in Event
    BY DEF Event
  <2>4. /\ proc' \in [Locker -> Programs]
        /\ \A m \in Locker : Good(m, proc'[m], session)
    BY <1>0, <2>2, <2>3, TellAll
  <2>5. QED
    BY <1>0, <2>2, <2>4 DEF IInv, TypeOK
<1>6. ASSUME NEW l \in Locker, ForeignStarts(l)
      PROVE  IInv'
  <2> DEFINE q == [proc[l] EXCEPT !.state = "starting", !.spawned = proc[l].spawned]
  <2>1. /\ proc[l].state = "none" /\ proc[l].spawned \in BOOLEAN
        /\ UNCHANGED <<session, child, waiting, told, idle, armed, inhibit, env>>
    BY <1>0, <1>6 DEF ForeignStarts, clock, Programs
  <2>2. proc' = [proc EXCEPT ![l] = q]
    BY <1>0, <1>6 DEF ForeignStarts, Programs
  <2>3. q \in Programs /\ Good(l, q, session)
    BY <1>0, <2>1, StateMoves
  <2>4. QED
    BY <1>0, <2>1, <2>2, <2>3, OneMoves DEF IInv, TypeOK
<1>7. ASSUME NEW l \in Locker, Reap(l)
      PROVE  IInv'
  <2> DEFINE q == [proc[l] EXCEPT !.state = "gone"]
  <2>1. /\ proc[l].state = "zombie" /\ proc' = [proc EXCEPT ![l] = q]
        /\ UNCHANGED <<session, idle, armed, inhibit, env>>
    BY <1>0, <1>7 DEF Reap, clock
  <2>2. q \in Programs /\ Good(l, q, session)
    BY <1>0, <2>1, StateMoves
  <2>3. /\ child' \in [pid : Locker \cup {None}, locked : BOOLEAN]
        /\ waiting' \in BOOLEAN /\ told' \in BOOLEAN
    BY <1>0, <1>7 DEF Reap, Told, NoChild, TypeOK
  <2>4. QED
    BY <1>0, <2>1, <2>2, <2>3, OneMoves DEF IInv, TypeOK
<1>8. ASSUME NEW l \in Locker, Asks(l)
      PROVE  IInv'
  <2>0. PICK draws \in BOOLEAN :
          proc' = [proc EXCEPT ![l].state = "running", ![l].draws = draws,
                               ![l].out = <<"lock", "surface">>]
    BY <1>8 DEF Asks
  <2> DEFINE q == [proc[l] EXCEPT !.state = "running", !.draws = draws,
                                  !.out = <<"lock", "surface">>]
  <2>1. /\ proc[l].state = "starting" /\ proc' = [proc EXCEPT ![l] = q]
        /\ UNCHANGED <<session, child, waiting, told, idle, armed, inhibit, env>>
    BY <1>0, <1>8, <2>0 DEF Asks, clock
  <2>2. q \in Programs /\ Good(l, q, session)
    BY <1>0, <2>1, StateMoves
  <2>3. QED
    BY <1>0, <2>1, <2>2, OneMoves DEF IInv, TypeOK
<1>9. ASSUME NEW l \in Locker, Hears(l)
      PROVE  IInv'
  <2>1. UNCHANGED <<session, child, waiting, told, idle, armed, inhibit, env>>
    BY <1>9 DEF Hears, clock
  <2>2. QED
    BY <1>0, <1>9, <2>1, HearsGood DEF IInv, TypeOK
<1>10. ASSUME NEW l \in Locker, PromptTimeout(l)
       PROVE  IInv'
  <2> DEFINE q == HidePrompt(proc[l])
  <2>1. /\ proc[l].prompt /\ proc[l].state = "running" /\ proc' = [proc EXCEPT ![l] = q]
        /\ UNCHANGED <<session, child, waiting, told, idle, armed, inhibit, env>>
    BY <1>10 DEF PromptTimeout, clock
  <2>2. Confirming(l, proc[l], session)
    BY <1>0, <2>1 DEF Good, PromptsHeld
  <2>3. /\ q \in Programs /\ Forgets(q) /\ q.in = proc[l].in /\ q.out = proc[l].out
        /\ q.state = proc[l].state /\ q.draws = proc[l].draws
    BY <1>0, EmptySeq DEF HidePrompt, Programs, Forgets
  <2>4. Good(l, q, session)
    BY <1>0, <2>1, <2>2, <2>3, PromptGood
  <2>5. QED
    BY <1>0, <2>1, <2>3, <2>4, OneMoves DEF IInv, TypeOK
<1>11. ASSUME NEW l \in Locker, Exits(l) \/ Crashes(l)
       PROVE  IInv'
  <2>1. /\ proc' = [proc EXCEPT ![l] = Ended(proc[l])]
        /\ UNCHANGED <<session, child, waiting, told, idle, armed, inhibit, env>>
    BY <1>11 DEF Exits, Crashes, clock
  <2>2. Ended(proc[l]) \in Programs /\ Good(l, Ended(proc[l]), session)
    BY <1>0, EndedGood
  <2>3. QED
    BY <1>0, <2>1, <2>2, OneMoves DEF IInv, TypeOK
<1>12. CASE UNCHANGED vars
  BY <1>0, <1>12 DEF vars, IInv, TypeOK
<1>13. QED
  BY <1>1, <1>2, <1>3, <1>4, <1>5, <1>6, <1>7, <1>8, <1>9, <1>10, <1>11, <1>12, ReadsGood DEF Next

LEMMA Invariant == Spec => []IInv
BY LockInit, LockStep, PTL DEF Spec

-----------------------------------------------------------------------------
(* The theorems.                                                           *)

\* Every variable of ScreenLock keeps its type.
THEOREM LockTypeCorrect == Spec => []TypeOK
<1>1. IInv => TypeOK
  BY DEF IInv
<1>2. QED
  BY <1>1, Invariant, PTL

\* Nothing typed survives under a hidden prompt (hide_prompt, verify_password).
THEOREM PromptIsForgotten == Spec => []PromptForgets
<1>1. IInv => PromptForgets
  BY DEF IInv, Good, Forgets, PromptForgets
<1>2. QED
  BY <1>1, Invariant, PTL

\* An unlock that the compositor reads comes from the owner of the lock, which is
\* confirmed unless that program could not draw. Refused programs may have the
\* keyboard, and none waits to be told "locked" (new_surface,
\* maybe_confirm_lock, the lock program's handlers).
THEOREM UnlocksAreValid == Spec => []UnlockValid
<1>1. IInv => UnlockValid
  <2> SUFFICES ASSUME IInv, NEW l \in Locker, proc[l].out # <<>>, Head(proc[l].out) = "unlock"
               PROVE  session.owner = l /\ (session.confirmed \/ ~proc[l].draws)
    BY DEF UnlockValid
  <2>1. proc[l].out \in Seq(Request) /\ Good(l, proc[l], session)
    BY DEF IInv, TypeOK, Programs
  <2>2. 1 \in 1..Len(proc[l].out) /\ proc[l].out[1] = "unlock"
    BY <2>1, TailFacts
  <2>3. session.owner = l
        /\ (session.confirmed \/ ~proc[l].draws \/ \E j \in 1..(1 - 1) : proc[l].out[j] = "commit")
    BY <2>1, <2>2 DEF Good, UnlocksLast
  <2>4. 1..(1 - 1) = {}
    OBVIOUS
  <2>5. QED
    BY <2>3, <2>4
<1>2. QED
  BY <1>1, Invariant, PTL

HeldNow == Locked /\ session'.owner # session.owner => proc[session.owner].verified

\* The lock ends only by its owner, which has verified the password
\* (ScreenLock's unlock, submit_password).
THEOREM LockIsHeld == Spec => LockHeld
<1>1. IInv /\ [Next]_vars => [HeldNow]_vars
  <2> SUFFICES ASSUME IInv, Next, Locked, session'.owner # session.owner
               PROVE  proc[session.owner].verified
    BY DEF HeldNow
  <2>1. session \in Sessions
    BY DEF IInv, TypeOK
  <2>2. ASSUME NEW p, Commits(p)
        PROVE  FALSE
    BY <2>1, <2>2 DEF Commits, Sessions
  <2>3. PICK l \in Locker : Reads(l)
    BY <2>2 DEF Next, LockRequested, IdleTick, IdleChanges, OtherCommits, Press, ForeignStarts,
                Reap, Asks, Hears, PromptTimeout, Exits, Crashes
  <2> DEFINE p == [proc EXCEPT ![l].out = Tail(@)]
  <2>4. ~Locks(l, p) /\ ~NewSurface(l, p)
    BY <2>1 DEF Locks, NewSurface, Sessions
  <2>5. proc[l].out # <<>> /\ proc[l].out \in Seq(Request)
    BY <2>3 DEF Reads, IInv, TypeOK, Programs
  <2>6. Head(proc[l].out) \in Request
    BY <2>5, TailFacts
  <2>7. Head(proc[l].out) = "unlock" /\ Unlocks(l, p)
    BY <2>2, <2>3, <2>4, <2>6 DEF Reads, Request
  <2>8. session.owner = l
    BY <2>7 DEF Unlocks
  <2>9. 1 \in 1..Len(proc[l].out) /\ proc[l].out[1] = "unlock"
    BY <2>5, <2>7, TailFacts
  <2>10. QED
    BY <2>8, <2>9 DEF IInv, Good, UnlocksLast
<1>2. [][HeldNow]_vars <=> LockHeld
  BY PTL DEF LockHeld, HeldNow
<1>3. QED
  BY <1>1, <1>2, Invariant, PTL DEF Spec
=============================================================================
