---------------------------- MODULE SeatHeldProofs ----------------------------
(****************************************************************************)
(* Proofs about the seat's bookkeeping, for any devices and codes: a key is *)
(* down exactly while a source holds it, and so the bookkeeping implements  *)
(* the abstract seat. Both are about a seat no script taps keys on: a tap   *)
(* (Chords) goes past the bookkeeping.                                      *)
(****************************************************************************)
EXTENDS SeatHeld, TLAPS

\* The seat is well typed and exact: inductive as it stands.
SeatOK == SeatTypeOK /\ DownExact

LEMMA InitOK == SeatInit => SeatOK
  BY DEF SeatInit, SeatOK, SeatTypeOK, DownExact, HeldPhysically

\* A physical transition keeps the seat exact (SeatHeld::note).
LEMMA PhysicalNoteOK ==
  ASSUME SeatOK, NEW d \in Device, NEW c \in Code, NEW pressed \in BOOLEAN,
         PhysicalNote(d, c, pressed)
  PROVE  SeatOK'
  BY DEF SeatOK, SeatTypeOK, DownExact, PhysicalNote, HeldPhysically, Delivered

\* So does an injected one.
LEMMA InjectedNoteOK ==
  ASSUME SeatOK, NEW c \in Code, NEW pressed \in BOOLEAN,
         InjectedNote(c, pressed)
  PROVE  SeatOK'
  BY DEF SeatOK, SeatTypeOK, DownExact, InjectedNote, HeldPhysically, Delivered

\* So does a device that goes away.
LEMMA ReleaseDeviceOK ==
  ASSUME SeatOK, NEW d \in Device, ReleaseDevice(d)
  PROVE  SeatOK'
  BY DEF SeatOK, SeatTypeOK, DownExact, ReleaseDevice, HeldPhysically

\* And so does injection letting go of any of its codes.
LEMMA ReleaseInjectedOK ==
  ASSUME SeatOK, NEW S, ReleaseInjected(S)
  PROVE  SeatOK'
  BY DEF SeatOK, SeatTypeOK, DownExact, ReleaseInjected, HeldPhysically
\* No script taps keys: every other step keeps the seat exact.
LEMMA SeatStep ==
  ASSUME Chords = {}, SeatOK, [SeatNext]_seat
  PROVE  SeatOK'
<1>1. CASE PhysicalStep
  BY <1>1, PhysicalNoteOK, ReleaseDeviceOK DEF PhysicalStep
<1>2. CASE \E c \in Code, pressed \in BOOLEAN : InjectedNote(c, pressed)
  BY <1>2, InjectedNoteOK
<1>3. CASE ReleaseInjected(Code)
  BY <1>3, ReleaseInjectedOK
<1>4. CASE \E c \in Code : Tap(c)
  BY <1>4 DEF Tap
<1>5. CASE UNCHANGED seat
  BY <1>5 DEF seat, SeatOK, SeatTypeOK, DownExact, HeldPhysically
<1>6. QED
  BY <1>1, <1>2, <1>3, <1>4, <1>5 DEF SeatNext

\* A key is down exactly while a device or raw injection holds it, whatever
\* order their transitions, unplugging and the gate's releases come in.
THEOREM SeatIsExact ==
  ASSUME Chords = {}
  PROVE  SeatSpec => []DownExact
<1>1. SeatInit => SeatOK
  BY InitOK
<1>2. SeatOK /\ [SeatNext]_seat => SeatOK'
  BY SeatStep
<1>3. SeatOK => DownExact
  BY DEF SeatOK
<1>4. QED
  BY <1>1, <1>2, <1>3, PTL DEF SeatSpec

(***************************************************************************)
(* Refinement of SharedSeat.                                               *)
(***************************************************************************)
Source == Device \cup {Injected}
Held == [s \in Source |-> IF s = Injected THEN injected ELSE physical[s]]

\* In an exact seat, what is down is what the abstract seat says.
LEMMA ExactDown ==
  ASSUME SeatOK
  PROVE  down = Shared!Down(Held)
  BY SourcesAssumption
     DEF SeatOK, SeatTypeOK, DownExact, HeldPhysically, Shared!Down, Held, Source

\* A physical transition is the device pressing or releasing the code.
LEMMA PhysicalNoteShared ==
  ASSUME SeatOK, NEW d \in Device, NEW c \in Code, NEW pressed \in BOOLEAN,
         PhysicalNote(d, c, pressed)
  PROVE  Held' = IF pressed THEN [Held EXCEPT ![d] = @ \cup {c}]
                 ELSE [Held EXCEPT ![d] = @ \ {c}]
  BY SourcesAssumption DEF SeatOK, SeatTypeOK, PhysicalNote, Held, Source

\* An injected one is the injected source doing so.
LEMMA InjectedNoteShared ==
  ASSUME SeatOK, NEW c \in Code, NEW pressed \in BOOLEAN,
         InjectedNote(c, pressed)
  PROVE  Held' = IF pressed THEN [Held EXCEPT ![Injected] = @ \cup {c}]
                 ELSE [Held EXCEPT ![Injected] = @ \ {c}]
  BY SourcesAssumption DEF SeatOK, SeatTypeOK, InjectedNote, Held, Source

\* A device that goes away, or the gate closing, is a source letting go.
LEMMA LetGoShared ==
  ASSUME SeatOK
  PROVE  /\ \A d \in Device : ReleaseDevice(d) =>
              Held' = [s \in Source |-> IF s \in {d} THEN {} ELSE Held[s]]
         /\ ReleaseInjected(Code) =>
              Held' = [s \in Source |-> IF s \in {Injected} THEN {}
                                       ELSE Held[s]]
<1>1. \A d \in Device : ReleaseDevice(d) =>
        Held' = [s \in Source |-> IF s \in {d} THEN {} ELSE Held[s]]
  BY SourcesAssumption
     DEF SeatOK, SeatTypeOK, ReleaseDevice, Held, Source
<1>2. ASSUME ReleaseInjected(Code)
      PROVE  Held' = [s \in Source |-> IF s \in {Injected} THEN {} ELSE Held[s]]
  <2>1. injected' = {} /\ physical' = physical
    BY <1>2 DEF SeatOK, SeatTypeOK, ReleaseInjected
  <2>2. QED
    BY <2>1, SourcesAssumption DEF Held, Source
<1>3. QED
  BY <1>1, <1>2

\* Every step of the bookkeeping is a step of the abstract seat, or none.
LEMMA SharedStep ==
  ASSUME Chords = {}, SeatOK, SeatOK', [SeatNext]_seat
  PROVE  [Shared!Next]_(Shared!seat)
<1> USE DEF Shared!Next, Shared!Hold
<1>0. down' = Shared!Down(Held')
  BY ExactDown, SourcesAssumption
     DEF SeatOK, SeatTypeOK, DownExact, HeldPhysically, Shared!Down, Held, Source
<1>1. ASSUME NEW d \in Device, NEW c \in Code, NEW pressed \in BOOLEAN,
             PhysicalNote(d, c, pressed)
      PROVE  Shared!Next
  <2>1. d \in Source
    BY DEF Source
  <2>2. Held' = IF pressed THEN [Held EXCEPT ![d] = @ \cup {c}]
                ELSE [Held EXCEPT ![d] = @ \ {c}]
    BY <1>1, PhysicalNoteShared
  <2>3. CASE pressed
    <3>1. Shared!Press(d, c)
      BY <1>0, <2>2, <2>3 DEF Shared!Press, Held, Source
    <3>2. QED
      BY <2>1, <3>1 DEF Source
  <2>4. CASE ~pressed
    <3>1. Shared!Release(d, c)
      BY <1>0, <2>2, <2>4 DEF Shared!Release, Held, Source
    <3>2. QED
      BY <2>1, <3>1 DEF Source
  <2>5. QED
    BY <2>3, <2>4
<1>2. ASSUME NEW c \in Code, NEW pressed \in BOOLEAN, InjectedNote(c, pressed)
      PROVE  Shared!Next
  <2>1. Held' = IF pressed THEN [Held EXCEPT ![Injected] = @ \cup {c}]
                ELSE [Held EXCEPT ![Injected] = @ \ {c}]
    BY <1>2, InjectedNoteShared
  <2>2. CASE pressed
    <3>1. Shared!Press(Injected, c)
      BY <1>0, <2>1, <2>2 DEF Shared!Press, Held, Source
    <3>2. QED
      BY <3>1
  <2>3. CASE ~pressed
    <3>1. Shared!Release(Injected, c)
      BY <1>0, <2>1, <2>3 DEF Shared!Release, Held, Source
    <3>2. QED
      BY <3>1
  <2>4. QED
    BY <2>2, <2>3
<1>3. ASSUME NEW d \in Device, ReleaseDevice(d)
      PROVE  Shared!Next
  <2>1. Shared!LetGo({d})
    BY <1>0, <1>3, LetGoShared DEF Shared!LetGo, Held, Source
  <2>2. QED
    BY <2>1
<1>4. ASSUME ReleaseInjected(Code)
      PROVE  Shared!Next
  <2>1. Shared!LetGo({Injected})
    BY <1>0, <1>4, LetGoShared DEF Shared!LetGo, Held, Source
  <2>2. QED
    BY <2>1
<1>5. CASE UNCHANGED seat
  BY <1>5 DEF seat, Shared!seat
<1>6. CASE SeatNext
  BY <1>1, <1>2, <1>3, <1>4, <1>6 DEF SeatNext, PhysicalStep, Tap
<1>7. QED
  BY <1>5, <1>6

\* The seat's bookkeeping implements the abstract seat: passing on only the
\* transitions that change what the seat holds adds up to telling clients
\* exactly what is held.
THEOREM SeatIsShared ==
  ASSUME Chords = {}
  PROVE  SeatSpec => Shared!Spec
<1>1. SeatInit => SeatOK
  BY InitOK
<1>2. SeatOK /\ [SeatNext]_seat => SeatOK'
  BY SeatStep
<1>3. SeatInit => Shared!Init
  BY SourcesAssumption DEF SeatInit, Shared!Init
<1>4. SeatOK /\ SeatOK' /\ [SeatNext]_seat => [Shared!Next]_(Shared!seat)
  BY SharedStep
<1>5. QED
  BY <1>1, <1>2, <1>3, <1>4, PTL DEF SeatSpec, Shared!Spec
=============================================================================
