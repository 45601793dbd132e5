------------------------------- MODULE SeatHeld -------------------------------
(****************************************************************************)
(* The seat's bookkeeping of held keys and buttons (SeatHeld in inject.rs). *)
(* Every physical device is a source, and raw injection is one more. A      *)
(* transition is passed on only if it changes what the seat as a whole      *)
(* holds. `down` is what passed on transitions add up to: what the keyboard *)
(* and pointer, and so the clients, take to be down.                        *)
(****************************************************************************)
CONSTANTS
  Device,    \* physical keyboards and pointers
  Injected,  \* the source that raw injection is
  Code,      \* key and button codes
  Chords     \* codes that inject_key, inject_text and inject_click tap

ASSUME SourcesAssumption == Injected \notin Device
ASSUME ChordsAssumption == Chords \subseteq Code

VARIABLES physical, injected, down

seat == <<physical, injected, down>>

HeldPhysically(c) == \E d \in Device : c \in physical[d]

SeatInit ==
  /\ physical = [d \in Device |-> {}]
  /\ injected = {}
  /\ down = {}

Delivered(c, pressed) == IF pressed THEN down \cup {c} ELSE down \ {c}

\* SeatHeld::key and ::button for a physical device.
PhysicalNote(d, c, pressed) ==
  LET changed == pressed # (c \in physical[d])
      other   == c \in injected \/ \E e \in Device \ {d} : c \in physical[e]
  IN  /\ physical' = [physical EXCEPT ![d] = IF pressed THEN @ \cup {c}
                                             ELSE @ \ {c}]
      /\ down' = IF changed /\ ~other THEN Delivered(c, pressed) ELSE down
      /\ UNCHANGED injected

\* The same for raw injection.
InjectedNote(c, pressed) ==
  LET changed == pressed # (c \in injected)
  IN  /\ injected' = IF pressed THEN injected \cup {c} ELSE injected \ {c}
      /\ down' = IF changed /\ ~HeldPhysically(c) THEN Delivered(c, pressed)
                 ELSE down
      /\ UNCHANGED physical

\* release_device_input: a device is unplugged, or winit loses host focus.
ReleaseDevice(d) ==
  /\ physical' = [physical EXCEPT ![d] = {}]
  /\ down' = down \ {c \in physical[d] : /\ c \notin injected
                                         /\ \A e \in Device \ {d} :
                                              c \notin physical[e]}
  /\ UNCHANGED injected

\* Raw injection lets go of the codes in S: all of them when the automation gate
\* closes (release_injected_input), or one inject_input request after another.
ReleaseInjectedAlone(S) ==
  /\ injected' = injected \ S
  /\ down' = down \ (injected \cap S)
  /\ UNCHANGED physical

ReleaseInjected(S) ==
  /\ injected' = injected \ S
  /\ down' = down \ {c \in injected \cap S : ~HeldPhysically(c)}
  /\ UNCHANGED physical

\* A scripted tap goes straight to the keyboard or pointer: press, release.
Tap(c) ==
  /\ c \in Chords
  /\ down' = down \ {c}
  /\ UNCHANGED <<physical, injected>>

PhysicalStep ==
  \E d \in Device :
    \/ \E c \in Code, pressed \in BOOLEAN : PhysicalNote(d, c, pressed)
    \/ ReleaseDevice(d)

SeatNext ==
  \/ PhysicalStep
  \/ \E c \in Code, pressed \in BOOLEAN : InjectedNote(c, pressed)
  \/ ReleaseInjected(Code)
  \/ \E c \in Code : Tap(c)

SeatSpec == SeatInit /\ [][SeatNext]_seat

----------------------------------------------------------------------------
SeatTypeOK ==
  /\ physical \in [Device -> SUBSET Code]
  /\ injected \subseteq Code
  /\ down \subseteq Code

\* A key is down while somebody holds it, and only then: neither a viewer nor
\* a local finger lifts a key another source still holds, and nothing stays
\* down once the last one has let go (the doc of SeatHeld, inject.rs:55).
DownExact == down = injected \cup {c \in Code : HeldPhysically(c)}

\* The abstract seat, its sources the devices and raw injection.
Shared == INSTANCE SharedSeat WITH
  Source <- Device \cup {Injected},
  held <- [s \in Device \cup {Injected} |->
             IF s = Injected THEN injected ELSE physical[s]]
=============================================================================
