------------------------------ MODULE SharedSeat ------------------------------
(****************************************************************************)
(* What a seat promises to the people who share it: a key or button is down *)
(* exactly while one of them holds it. Who the sources are is left open.    *)
(* SeatHeld implements this with the seat's own sources, RemoteShare with   *)
(* the viewers behind the remote server.                                    *)
(****************************************************************************)
CONSTANTS Source, Code

VARIABLES
  held,  \* what each source holds
  down   \* what the clients of the desktop have been told is down

seat == <<held, down>>

Down(h) == {c \in Code : \E s \in Source : c \in h[s]}

Init ==
  /\ held = [s \in Source |-> {}]
  /\ down = {}

\* Every step brings what clients are told in line with what is held.
Hold(h) ==
  /\ held' = h
  /\ down' = Down(h)

Press(s, c) == Hold([held EXCEPT ![s] = @ \cup {c}])
Release(s, c) == Hold([held EXCEPT ![s] = @ \ {c}])

\* Some sources let go of everything: a device is unplugged, a gate closes.
LetGo(S) == Hold([s \in Source |-> IF s \in S THEN {} ELSE held[s]])

Next ==
  \/ \E s \in Source, c \in Code : Press(s, c) \/ Release(s, c)
  \/ \E S \in SUBSET Source : LetGo(S)

Spec == Init /\ [][Next]_seat
=============================================================================
