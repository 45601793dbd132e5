------------------------------- MODULE MCAxis -------------------------------
\* MachineAxis for TLC: a narrow machine and a wide one; the rest are equal.
EXTENDS MachineAxis, TLC

CONSTANTS m1, m2

Widths == [m \in Machine |-> IF m = m2 THEN 3 ELSE 1]
=============================================================================
