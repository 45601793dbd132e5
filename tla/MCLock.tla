------------------------------- MODULE MCLock -------------------------------
\* ScreenLock for TLC: a password of one character.
EXTENDS ScreenLock

Right == <<"x">>
=============================================================================
