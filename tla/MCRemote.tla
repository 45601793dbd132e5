------------------------------- MODULE MCRemote -------------------------------
\* RemoteShare for TLC: sessions are interchangeable, and so are devices.
EXTENDS RemoteShare, TLC

Interchangeable == Permutations(Session)
=============================================================================
