------------------------------ MODULE MCDesktop ------------------------------
(***************************************************************************)
(* Desktop on small instances. A configuration gives the windows and the   *)
(* parts of the environment that act.                                      *)
(***************************************************************************)
EXTENDS Desktop, TLC

XdgWindows == Permutations(Window \ X11)
=============================================================================
