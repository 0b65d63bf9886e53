------------------------------- MODULE MCModule -------------------------------
(***************************************************************************)
(* Instances of AxfsModule: three volumes with nodes, so that a file can   *)
(* have others before and behind it, one without, and two users, so that   *)
(* one can enter as the other leaves; the module is loaded any number of   *)
(* times.                                                                  *)
(***************************************************************************)
EXTENDS AxfsModule

CONSTANTS m1, m2, m3, m4, u1, u2
=============================================================================
