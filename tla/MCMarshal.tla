------------------------------ MODULE MCMarshal ------------------------------
(***************************************************************************)
(* Marshal on integers from -4 to 3: -4 is a date beyond the ticks, -1 a   *)
(* byte that is 7 in C++.                                                  *)
(***************************************************************************)
EXTENDS Marshal

MCSamples == {-4, -1, 1}
=============================================================================
