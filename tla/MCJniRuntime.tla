---------------------------- MODULE MCJniRuntime ----------------------------
(***************************************************************************)
(* JniRuntime with interchangeable classes, objects and client threads.    *)
(***************************************************************************)
EXTENDS JniRuntime, TLC

Symmetry ==
  Permutations(Classes) \cup Permutations(Objects) \cup Permutations(Threads \ {Loader})
=============================================================================
