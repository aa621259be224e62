---------------------------- MODULE MCDiscovery ----------------------------
(***************************************************************************)
(* Instances of Discovery for TLC.                                         *)
(***************************************************************************)
EXTENDS Discovery, TLC

\* Users of the UI are interchangeable.
UiSymmetry == Permutations(UiCallers)
============================================================================
