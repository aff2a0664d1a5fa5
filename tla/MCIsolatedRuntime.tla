------------------------- MODULE MCIsolatedRuntime -------------------------
(***************************************************************************)
(* IsolatedRuntime with the symmetry of its model values, for the run that *)
(* checks invariants only.                                                 *)
(***************************************************************************)
EXTENDS IsolatedRuntime, TLC

\* Backends, callers and container ids are interchangeable.
Symmetry ==
  Permutations(Backends) \cup Permutations(Callers) \cup Permutations(Containers)
=============================================================================
