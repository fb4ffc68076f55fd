-------------------------- MODULE MCComputeLifecycle --------------------------
(* Model values for TLC.                                                   *)
EXTENDS ComputeLifecycle, TLC

CONSTANTS c1, c2, i1, i2

\* Callers are interchangeable, and so are service instances.
Symmetry == Permutations(Callers) \cup Permutations(Instances)

\* Nothing is claimed past the first disturbance: TLC goes no further.
Undisturbed == ~disturbed
===============================================================================
