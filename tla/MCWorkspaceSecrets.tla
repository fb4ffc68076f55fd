------------------------- MODULE MCWorkspaceSecrets -------------------------
(***************************************************************************)
(* Instances of WorkspaceSecrets for model checking.                       *)
(***************************************************************************)
EXTENDS WorkspaceSecrets, TLC

CONSTANTS n1, n2, c1, c2

Symmetry == Permutations({n1, n2}) \cup Permutations({c1, c2})
=============================================================================
