--------------------------- MODULE MCThreadInbox ---------------------------
(* Model values for ThreadInbox. *)
EXTENDS ThreadInbox, TLC

CONSTANTS q1, q2, s1, w1, c1, c2

Twins == Permutations({q1, q2}) \cup Permutations({c1, c2})
=============================================================================
