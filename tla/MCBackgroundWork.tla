--------------------------- MODULE MCBackgroundWork ---------------------------
(* Instances of BackgroundWork for TLC: times in poll intervals of a minute.  *)
EXTENDS BackgroundWork, TLC

ProcSymmetry == Permutations(Proc)
===============================================================================
