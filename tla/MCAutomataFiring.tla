-------------------------- MODULE MCAutomataFiring --------------------------
(* Small instances of AutomataFiring: one automaton, two invocations and two   *)
(* updates at once, a schedule that fires at every instant, a one-shot and one *)
(* that does not parse.                                                        *)
EXTENDS AutomataFiring, TLC

CONSTANTS a1, w1, w2, u1, u2

EveryInstant == [kind |-> "cron", arg |-> 1]
OnceAtTwo == [kind |-> "once", arg |-> 2]
Corrupt == [kind |-> "corrupt", arg |-> 1]

MCSchedules == {EveryInstant, OnceAtTwo, Corrupt}
MCCronOnly == {EveryInstant}

\* Two at a time of the four disturbances: a fault, a manual run, an update and
\* an archived automaton.
AnyTwo ==
  faults + manuals + edits + Cardinality({a \in Automata : automata[a].archived}) <= 2

Symmetry == Permutations(Workers) \cup Permutations(Updates)
=============================================================================
