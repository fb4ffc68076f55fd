--------------------------- MODULE WorkLedgerLemmas ---------------------------
(***************************************************************************)
(* What the statements of the ledger's store return, for every row, time   *)
(* and reason: each row stays a row, a terminal is written once, and the   *)
(* delivery gate closes once.                                              *)
(***************************************************************************)
EXTENDS WorkLedger, WellFoundedInduction, TLAPS

\* A set of times has a soonest one.
LEMMA SoonestIsLeast ==
    ASSUME NEW S, S \subseteq Nat, S # {}
    PROVE  /\ Soonest(S) \in S
           /\ \A t \in S : Soonest(S) <= t
  <1> DEFINE R == OpToRel(<, Nat)
  <1>1. PICK t \in S : \A u \in S : ~(<<u, t>> \in R)
    BY WFMin, NatLessThanWellFounded
  <1>a. \A u, v \in Nat : u < v => <<u, v>> \in R
    BY DEF OpToRel
  <1> HIDE DEF R
  <1>2. ASSUME NEW u \in S PROVE t <= u
    <2>1. u \in Nat /\ t \in Nat
      OBVIOUS
    <2>2. <<u, t>> \notin R
      BY <1>1
    <2>3. ~(u < t)
      BY <1>a, <2>1, <2>2
    <2> QED BY <2>1, <2>3
  <1>3. \E x \in S : \A u \in S : x <= u
    BY <1>2
  <1> QED BY <1>3 DEF Soonest

\* Whatever the set, the result is a time or no time.
LEMMA SoonestType ==
    ASSUME NEW S, S \subseteq Nat
    PROVE  Soonest(S) \in Nat \cup {None}
  <1>1. CASE S = {} BY <1>1 DEF Soonest
  <1>2. CASE S # {} BY <1>2, SoonestIsLeast
  <1> QED BY <1>1, <1>2

-------------------------------------------------------------------------------
LEMMA NoRowType == NoRow \in Row
  BY DEF NoRow, Row, UNKNOWN_GENERATION

\* What a process registers is an open row.
LEMMA RegisterType ==
    ASSUME NEW row \in Row, NEW generation \in Nat, NEW t \in Nat
    PROVE  /\ RegisterRow(row, ProcessWorkRow(generation, t)) \in Row
           /\ row = NoRow =>
                LET new == RegisterRow(row, ProcessWorkRow(generation, t))
                IN  new.state = "open" /\ ~new.delivered /\ new.reason = "none"
  <1> DEFINE new == ProcessWorkRow(generation, t)
  <1>1. t + WatchMax \in Nat
    BY LedgerAssumption
  <1>2. /\ new \in Row
        /\ new.state = "open" /\ ~new.delivered /\ new.reason = "none"
    BY <1>1 DEF ProcessWorkRow, NoRow, Row, UNKNOWN_GENERATION
  <1> HIDE DEF new
  <1>3. RegisterRow(row, new) \in Row
    BY <1>2 DEF RegisterRow, Row, Later
  <1>4. row = NoRow => RegisterRow(row, new) = new
    BY DEF RegisterRow, NoRow
  <1> QED BY <1>2, <1>3, <1>4 DEF new

\* A stamp of liveness changes only lastAlive.
LEMMA StampAliveKeeps ==
    ASSUME NEW row \in Row, NEW t \in Nat
    PROVE  LET new == StampAlive(row, t)
           IN  /\ new \in Row
               /\ new.state = row.state /\ new.delivered = row.delivered
               /\ new.reason = row.reason
               /\ ~IsOpen(row) => new = row
  BY DEF StampAlive, Row, Later, IsOpen

\* Two writers race for one terminal: the first wins, the second changes nothing.
LEMMA TerminalizeOnce ==
    ASSUME NEW row \in Row, NEW reason \in WorkReason, NEW t \in Nat
    PROVE  LET new == Terminalize(row, reason, t)
           IN  /\ new \in Row
               /\ ~IsOpen(new)
               /\ new.delivered = row.delivered
               /\ ~IsOpen(row) => new = row
               /\ IsOpen(row) => new.state = "closed" /\ new.reason = reason
  BY DEF Terminalize, Row, IsOpen

\* The delivery gate closes on a closed row only, and never opens again.
LEMMA MarkDeliveredOnce ==
    ASSUME NEW row \in Row
    PROVE  LET new == MarkDelivered(row)
           IN  /\ new \in Row
               /\ new.state = row.state /\ new.reason = row.reason
               /\ IsOwed(row) => IsSettled(new)
               /\ ~IsOwed(row) => new = row
  BY DEF MarkDelivered, Row, IsOwed, IsSettled

\* Closing an open row leaves it owed; closing and stamping settles it.
LEMMA CloseOpenRow ==
    ASSUME NEW row \in Row, IsOpen(row), ~row.delivered,
           NEW reason \in WorkReason, NEW t \in Nat
    PROVE  LET closed == Terminalize(row, reason, t)
           IN  /\ closed \in Row /\ IsOwed(closed) /\ closed.reason = reason
               /\ MarkDelivered(closed) \in Row /\ IsSettled(MarkDelivered(closed))
               /\ MarkDelivered(closed).reason = reason
  <1> DEFINE closed == Terminalize(row, reason, t)
  <1>1. closed \in Row /\ IsOwed(closed) /\ closed.reason = reason
    BY TerminalizeOnce DEF IsOwed
  <1> HIDE DEF closed
  <1> QED BY <1>1, MarkDeliveredOnce DEF closed

\* Retention drops settled rows only.
LEMMA PruneKeepsUnsettled ==
    ASSUME NEW row \in Row, NEW before \in Int
    PROVE  /\ PruneRow(row, before) \in Row
           /\ PruneRow(row, before) = row \/ (IsSettled(row) /\ PruneRow(row, before) = NoRow)
  BY NoRowType DEF PruneRow

\* The reaper closes an open row only, for one of the reasons of a row.
LEMMA ClassifyWorkType ==
    ASSUME NEW row, NEW view, NEW t
    PROVE  /\ ClassifyWork(row, view, t) \in {"alive", "sandbox_reset", "watch_timeout", "no_liveness"}
           /\ ~IsOpen(row) => ClassifyWork(row, view, t) = "alive"
  BY DEF ClassifyWork

\* Every time at which the ledger asks for a wake is a time.
LEMMA WorkHorizonType ==
    ASSUME NEW P, NEW store \in [P -> Row], NEW t \in Nat
    PROVE  WorkHorizonTimes(store, t) \subseteq Nat
  BY LedgerAssumption DEF WorkHorizonTimes, SweepTimes, Row
===============================================================================
