------------------------------ MODULE AlarmProofs ------------------------------
(***************************************************************************)
(* The alarm of BackgroundWork.  What an arm, a teardown and the end of a  *)
(* pass do to the wake that the open and the owed rows of the ledger need, *)
(* and that an alarm in the past is not set twice for one cause, for every *)
(* set of processes, all bounds and any fate of the environment; and, for  *)
(* a thread whose environment is neither shut down nor lost for good, that *)
(* the alarm covers the work and that no process is faulted for silence    *)
(* that the poll of the same pass could read.                              *)
(***************************************************************************)
EXTENDS BackgroundWorkProofs

\* The alarm fires before the row times out or goes stale, and some alarm is set
\* while its message is owed.
RowCovered(row, wake) ==
    /\ IsOpen(row) =>
         /\ wake # None
         /\ wake <= row.deadlineAt
         /\ wake <= row.lastAlive + StaleAfter
    /\ IsOwed(row) => wake # None

Covered == \A p \in Proc : RowCovered(rows[p], alarm)

\* Once the tick armed, the schedule row is no longer the one that fired.
ArmedInv == pass.armed => ~pass.spent

\* What a writer other than a registration may do to a row: nothing that would
\* need an earlier wake.
Tame(old, new) ==
    /\ IsOpen(new) => /\ IsOpen(old)
                      /\ new.deadlineAt = old.deadlineAt
                      /\ new.lastAlive >= old.lastAlive
    /\ IsOwed(new) => IsOpen(old) \/ IsOwed(old)

-------------------------------------------------------------------------------
(* The statements of the ledger, and the fold of an arm.                   *)

LEMMA StatementsAreTame ==
    ASSUME NEW row \in Row, NEW reason \in WorkReason, NEW t \in Nat, NEW s \in Nat
    PROVE  /\ Tame(row, row)
           /\ Tame(row, StampAlive(row, s))
           /\ Tame(row, Terminalize(row, reason, t))
           /\ Tame(row, Terminalize(StampAlive(row, s), reason, t))
           /\ Tame(row, MarkDelivered(row))
           /\ Tame(row, MarkDelivered(Terminalize(row, reason, t)))
           /\ Tame(row, MarkDelivered(Terminalize(StampAlive(row, s), reason, t)))
  <1>1. \A r \in Row :
          /\ Tame(r, r)
          /\ Tame(r, StampAlive(r, s)) /\ StampAlive(r, s) \in Row
          /\ Tame(r, Terminalize(r, reason, t)) /\ Terminalize(r, reason, t) \in Row
          /\ Tame(r, MarkDelivered(r))
    <2> SUFFICES ASSUME NEW r \in Row
                 PROVE  /\ Tame(r, r)
                        /\ Tame(r, StampAlive(r, s)) /\ StampAlive(r, s) \in Row
                        /\ Tame(r, Terminalize(r, reason, t)) /\ Terminalize(r, reason, t) \in Row
                        /\ Tame(r, MarkDelivered(r))
      OBVIOUS
    <2>1. Tame(r, r)
      BY DEF Tame, Row
    <2>2. Tame(r, StampAlive(r, s)) /\ StampAlive(r, s) \in Row
      BY DEF Tame, StampAlive, Row, Later, IsOpen, IsOwed
    <2>3. Tame(r, Terminalize(r, reason, t)) /\ Terminalize(r, reason, t) \in Row
      BY DEF Tame, Terminalize, Row, IsOpen, IsOwed
    <2>4. Tame(r, MarkDelivered(r))
      BY DEF Tame, MarkDelivered, Row, IsOpen, IsOwed
    <2> QED BY <2>1, <2>2, <2>3, <2>4
  <1>2. ASSUME NEW a \in Row, NEW b \in Row, NEW c, Tame(a, b), Tame(b, c), c \in Row
        PROVE  Tame(a, c)
    BY <1>2 DEF Tame, Row
  <1>3. \A r \in Row : MarkDelivered(r) \in Row
    BY MarkDeliveredOnce
  <1> DEFINE stamped == StampAlive(row, s)
             over(r) == Terminalize(r, reason, t)
  <1>4. stamped \in Row /\ over(row) \in Row /\ over(stamped) \in Row
    BY <1>1
  <1>5. Tame(row, stamped) /\ Tame(row, over(row)) /\ Tame(stamped, over(stamped))
        /\ Tame(over(row), MarkDelivered(over(row)))
        /\ Tame(over(stamped), MarkDelivered(over(stamped)))
    BY <1>1, <1>4
  <1>6. MarkDelivered(over(row)) \in Row /\ MarkDelivered(over(stamped)) \in Row
    BY <1>3, <1>4
  <1>7. Tame(row, row) /\ Tame(row, MarkDelivered(row))
    BY <1>1
  <1> HIDE DEF stamped, over
  <1>8. Tame(row, over(stamped))
    BY <1>2, <1>4, <1>5
  <1>9. Tame(row, MarkDelivered(over(row))) /\ Tame(row, MarkDelivered(over(stamped)))
    BY <1>2, <1>4, <1>5, <1>6, <1>8
  <1> QED BY <1>5, <1>7, <1>8, <1>9 DEF stamped, over

\* Retention drops a row nobody waits for.
LEMMA PruneIsTame ==
    ASSUME NEW row \in Row, NEW before
    PROVE  Tame(row, PruneRow(row, before))
  BY DEF PruneRow, Tame, NoRow, Row, IsOpen, IsOwed

\* A wake that covers a row covers it after any of them.
LEMMA TameKeepsCover ==
    ASSUME NEW old \in Row, NEW new \in Row, Tame(old, new),
           NEW wake \in Nat \cup {None}, RowCovered(old, wake)
    PROVE  RowCovered(new, wake)
  <1>1. CASE wake = None
    BY <1>1 DEF Tame, RowCovered
  <1>2. CASE wake \in Nat
    BY <1>2, LedgerAssumption DEF Tame, RowCovered, Row
  <1> QED BY <1>1, <1>2

\* A fold over the horizon of a store covers every row of it, and is empty only
\* when no row needs a wake.
LEMMA HorizonCovers ==
    ASSUME NEW store \in [Proc -> Row], NEW t \in Nat, NEW times \in SUBSET Nat,
           WorkHorizonTimes(store, t) \subseteq times, NEW p \in Proc
    PROVE  RowCovered(store[p], Soonest(times))
  <1>1. CASE IsOpen(store[p])
    <2>1. {store[p].deadlineAt, store[p].lastAlive + StaleAfter} \subseteq SweepTimes(store)
      BY <1>1 DEF SweepTimes
    <2>2. store[p].deadlineAt \in times /\ store[p].lastAlive + StaleAfter \in times
      BY <2>1 DEF WorkHorizonTimes
    <2>3. Soonest(times) \in Nat /\ \A u \in times : Soonest(times) <= u
      BY <2>2, SoonestIsLeast
    <2>4. /\ Soonest(times) <= store[p].deadlineAt
          /\ Soonest(times) <= store[p].lastAlive + StaleAfter
      BY <2>2, <2>3
    <2>5. Soonest(times) # None
      BY <2>3, LedgerAssumption
    <2>6. ~IsOwed(store[p])
      BY <1>1 DEF IsOpen, IsOwed
    <2> QED BY <2>4, <2>5, <2>6 DEF RowCovered
  <1>2. CASE IsOwed(store[p])
    <2>1. t + RetryAfter \in times
      BY <1>2 DEF WorkHorizonTimes
    <2>2. Soonest(times) \in Nat
      BY <2>1, SoonestIsLeast
    <2> QED BY <1>2, <2>2, LedgerAssumption DEF RowCovered, IsOpen, IsOwed
  <1>3. CASE ~IsOpen(store[p]) /\ ~IsOwed(store[p])
    BY <1>3 DEF RowCovered
  <1> QED BY <1>1, <1>2, <1>3

-------------------------------------------------------------------------------
(* What a step does to the rows.                                           *)

\* What the registration of a process leaves: a new row, its watch just begun.
Registers(p) ==
    /\ reg[p] = "probed" /\ reg'[p] = "done"
    /\ IsOpen(rows'[p]) /\ rows'[p].lastAlive = now /\ rows'[p].deadlineAt = now + WatchMax
    /\ watchers'[p] = NewWatcher(now)

LEMMA RegisterRegisters ==
    ASSUME IInv, NEW p \in Proc, Register(p)
    PROVE  Registers(p)
  <1>1. /\ rows \in [Proc -> Row] /\ watchers \in [Proc -> Watcher]
        /\ reg \in [Proc -> {"none", "probed", "done"}]
    BY PassParts DEF IInv, TypeOK
  <1>2. PICK generation :
          /\ reg[p] = "probed" /\ reg' = [reg EXCEPT ![p] = "done"]
          /\ watchers' = [watchers EXCEPT ![p] = NewWatcher(now)]
          /\ rows' = [rows EXCEPT ![p] = RegisterRow(rows[p], ProcessWorkRow(generation, now))]
    BY DEF Register
  <1>3. rows[p] = NoRow
    BY <1>2 DEF IInv, RegisteredInv, LedgerInv
  <1>4. rows'[p] = ProcessWorkRow(generation, now)
    BY <1>1, <1>2, <1>3 DEF RegisterRow, NoRow
  <1>5. /\ IsOpen(rows'[p]) /\ rows'[p].lastAlive = now
        /\ rows'[p].deadlineAt = now + WatchMax
    BY <1>4 DEF ProcessWorkRow, NoRow, IsOpen
  <1>6. reg[p] = "probed" /\ reg'[p] = "done" /\ watchers'[p] = NewWatcher(now)
    BY <1>1, <1>2
  <1> QED BY <1>5, <1>6 DEF Registers

\* A teardown is tame.
LEMMA StopRunningIsTame ==
    ASSUME TypeOK, NEW deliver \in BOOLEAN, NEW t \in Nat, StopRunning(deliver, t), NEW p \in Proc
    PROVE  Tame(rows[p], rows'[p])
  <1>1. "process_stopped" \in WorkReason /\ rows[p] \in Row
    BY PassParts DEF WorkReason
  <1>2. /\ Tame(rows[p], rows[p])
        /\ Tame(rows[p], Terminalize(rows[p], "process_stopped", t))
        /\ Tame(rows[p], MarkDelivered(Terminalize(rows[p], "process_stopped", t)))
    BY <1>1, StatementsAreTame
  <1>3. \/ rows'[p] = rows[p]
        \/ rows'[p] = Terminalize(rows[p], "process_stopped", t)
        \/ rows'[p] = MarkDelivered(Terminalize(rows[p], "process_stopped", t))
    BY StopRunningRows
  <1> QED BY <1>2, <1>3

\* The clock, the container and the tools treat every row tamely, save the one
\* they register.
LEMMA CallsTame ==
    ASSUME IInv, Tick \/ Environment \/ Calls, NEW p \in Proc
    PROVE  Tame(rows[p], rows'[p]) \/ Registers(p)
  <1> USE DEF storeVars, envVars, callVars, history
  <1>1. /\ TypeOK /\ rows \in [Proc -> Row] /\ now \in Nat
        /\ reg \in [Proc -> {"none", "probed", "done"}]
    BY PassParts DEF IInv, TypeOK
  <1>2. \A q \in Proc : Tame(rows[q], rows[q])
    BY <1>1 DEF Tame, Row
  <1>3. ASSUME NEW q \in Proc, NEW new, Tame(rows[q], new),
               rows' = [rows EXCEPT ![q] = new]
        PROVE  Tame(rows[p], rows'[p])
    BY <1>1, <1>2, <1>3
  <1>4. CASE \/ Tick \/ Wipe \/ Vanish \/ ShutdownCall
             \/ \E q \in Proc : \/ ProcExit(q) \/ BackgroundProbe(q) \/ ReadOutput(q)
                                \/ PushReceive(q) \/ StopCall(q)
    <2>1. UNCHANGED rows
      BY <1>4 DEF Tick, Wipe, Vanish, LoseContainer, ShutdownCall, ProcExit,
         BackgroundProbe, ReadOutput, PushReceive, StopCall
    <2> QED BY <1>2, <2>1
  <1>8. CASE Acquire
    <2>1. UNCHANGED rows \/ StopRunning(TRUE, now)
      BY <1>8 DEF Acquire, DropBackup
    <2> QED BY <1>1, <1>2, <2>1, StopRunningIsTame
  <1>5. ASSUME NEW q \in Proc, PushApply(q) \/ StopApply(q)
        PROVE  Tame(rows[p], rows'[p])
    <2>1. "process_exit" \in WorkReason /\ "process_stopped" \in WorkReason
      BY DEF WorkReason
    <2>2. PICK reason \in WorkReason :
            rows' \in { rows,
                        [rows EXCEPT ![q] = Terminalize(rows[q], reason, now)],
                        [rows EXCEPT ![q] = MarkDelivered(Terminalize(rows[q], reason, now))] }
      <3>1. CASE PushApply(q)
        BY <2>1, <3>1 DEF PushApply
      <3>2. CASE StopApply(q)
        <4>1. rows' = [rows EXCEPT ![q] = StoppedRow(rows[q])]
          BY <3>2 DEF StopApply
        <4>2. CASE IsOpen(rows[q])
          BY <2>1, <4>1, <4>2 DEF StoppedRow
        <4>3. CASE ~IsOpen(rows[q])
          BY <1>1, <2>1, <4>1, <4>3 DEF StoppedRow
        <4> QED BY <4>2, <4>3
      <3> QED BY <1>5, <3>1, <3>2
    <2>3. rows[q] \in Row
      BY <1>1
    <2>4. /\ Tame(rows[q], Terminalize(rows[q], reason, now))
          /\ Tame(rows[q], MarkDelivered(Terminalize(rows[q], reason, now)))
      BY <1>1, <2>3, StatementsAreTame
    <2> QED BY <1>2, <1>3, <2>2, <2>4
  <1>6. CASE ShutdownApply \/ \E q \in Proc : ReadOutputOfMissing(q)
    <2>1. StopRunning(TRUE, now)
      BY <1>6 DEF ShutdownApply, ReadOutputOfMissing, TearDown
    <2> QED BY <1>1, <2>1, StopRunningIsTame
  <1>7. ASSUME NEW q \in Proc, Register(q)
        PROVE  Tame(rows[p], rows'[p]) \/ Registers(p)
    <2>1. CASE p = q
      BY <1>7, <2>1, RegisterRegisters
    <2>2. CASE p # q
      <3>1. \E row : rows' = [rows EXCEPT ![q] = row]
        BY <1>7 DEF Register
      <3> QED BY <1>1, <1>2, <2>2, <3>1
    <2> QED BY <2>1, <2>2
  <1> QED BY <1>4, <1>5, <1>6, <1>7, <1>8 DEF Environment, Calls

\* The steps of a pass, and a restart, treat every row tamely.
LEMMA PassTame ==
    ASSUME IInv, PassStep \/ Crash, NEW q \in Proc
    PROVE  Tame(rows[q], rows'[q])
  <1> USE DEF storeVars, envVars, callVars, history
  <1>1. /\ TypeOK /\ rows \in [Proc -> Row] /\ now \in Nat /\ pass.at \in Nat
        /\ pass.closing \in [Proc -> WorkReason \cup {"none"}]
    BY PassParts DEF IInv
  <1>2. \A p \in Proc : Tame(rows[p], rows[p])
    BY <1>1 DEF Tame, Row
  <1>3. ASSUME NEW p \in Proc, NEW new, Tame(rows[p], new),
               rows' = [rows EXCEPT ![p] = new]
        PROVE  Tame(rows[q], rows'[q])
    BY <1>1, <1>2, <1>3
  <1>4. CASE \/ ResolveFails \/ TickAbsent \/ TickStart \/ QuotaFails \/ PollStart
             \/ EnsureFails \/ EnsureRuntime \/ PollFails \/ OutputFails
             \/ TickArms \/ TickEndsUnarmed
             \/ ReleaseCheck \/ ReleaseBlocked \/ ReleaseStart \/ ReleaseFails \/ SweepStart
             \/ Crash \/ \E p \in Proc : PollRead(p) \/ SweepLate(p) \/ SweepKeepsOwed(p)
    <2>1. UNCHANGED rows
      BY <1>4, Zenon DEF ResolveFails, TickAbsent, TickStart, QuotaFails, PollStart,
           EnsureFails, EnsureRuntime, PollFails, OutputFails, TickArms, TickEndsUnarmed,
           ReleaseCheck, ReleaseBlocked, ReleaseStart, ReleaseFails, SweepStart, Crash,
           PollRead, SweepLate, SweepKeepsOwed
    <2> QED BY <1>2, <2>1
  <1>5. CASE TickExpired \/ ReleasePreserves \/ ReleaseDiscards \/ OutputOfMissing
    <2>1. \E deliver \in BOOLEAN, t \in {now, pass.at} : StopRunning(deliver, t)
      BY <1>5 DEF TickExpired, DropBackup, ReleasePreserves, ReleaseDiscards, OutputOfMissing,
         TearDown
    <2> QED BY <1>1, <2>1, StopRunningIsTame
  <1>6. CASE PollRunning \/ PollTimeout \/ PollExited
    <2> DEFINE p == pass.cur
               over(reason) == Terminalize(Stamped(p), reason, pass.at)
    <2>1. pass.cur \in Proc
      BY <1>6 DEF IInv, PollInv, PollRunning, PollTimeout, PollExited
    <2>2. \A reason \in WorkReason :
            /\ Tame(rows[p], Stamped(p)) /\ Tame(rows[p], over(reason))
            /\ Tame(rows[p], MarkDelivered(over(reason)))
      BY <1>1, <2>1, StatementsAreTame DEF Stamped
    <2>3. PICK reason \in WorkReason :
            rows' \in { [rows EXCEPT ![p] = Stamped(p)], [rows EXCEPT ![p] = over(reason)],
                        [rows EXCEPT ![p] = MarkDelivered(over(reason))] }
      <3>1. "watch_timeout" \in WorkReason /\ "process_exit" \in WorkReason
        BY DEF WorkReason
      <3>2. CASE PollRunning
        BY <3>1, <3>2 DEF PollRunning
      <3>3. CASE PollTimeout
        BY <3>1, <3>3 DEF PollTimeout
      <3>4. CASE PollExited
        BY <3>1, <3>4 DEF PollExited
      <3> QED BY <1>6, <3>2, <3>3, <3>4
    <2> HIDE DEF over
    <2> QED BY <1>3, <2>1, <2>2, <2>3
  <1>7. CASE OutputRead
    <2>1. pass.cur \in Proc
      BY <1>7 DEF IInv, PollInv, OutputRead
    <2>2. Tame(rows[pass.cur], MarkDelivered(rows[pass.cur]))
      BY <1>1, <2>1, StatementsAreTame DEF WorkReason
    <2>3. rows' \in {rows, [rows EXCEPT ![pass.cur] = MarkDelivered(rows[pass.cur])]}
      BY <1>7 DEF OutputRead
    <2> QED BY <1>2, <1>3, <2>1, <2>2, <2>3
  <1>8. ASSUME NEW p \in Proc, SweepCloses(p) \/ SweepClosesUntold(p)
        PROVE  Tame(rows[q], rows'[q])
    <2>1. PICK reason \in WorkReason : reason = pass.closing[p]
      BY <1>1, <1>8 DEF SweepCloses, SweepClosesUntold, ToClose
    <2>2. rows[p] \in Row
      BY <1>1
    <2>3. /\ Tame(rows[p], Terminalize(rows[p], reason, pass.at))
          /\ Tame(rows[p], MarkDelivered(Terminalize(rows[p], reason, pass.at)))
      BY <1>1, <2>2, StatementsAreTame
    <2>4. rows' \in { [rows EXCEPT ![p] = Terminalize(rows[p], reason, pass.at)],
                      [rows EXCEPT ![p] = MarkDelivered(Terminalize(rows[p], reason, pass.at))] }
      BY <1>8, <2>1 DEF SweepCloses, SweepClosesUntold
    <2> QED BY <1>3, <2>3, <2>4
  <1>9. ASSUME NEW p \in Proc, SweepRetries(p) PROVE Tame(rows[q], rows'[q])
    <2>1. rows' = [rows EXCEPT ![p] = MarkDelivered(rows[p])] /\ rows[p] \in Row
      BY <1>1, <1>9 DEF SweepRetries
    <2>2. Tame(rows[p], MarkDelivered(rows[p]))
      BY <1>1, <2>1, StatementsAreTame DEF WorkReason
    <2> QED BY <1>3, <2>1, <2>2
  <1>10. CASE PassEnds
    <2>1. rows'[q] = Kept(q)
      BY <1>10 DEF PassEnds
    <2> QED BY <1>1, <1>2, <2>1, PruneIsTame DEF Kept
  <1> QED BY <1>4, <1>5, <1>6, <1>7, <1>8, <1>9, <1>10 DEF PassStep

-------------------------------------------------------------------------------
(* What a step does to the cover.                                          *)

\* A step that leaves the alarm alone and treats every row tamely.
LEMMA TameStep ==
    ASSUME TypeOK, rows' \in [Proc -> Row], Covered, UNCHANGED alarm,
           \A p \in Proc : Tame(rows[p], rows'[p])
    PROVE  Covered'
  <1> SUFFICES ASSUME NEW p \in Proc PROVE RowCovered(rows'[p], alarm')
    BY DEF Covered
  <1>1. rows[p] \in Row /\ rows'[p] \in Row /\ alarm \in Nat \cup {None}
    BY PassParts
  <1>2. RowCovered(rows[p], alarm) /\ Tame(rows[p], rows'[p])
    BY DEF Covered
  <1> QED BY <1>1, <1>2, TameKeepsCover

\* Whoever arms covers the whole ledger, whatever was covered before.
LEMMA ArmCovers ==
    ASSUME TypeOK, rows' \in [Proc -> Row], watchers' \in [Proc -> Watcher],
           NEW times \in SUBSET Nat,
           \/ alarm' = Soonest(ArmTimes(times))
           \/ ArmTimes(times) = {} /\ UNCHANGED alarm
    PROVE  Covered'
  <1> SUFFICES ASSUME NEW p \in Proc PROVE RowCovered(rows'[p], alarm')
    BY DEF Covered
  <1>1. now \in Nat /\ ArmTimes(times) \in SUBSET Nat
    BY ArmTimesType DEF TypeOK
  <1>2. WorkHorizonTimes(rows', now) \subseteq ArmTimes(times)
    BY DEF ArmTimes
  <1>3. RowCovered(rows'[p], Soonest(ArmTimes(times)))
    BY <1>1, <1>2, HorizonCovers
  <1>4. ASSUME ArmTimes(times) = {} PROVE ~IsOpen(rows'[p]) /\ ~IsOwed(rows'[p])
    <2>1. Soonest(ArmTimes(times)) = None
      BY <1>4 DEF Soonest
    <2> QED BY <1>3, <2>1 DEF RowCovered
  <1> QED BY <1>3, <1>4 DEF RowCovered

\* The fallback at the end of a pass: it covers what is left, unless the tick
\* armed, and the schedule row that fired goes only when nothing is left.
LEMMA PassEndCovers ==
    ASSUME IInv, rows' \in [Proc -> Row], PassEnds, (Covered /\ ArmedInv) \/ ~pass.armed
    PROVE  Covered'
  <1>1. /\ rows \in [Proc -> Row] /\ watchers \in [Proc -> Watcher] /\ now \in Nat
        /\ alarm \in Nat \cup {None} /\ TypeOK
    BY PassParts DEF IInv
  <1>2. \A p \in Proc : Tame(rows[p], rows'[p])
    <2>1. \A p \in Proc : rows'[p] = Kept(p)
      BY DEF PassEnds
    <2>2. \A p \in Proc : Tame(rows[p], rows[p])
      BY <1>1 DEF Tame, Row
    <2> QED BY <1>1, <2>1, <2>2, PruneIsTame DEF Kept
  <1>3. CASE pass.armed
    <2>1. Covered /\ ~pass.spent
      BY <1>3 DEF ArmedInv
    <2>2. UNCHANGED alarm
      BY <1>3, <2>1 DEF PassEnds, AlarmAfter
    <2> QED BY <1>1, <1>2, <2>1, <2>2, TameStep
  <1>4. CASE ~pass.armed
    <2>1. FallbackTimes \in SUBSET Nat
      <3>1. WorkHorizonTimes(rows, now) \subseteq Nat
        BY <1>1, WorkHorizonType
      <3>2. WatcherFloor \subseteq Nat
        <4> DEFINE polls == {watchers[p].nextPollAt : p \in Watched}
        <4>1. polls \subseteq Nat
          BY <1>1 DEF Watched, Watcher
        <4>2. Watched # {} => polls # {}
          OBVIOUS
        <4> HIDE DEF polls
        <4>3. Watched # {} => Soonest(polls) \in Nat
          BY <4>1, <4>2, SoonestIsLeast
        <4>4. \/ WatcherFloor = {}
              \/ Watched # {} /\ WatcherFloor \in {{now + Poll}, {Soonest(polls)}}
          BY DEF WatcherFloor, polls
        <4> QED BY <1>1, <4>3, <4>4, WorkAssumption
      <3> QED BY <3>1, <3>2 DEF FallbackTimes
    <2>2. WorkHorizonTimes(rows, now) \subseteq FallbackTimes
      BY DEF FallbackTimes
    <2>3. \A p \in Proc : RowCovered(rows[p], Soonest(FallbackTimes))
      BY <1>1, <2>1, <2>2, HorizonCovers
    <2>4. Soonest(FallbackTimes) \in Nat \cup {None}
      BY <2>1, SoonestType
    <2>5. \A p \in Proc : RowCovered(rows'[p], Soonest(FallbackTimes))
      BY <1>1, <1>2, <2>3, <2>4, TameKeepsCover
    <2>6. CASE FallbackTimes # {}
      BY <1>4, <2>5, <2>6 DEF PassEnds, AlarmAfter, Covered
    <2>7. CASE FallbackTimes = {}
      <3>1. Soonest(FallbackTimes) = None
        BY <2>7 DEF Soonest
      <3> QED BY <2>5, <3>1 DEF Covered, RowCovered
    <2> QED BY <2>6, <2>7
  <1> QED BY <1>3, <1>4

\* The steps that end in a teardown: exec_shutdown, and the two reads that find
\* the environment missing.
TearsDown ==
    \/ ShutdownApply \/ OutputOfMissing
    \/ \E p \in Proc : ReadOutputOfMissing(p)

\* The clock, the container and the tools: tame, an arm, or a teardown.
LEMMA CallsCover ==
    ASSUME IInv, TypeOK', Covered, Tick \/ Environment \/ Calls
    PROVE  Covered' \/ TearsDown
  <1> USE DEF storeVars, envVars, callVars, history
  <1>1. /\ TypeOK /\ now \in Nat /\ reg \in [Proc -> {"none", "probed", "done"}]
        /\ rows' \in [Proc -> Row] /\ watchers' \in [Proc -> Watcher]
    BY PassParts DEF IInv, TypeOK
  <1>2. CASE Acquire \/ \E p \in Proc : Register(p)
    <2>1. {now + IdleTimeout} \in SUBSET Nat
      BY <1>1, WorkAssumption
    <2>2. Arm({now + IdleTimeout})
      BY <1>2 DEF Acquire, Register
    <2> QED BY <1>1, <2>1, <2>2, ArmCovers DEF Arm
  <1>3. CASE ShutdownApply \/ \E p \in Proc : ReadOutputOfMissing(p)
    BY <1>3 DEF TearsDown
  <1>4. ASSUME UNCHANGED alarm, \A p \in Proc : reg'[p] = "done" => reg[p] = "done"
        PROVE  Covered'
    <2>1. \A p \in Proc : Tame(rows[p], rows'[p])
      BY <1>4, CallsTame DEF Registers
    <2> QED BY <1>1, <1>4, <2>1, TameStep
  <1>5. CASE \/ Tick \/ Environment \/ ShutdownCall
             \/ \E p \in Proc : \/ BackgroundProbe(p) \/ ReadOutput(p) \/ PushReceive(p)
                                \/ PushApply(p) \/ StopCall(p) \/ StopApply(p)
    <2>1. UNCHANGED alarm
      BY <1>5 DEF Tick, Environment, Wipe, Vanish, LoseContainer, ProcExit, ShutdownCall,
         BackgroundProbe, ReadOutput, PushReceive, PushApply, StopCall, StopApply
    <2>2. \/ reg' = reg
          \/ \E p \in Proc : reg' = [reg EXCEPT ![p] = "probed"]
      BY <1>5 DEF Tick, Environment, Wipe, Vanish, LoseContainer, ProcExit, ShutdownCall,
         BackgroundProbe, ReadOutput, PushReceive, PushApply, StopCall, StopApply
    <2> QED BY <1>1, <1>4, <2>1, <2>2
  <1> QED BY <1>2, <1>3, <1>5 DEF Calls

\* The steps of a pass, and a restart: tame, an arm, the fallback, or a teardown.
LEMMA PassCovers ==
    ASSUME IInv, TypeOK', ArmedInv, Covered, PassStep \/ Crash
    PROVE  Covered' \/ TearsDown
  <1> USE DEF storeVars, envVars, callVars, history
  <1>1. /\ TypeOK /\ rows \in [Proc -> Row] /\ now \in Nat
        /\ rows' \in [Proc -> Row] /\ watchers' \in [Proc -> Watcher]
    BY PassParts DEF IInv, TypeOK
  <1>2. ASSUME UNCHANGED alarm PROVE Covered'
    BY <1>1, <1>2, PassTame, TameStep
  <1>3. ASSUME NEW times \in SUBSET Nat, NEW p, ArmInTick(times, p) PROVE Covered'
    BY <1>1, <1>3, ArmCovers DEF ArmInTick, Arm
  <1>4. CASE \/ ResolveFails \/ TickStart \/ QuotaFails \/ PollStart \/ EnsureFails
             \/ PollRunning \/ PollFails \/ PollTimeout \/ PollExited \/ OutputFails
             \/ OutputRead \/ TickEndsUnarmed
             \/ ReleaseCheck \/ ReleaseStart \/ ReleaseDiscards \/ SweepStart \/ Crash
             \/ \E p \in Proc : \/ PollRead(p) \/ SweepCloses(p) \/ SweepClosesUntold(p)
                                \/ SweepLate(p) \/ SweepRetries(p) \/ SweepKeepsOwed(p)
    <2>1. UNCHANGED alarm
      BY <1>4, Zenon DEF ResolveFails, TickStart, QuotaFails, PollStart, EnsureFails,
           PollRunning, PollFails, PollTimeout, PollExited, OutputFails, OutputRead,
           TickEndsUnarmed, ReleaseCheck, ReleaseStart, ReleaseDiscards, SweepStart, Crash,
           PollRead, SweepCloses, SweepClosesUntold, SweepLate, SweepRetries, SweepKeepsOwed
    <2> QED BY <1>2, <2>1
  <1>5. CASE TickAbsent \/ TickArms \/ ReleaseBlocked \/ ReleaseFails
    <2>1. /\ {now + IdleTimeout} \in SUBSET Nat /\ {pass.at + IdleTimeout} \in SUBSET Nat
          /\ {} \in SUBSET Nat
      BY <1>1, PassParts, WorkAssumption
    <2>2. \E times \in {{}, {now + IdleTimeout}, {pass.at + IdleTimeout}} :
            \E p : ArmInTick(times, p)
      BY <1>5 DEF TickAbsent, TickArms, ReleaseBlocked, ReleaseFails
    <2> QED BY <1>3, <2>1, <2>2
  <1>6. CASE EnsureRuntime
    <2>1. {now + IdleTimeout} \in SUBSET Nat
      BY <1>1, WorkAssumption
    <2>2. UNCHANGED alarm \/ \E p : ArmInTick({now + IdleTimeout}, p)
      BY <1>6 DEF EnsureRuntime
    <2> QED BY <1>2, <1>3, <2>1, <2>2
  <1>7. CASE ReleasePreserves
    <2>1. SweepTimes(rows) \in SUBSET Nat /\ pass.at + RecoveryTtl \in Nat
      BY <1>1, PassParts, LedgerAssumption, WorkAssumption DEF SweepTimes, Row
    <2>2. PICK settled \in BOOLEAN :
            \E p : ArmInTick({pass.at + RecoveryTtl}
                               \cup (IF settled THEN SweepTimes(rows) ELSE {}), p)
      BY <1>7 DEF ReleasePreserves
    <2>3. ({pass.at + RecoveryTtl} \cup (IF settled THEN SweepTimes(rows) ELSE {})) \in SUBSET Nat
      BY <2>1
    <2> QED BY <1>3, <2>2, <2>3
  <1>8. CASE TickExpired
    <2>1. alarm' = Soonest(ArmTimes({})) /\ {} \in SUBSET Nat
      BY <1>8 DEF TickExpired
    <2> QED BY <1>1, <2>1, ArmCovers
  <1>9. CASE OutputOfMissing
    BY <1>9 DEF TearsDown
  <1>10. CASE PassEnds
    BY <1>1, <1>10, PassEndCovers
  <1> QED BY <1>4, <1>5, <1>6, <1>7, <1>8, <1>9, <1>10 DEF PassStep

\* An arm in the tick, on a record that is a pass.
LEMMA ArmInTickMarks ==
    ASSUME NEW p \in Pass, NEW times, ArmInTick(times, p), p.armed => ~p.spent
    PROVE  pass'.armed => ~pass'.spent
  BY DEF ArmInTick, Pass

LEMMA ArmedStep ==
    ASSUME IInv, ArmedInv, Next
    PROVE  ArmedInv'
  <1> USE DEF storeVars, envVars, callVars, history
  <1> SUFFICES pass'.armed => ~pass'.spent
    BY DEF ArmedInv
  <1>1. TypeOK /\ pass \in Pass /\ (pass.armed => ~pass.spent)
    BY PassParts DEF IInv, ArmedInv
  <1>2. ASSUME NEW pc \in PassPc
        PROVE  LET p == [pass EXCEPT !.pc = pc] IN p \in Pass /\ (p.armed => ~p.spent)
    BY <1>1, <1>2 DEF Pass
  <1>3. \A pc \in PassPc, svc \in BOOLEAN, live \in BOOLEAN :
          Fired(pc, svc, live) \in Pass /\ ~Fired(pc, svc, live).armed
    BY <1>1, FiredType DEF Fired, IdlePass
  <1>4. {"quota", "poll", "sweepstart", "release"} \subseteq PassPc
    BY DEF PassPc
  <1>5. CASE Tick \/ Environment \/ Calls
    <2>1. pass' = pass \/ pass' = [pass EXCEPT !.spent = FALSE]
      BY <1>5 DEF Environment, Calls, Tick, Wipe, Vanish, LoseContainer, ProcExit, Acquire,
         ShutdownCall, ShutdownApply, BackgroundProbe, Register, ReadOutput,
         ReadOutputOfMissing, PushReceive, PushApply, StopCall, StopApply, Replaces
    <2> QED BY <1>1, <2>1 DEF Pass
  <1>6. CASE ResolveFails \/ TickStart
    BY <1>3, <1>4, <1>6 DEF ResolveFails, TickStart
  <1>7. CASE TickAbsent
    <2>1. ArmInTick({}, Fired("sweepstart", TRUE, FALSE))
      BY <1>7 DEF TickAbsent
    <2> QED BY <1>3, <1>4, <2>1, ArmInTickMarks
  <1>8. CASE TickExpired
    <2>1. PICK b \in BOOLEAN :
            pass' = [Fired("sweepstart", TRUE, FALSE) EXCEPT !.spent = FALSE, !.armed = b]
      BY <1>8 DEF TickExpired
    <2> QED BY <1>3, <1>4, <2>1 DEF Pass
  <1>9. CASE QuotaFails \/ TickEndsUnarmed \/ ReleaseCheck \/ ReleaseStart \/ ReleaseDiscards
    BY <1>1, <1>9
       DEF QuotaFails, TickEndsUnarmed, ReleaseCheck, ReleaseStart, ReleaseDiscards, Pass
  <1>10. CASE PollStart \/ EnsureFails \/ PollExited \/ SweepStart
    BY <1>1, <1>10 DEF PollStart, EnsureFails, PollExited, SweepStart, Pass
  <1>11. ASSUME NEW pc \in {"poll", "sweepstart"}, NEW times,
                ArmInTick(times, [pass EXCEPT !.pc = pc])
         PROVE  pass'.armed => ~pass'.spent
    BY <1>2, <1>4, <1>11, ArmInTickMarks
  <1>12. CASE EnsureRuntime \/ TickArms \/ ReleaseBlocked \/ ReleasePreserves \/ ReleaseFails
    <2>1. \/ pass' = [pass EXCEPT !.pc = "poll"]
          \/ \E pc \in {"poll", "sweepstart"} : \E times :
               ArmInTick(times, [pass EXCEPT !.pc = pc])
      BY <1>12 DEF EnsureRuntime, TickArms, ReleaseBlocked, ReleasePreserves, ReleaseFails
    <2> QED BY <1>1, <1>11, <2>1 DEF Pass
  <1>13. CASE PollRunning \/ PollFails \/ PollTimeout \/ OutputFails \/ OutputRead
    <2>1. \/ pass' = PollNext(pass.cur)
          \/ pass' = [PollNext(pass.cur) EXCEPT !.probed = TRUE]
      BY <1>13 DEF PollRunning, PollFails, PollTimeout, OutputFails, OutputRead, PollCatch
    <2>2. /\ PollNext(pass.cur).armed = pass.armed
          /\ PollNext(pass.cur).spent = pass.spent
      BY <1>1 DEF PollNext, Pass
    <2>3. pass'.armed = pass.armed /\ pass'.spent = pass.spent
      <3>1. CASE pass' = PollNext(pass.cur)
        BY <2>2, <3>1
      <3>2. CASE pass' = [PollNext(pass.cur) EXCEPT !.probed = TRUE]
        BY <1>1, <3>2 DEF PollNext, Pass
      <3> QED BY <2>1, <3>1, <3>2
    <2> QED BY <1>1, <2>3
  <1>14. CASE OutputOfMissing
    BY <1>1, <1>14 DEF OutputOfMissing, Replaces, Pass
  <1>15. CASE PassEnds \/ Crash
    BY <1>15 DEF PassEnds, Crash, IdlePass
  <1>16. ASSUME NEW p \in Proc,
                \/ PollRead(p) \/ SweepCloses(p) \/ SweepClosesUntold(p) \/ SweepLate(p)
                \/ SweepRetries(p) \/ SweepKeepsOwed(p)
         PROVE  pass'.armed => ~pass'.spent
    <2>1. \/ \E seen : pass' = [pass EXCEPT !.pc = "apply", !.cur = p, !.seen = seen]
          \/ pass' = Classified(p) \/ pass' = Retried(p)
      BY <1>16, Zenon DEF PollRead, SweepCloses, SweepClosesUntold, SweepLate, SweepRetries,
         SweepKeepsOwed
    <2> QED BY <1>1, <2>1 DEF Classified, Retried, Pass
  <1> QED
    BY <1>5, <1>6, <1>7, <1>8, <1>9, <1>10, <1>12, <1>13, <1>14, <1>15, <1>16
    DEF Next, PassStep

LEMMA ArmedInvariant == Spec => []ArmedInv
  <1>1. Init => ArmedInv
    BY DEF Init, ArmedInv, IdlePass
  <1>2. IInv /\ ArmedInv /\ [Next]_vars => ArmedInv'
    <2>1. ASSUME IInv, ArmedInv, UNCHANGED vars PROVE ArmedInv'
      BY <2>1 DEF vars, ArmedInv
    <2> QED BY <2>1, ArmedStep
  <1> QED BY <1>1, <1>2, Invariant, PTL DEF Spec

-------------------------------------------------------------------------------
(* For any thread.                                                         *)

\* Only a teardown (markRuntimeMissing, the end of execShutdown) takes away a wake
\* that a row needs: no registration, poll, callback, stop, sweep, release, expiry,
\* end of a pass or restart leaves an open row with an alarm that fires too late,
\* or an owed message with none.
OnlyTeardownUncovers == [][Covered => Covered' \/ TearsDown]_vars

THEOREM TeardownAloneUncovers == Spec => OnlyTeardownUncovers
  <1>1. IInv /\ ArmedInv /\ [Next]_vars => [Covered => Covered' \/ TearsDown]_vars
    <2> SUFFICES ASSUME IInv, ArmedInv, Next, Covered PROVE Covered' \/ TearsDown
      OBVIOUS
    <2>1. TypeOK'
      BY NextType
    <2> QED BY <2>1, CallsCover, PassCovers DEF Next
  <1> QED BY <1>1, Invariant, ArmedInvariant, PTL DEF Spec, OnlyTeardownUncovers

\* The next arm repairs it, whoever makes it (armAlarm folds the whole ledger), and
\* so does the fallback of a pass whose tick did not arm.
ArmsRepair ==
    [][/\ \A times \in SUBSET Nat : Arm(times) => Covered'
       /\ PassEnds /\ ~pass.armed => Covered']_vars

THEOREM ArmsAndFallbackRepair == Spec => ArmsRepair
  <1>1. IInv /\ [Next]_vars =>
          [/\ \A times \in SUBSET Nat : Arm(times) => Covered'
           /\ PassEnds /\ ~pass.armed => Covered']_vars
    <2> SUFFICES ASSUME IInv, Next
                 PROVE  /\ \A times \in SUBSET Nat : Arm(times) => Covered'
                        /\ PassEnds /\ ~pass.armed => Covered'
      OBVIOUS
    <2>1. TypeOK /\ rows' \in [Proc -> Row] /\ watchers' \in [Proc -> Watcher]
      BY NextType DEF IInv, TypeOK
    <2>2. ASSUME NEW times \in SUBSET Nat, Arm(times) PROVE Covered'
      BY <2>1, <2>2, ArmCovers DEF Arm
    <2>3. ASSUME PassEnds, ~pass.armed PROVE Covered'
      BY <2>1, <2>3, PassEndCovers
    <2> QED BY <2>2, <2>3
  <1> QED BY <1>1, Invariant, PTL DEF Spec, ArmsRepair

-------------------------------------------------------------------------------
(* A thread whose environment is not shut down and does not vanish.        *)

\* Both alone break what follows: a teardown cancels the alarm whatever the
\* ledger holds, and a watcher registered after it is never polled.
NoTeardown == Scope \cap {"shutdown", "vanish"} = {}

Polling == {"ensure", "poll", "apply", "output"}

\* The environment and the pass agree: a tick polls, and decides to release, a live
\* environment, and only the pass releases.
EnvInv ==
    /\ ~shut
    /\ compute \in {"active", "releasing"} => nonce # None
    /\ pass.pc = "release" <=> compute = "releasing"
    /\ pass.pc \in Polling \cup {"quota", "disposing"} => compute = "active"

\* What the clock, the container and the tools leave alone in the pass.
LEMMA CallsLeavePass ==
    ASSUME pass \in Pass, Tick \/ Environment \/ Calls
    PROVE  /\ pass'.pc = pass.pc /\ pass'.start = pass.start /\ pass'.at = pass.at
           /\ pass'.svc = pass.svc /\ pass'.due = pass.due /\ pass'.armed = pass.armed
           /\ pass'.closing = pass.closing /\ pass'.cur = pass.cur /\ pass'.live = pass.live
  <1> USE DEF storeVars, envVars, callVars, history
  <1>1. pass' = pass \/ pass' = [pass EXCEPT !.spent = FALSE]
    BY DEF Environment, Calls, Tick, Wipe, Vanish, LoseContainer, ProcExit, Acquire,
       ShutdownCall, ShutdownApply, BackgroundProbe, Register, ReadOutput,
       ReadOutputOfMissing, PushReceive, PushApply, StopCall, StopApply, Replaces
  <1> QED BY <1>1 DEF Pass

\* What the end of a poll leaves in the pass.
LEMMA PollNextFields ==
    ASSUME TypeOK, NEW p \in Proc,
           pass' = PollNext(p) \/ pass' = [PollNext(p) EXCEPT !.probed = TRUE]
    PROVE  /\ pass'.pc \in {"poll", "tickend"}
           /\ pass'.pc = "tickend" => \A q \in Proc : ~pass'.due[q].on
           /\ pass'.due = [pass.due EXCEPT ![p] = NoWatcher]
           /\ pass'.start = pass.start /\ pass'.at = pass.at /\ pass'.svc = pass.svc
           /\ pass'.armed = pass.armed /\ pass'.live = pass.live
  <1>1. pass \in Pass /\ pass.due \in [Proc -> Watcher]
    BY PassParts
  <1> DEFINE due == [pass.due EXCEPT ![p] = NoWatcher]
  <1>2. /\ PollNext(p).pc = IF \E q \in Proc : due[q].on THEN "poll" ELSE "tickend"
        /\ PollNext(p).due = due
        /\ PollNext(p).start = pass.start /\ PollNext(p).at = pass.at
        /\ PollNext(p).svc = pass.svc /\ PollNext(p).armed = pass.armed
        /\ PollNext(p).live = pass.live
    BY <1>1 DEF PollNext, Pass
  <1>3. /\ pass'.pc = PollNext(p).pc /\ pass'.due = PollNext(p).due
        /\ pass'.start = PollNext(p).start /\ pass'.at = PollNext(p).at
        /\ pass'.svc = PollNext(p).svc /\ pass'.armed = PollNext(p).armed
        /\ pass'.live = PollNext(p).live
    BY PollNextType DEF Pass
  <1> HIDE DEF due
  <1>4. pass'.due = due
    BY <1>2, <1>3
  <1>5. pass'.pc = "tickend" => \A q \in Proc : ~due[q].on
    BY <1>2, <1>3
  <1>6. pass'.pc \in {"poll", "tickend"}
    BY <1>2, <1>3
  <1> QED BY <1>2, <1>3, <1>4, <1>5, <1>6 DEF due

\* A record with another pc, and what an arm does to it.
LEMMA PassAt ==
    ASSUME pass \in Pass, NEW pc \in PassPc,
           \/ pass' = [pass EXCEPT !.pc = pc]
           \/ \E times : ArmInTick(times, [pass EXCEPT !.pc = pc])
    PROVE  /\ pass'.pc = pc /\ pass'.start = pass.start /\ pass'.at = pass.at
           /\ pass'.svc = pass.svc /\ pass'.due = pass.due /\ pass'.live = pass.live
           /\ pass' = [pass EXCEPT !.pc = pc] => pass'.armed = pass.armed
  BY DEF ArmInTick, Pass

\* What a read of the poll leaves.
LEMMA PollReadFields ==
    ASSUME pass \in Pass, NEW p \in Proc, PollRead(p)
    PROVE  /\ pass.pc = "poll" /\ pass'.pc = "apply"
           /\ pass.due[p].on /\ pass'.cur = p /\ pass'.due = pass.due
           /\ pass'.start = pass.start /\ pass'.at = pass.at /\ pass'.armed = pass.armed
           /\ pass'.closing = pass.closing /\ pass'.live = pass.live /\ pass'.svc = pass.svc
           /\ UNCHANGED <<rows, watchers, unread, shut, compute, nonce, reg>>
  <1> USE DEF storeVars, envVars, callVars, history
  <1>1. PICK seen : pass' = [pass EXCEPT !.pc = "apply", !.cur = p, !.seen = seen]
    BY DEF PollRead
  <1>2. /\ pass'.pc = "apply" /\ pass'.cur = p /\ pass'.due = pass.due
        /\ pass'.start = pass.start /\ pass'.at = pass.at /\ pass'.armed = pass.armed
        /\ pass'.closing = pass.closing /\ pass'.live = pass.live /\ pass'.svc = pass.svc
    BY <1>1 DEF Pass
  <1>3. /\ pass.pc = "poll" /\ pass.due[p].on
        /\ UNCHANGED <<rows, watchers, unread, shut, compute, nonce, reg>>
    BY DEF PollRead
  <1> QED BY <1>2, <1>3

\* How a pass begins.
LEMMA FiredFields ==
    ASSUME TypeOK, NEW pc \in PassPc, NEW svc \in BOOLEAN, NEW live \in BOOLEAN,
           \/ pass' = Fired(pc, svc, live)
           \/ \E b \in BOOLEAN : pass' = [Fired(pc, svc, live) EXCEPT !.spent = FALSE, !.armed = b]
    PROVE  /\ pass'.pc = pc /\ pass'.start = now /\ pass'.svc = svc /\ pass'.live = live
           /\ pass' = Fired(pc, svc, live) => ~pass'.armed
  <1>1. Fired(pc, svc, live) \in Pass
    BY FiredType
  <1>2. /\ Fired(pc, svc, live).pc = pc /\ Fired(pc, svc, live).start = now
        /\ Fired(pc, svc, live).svc = svc /\ Fired(pc, svc, live).live = live
        /\ ~Fired(pc, svc, live).armed
    BY DEF Fired, IdlePass
  <1> QED BY <1>1, <1>2 DEF Pass

\* A probe never leaves the container without a nonce.
LEMMA ProbeKeepsNonce ==
    ASSUME TypeOK, NEW fault, NEW t, NEW k, ProbeAndRecord(fault, t, k), nonce # None
    PROVE  nonce' # None
  <1>1. used.nonces + 1 \in Nat
    BY DEF TypeOK
  <1>2. used.nonces + 1 # None
    BY <1>1, LedgerAssumption
  <1> QED BY <1>2 DEF ProbeAndRecord

\* The clock, the container and the tools keep the environment as the pass has it.
LEMMA CallsEnv ==
    ASSUME NoTeardown, IInv, EnvInv, Tick \/ Environment \/ Calls
    PROVE  EnvInv'
  <1> USE DEF storeVars, envVars, callVars, history
  <1>1. TypeOK /\ pass \in Pass /\ used.nonces + 1 \in Nat
    BY PassParts DEF IInv, TypeOK
  <1>2. pass'.pc = pass.pc
    BY <1>1, CallsLeavePass
  <1>3. "shutdown" \notin Scope /\ "vanish" \notin Scope
    BY DEF NoTeardown
  <1>4. ~ShutdownCall /\ ~ShutdownApply /\ ~Vanish
    BY <1>3 DEF ShutdownCall, ShutdownApply, Vanish, EnvInv
  <1>5. ~\E p \in Proc : ReadOutputOfMissing(p)
    BY DEF ReadOutputOfMissing, EnvInv
  <1>6. ASSUME UNCHANGED <<shut, compute>>, nonce # None => nonce' # None
        PROVE  EnvInv'
    BY <1>2, <1>6 DEF EnvInv
  <1>7. CASE Wipe
    <2>1. UNCHANGED <<shut, compute>> /\ nonce' = 0
      BY <1>7 DEF Wipe, LoseContainer
    <2>2. nonce' # None
      BY <2>1, LedgerAssumption
    <2> QED BY <1>6, <2>1, <2>2
  <1>8. CASE Acquire
    <2>1. /\ compute \in {"absent", "recoverable"} /\ compute' = "active"
          /\ nonce' = used.nonces + 1 /\ UNCHANGED shut
      BY <1>8 DEF Acquire, AcquireRuntime
    <2>2. nonce' # None
      BY <1>1, <2>1, LedgerAssumption
    <2> QED BY <1>2, <2>1, <2>2 DEF EnvInv
  <1>9. ASSUME NEW p \in Proc, BackgroundProbe(p) PROVE EnvInv'
    <2>1. compute = "active" /\ UNCHANGED <<shut, compute>>
      BY <1>9 DEF BackgroundProbe
    <2>2. nonce # None
      BY <2>1 DEF EnvInv
    <2>3. nonce' # None
      BY <1>1, <1>9, <2>2, ProbeKeepsNonce DEF BackgroundProbe
    <2> QED BY <1>6, <2>1, <2>3
  <1>10. CASE Tick \/ \E p \in Proc : \/ Register(p) \/ ProcExit(p) \/ ReadOutput(p)
                                      \/ PushReceive(p) \/ PushApply(p)
                                      \/ StopCall(p) \/ StopApply(p)
    <2>1. UNCHANGED <<shut, compute, nonce>>
      BY <1>10 DEF Tick, Register, ProcExit, ReadOutput, PushReceive, PushApply, StopCall,
         StopApply
    <2> QED BY <1>6, <2>1
  <1> QED BY <1>4, <1>5, <1>7, <1>8, <1>9, <1>10 DEF Environment, Calls

\* So do the steps of a pass, which are the only ones to release, and a restart.
LEMMA PassEnv ==
    ASSUME IInv, EnvInv, PassStep \/ Crash
    PROVE  EnvInv'
  <1> USE DEF storeVars, envVars, callVars, history
  <1>1. /\ TypeOK /\ pass \in Pass
        /\ {"quota", "ensure", "poll", "apply", "output", "tickend", "disposing", "release",
            "sweepstart"} \subseteq PassPc
    BY PassParts DEF IInv, PassPc
  <1>2. ASSUME UNCHANGED <<shut, compute>>, nonce # None => nonce' # None,
               pass.pc # "release", pass'.pc # "release",
               pass'.pc \in Polling \cup {"quota", "disposing"} => compute = "active"
        PROVE  EnvInv'
    BY <1>2 DEF EnvInv
  <1>3. CASE ResolveFails \/ TickStart
    <2>1. PICK pc \in {"quota", "sweepstart"}, svc \in BOOLEAN, live \in BOOLEAN :
            pass' = Fired(pc, svc, live) /\ (pc = "quota" => compute = "active")
      BY <1>3 DEF ResolveFails, TickStart
    <2>2. pass'.pc = pc
      BY <1>1, <2>1, FiredFields
    <2>3. pass.pc = "idle" /\ UNCHANGED <<shut, compute, nonce>>
      BY <1>3 DEF ResolveFails, TickStart, Fires
    <2> QED BY <1>2, <2>1, <2>2, <2>3 DEF Polling
  <1>4. CASE TickAbsent
    <2>1. /\ pass.pc = "idle" /\ UNCHANGED <<shut, compute, nonce>>
          /\ ArmInTick({}, Fired("sweepstart", TRUE, FALSE))
      BY <1>4 DEF TickAbsent, Fires
    <2>2. \/ pass' = Fired("sweepstart", TRUE, FALSE)
          \/ pass' = [Fired("sweepstart", TRUE, FALSE) EXCEPT !.spent = FALSE, !.armed = TRUE]
      BY <2>1 DEF ArmInTick
    <2>3. pass'.pc = "sweepstart"
      BY <1>1, <2>2, FiredFields
    <2> QED BY <1>2, <2>1, <2>3 DEF Polling
  <1>5. CASE TickExpired
    <2>1. \E b \in BOOLEAN :
            pass' = [Fired("sweepstart", TRUE, FALSE) EXCEPT !.spent = FALSE, !.armed = b]
      BY <1>5 DEF TickExpired
    <2>2. pass'.pc = "sweepstart"
      BY <1>1, <2>1, FiredFields
    <2>3. compute' = "absent" /\ UNCHANGED shut
      BY <1>5 DEF TickExpired
    <2> QED BY <2>2, <2>3 DEF EnvInv, Polling
  <1>6. CASE QuotaFails \/ TickEndsUnarmed \/ TickArms \/ ReleaseBlocked
    <2>1. /\ pass.pc # "release" /\ UNCHANGED <<shut, compute, nonce>>
          /\ \/ pass' = [pass EXCEPT !.pc = "sweepstart"]
             \/ \E times : ArmInTick(times, [pass EXCEPT !.pc = "sweepstart"])
      BY <1>6 DEF QuotaFails, TickEndsUnarmed, TickArms, ReleaseBlocked
    <2>2. pass'.pc = "sweepstart"
      BY <1>1, <2>1, PassAt
    <2> QED BY <1>2, <2>1, <2>2 DEF Polling
  <1>7. CASE PollStart
    <2>1. /\ pass.pc = "quota" /\ UNCHANGED <<shut, compute, nonce>>
          /\ pass'.pc \in {"ensure", "tickend"}
      BY <1>1, <1>7 DEF PollStart, Pass
    <2>2. compute = "active"
      BY <2>1 DEF EnvInv
    <2> QED BY <1>2, <2>1, <2>2
  <1>8. CASE EnsureFails \/ PollExited \/ \E p \in Proc : PollRead(p)
    <2>1. /\ pass.pc \in Polling /\ UNCHANGED <<shut, compute, nonce>>
          /\ pass'.pc \in {"tickend", "output", "apply"}
      <3>1. CASE EnsureFails
        BY <1>1, <3>1 DEF EnsureFails, Pass, Polling
      <3>2. CASE PollExited
        BY <1>1, <3>2 DEF PollExited, Pass, Polling
      <3>3. CASE \E p \in Proc : PollRead(p)
        BY <1>1, <3>3, PollReadFields DEF Polling
      <3> QED BY <1>8, <3>1, <3>2, <3>3
    <2>2. compute = "active" /\ pass.pc # "release"
      BY <2>1 DEF EnvInv, Polling
    <2> QED BY <1>2, <2>1, <2>2
  <1>9. CASE EnsureRuntime
    <2>1. pass.pc = "ensure"
      BY <1>9 DEF EnsureRuntime
    <2>2. compute = "active"
      BY <2>1 DEF EnvInv, Polling
    <2>3. UNCHANGED <<shut, compute, nonce>> /\ pass' = [pass EXCEPT !.pc = "poll"]
      BY <1>9, <2>2 DEF EnsureRuntime, AcquireRuntime
    <2>4. pass'.pc = "poll"
      BY <1>1, <2>3, PassAt
    <2> QED BY <1>2, <2>1, <2>2, <2>3, <2>4
  <1>10. CASE PollRunning \/ PollFails \/ PollTimeout \/ OutputFails \/ OutputRead
    <2>1. pass.pc \in {"apply", "output"} /\ UNCHANGED <<shut, compute>>
      BY <1>10 DEF PollRunning, PollFails, PollTimeout, OutputFails, OutputRead
    <2>2. compute = "active" /\ nonce # None /\ pass.cur \in Proc
      BY <2>1 DEF EnvInv, Polling, IInv, PollInv
    <2>3. \/ pass' = PollNext(pass.cur)
          \/ pass' = [PollNext(pass.cur) EXCEPT !.probed = TRUE]
      BY <1>10 DEF PollRunning, PollFails, PollTimeout, OutputFails, OutputRead, PollCatch
    <2>4. pass'.pc \in {"poll", "tickend"}
      BY <1>1, <2>2, <2>3, PollNextFields
    <2>5. \/ UNCHANGED nonce
          \/ \E fault, k : ProbeAndRecord(fault, pass.at, k)
      BY <1>10 DEF PollRunning, PollFails, PollTimeout, OutputFails, OutputRead, PollCatch
    <2>6. nonce' # None
      BY <1>1, <2>2, <2>5, ProbeKeepsNonce
    <2> QED BY <1>2, <2>1, <2>2, <2>4, <2>6
  <1>11. CASE OutputOfMissing
    BY <1>11 DEF OutputOfMissing, EnvInv
  <1>12. CASE ReleaseCheck
    <2>1. /\ pass.pc = "tickend" /\ compute = "active" /\ UNCHANGED <<shut, compute, nonce>>
          /\ pass'.pc = "disposing"
      BY <1>1, <1>12 DEF ReleaseCheck, Pass
    <2> QED BY <1>2, <2>1
  <1>17. CASE ReleaseStart
    <2>1. /\ pass.pc = "disposing" /\ compute' = "releasing" /\ UNCHANGED <<shut, nonce>>
          /\ pass' = [pass EXCEPT !.pc = "release"]
      BY <1>17 DEF ReleaseStart
    <2>2. pass'.pc = "release"
      BY <1>1, <2>1, PassAt
    <2>3. nonce # None
      BY <2>1 DEF EnvInv
    <2> QED BY <2>1, <2>2, <2>3 DEF EnvInv, Polling
  <1>13. CASE ReleasePreserves \/ ReleaseDiscards \/ ReleaseFails
    <2>1. /\ pass.pc = "release" /\ UNCHANGED shut
          /\ \/ pass' = [pass EXCEPT !.pc = "sweepstart"]
             \/ \E times : ArmInTick(times, [pass EXCEPT !.pc = "sweepstart"])
      BY <1>13 DEF ReleasePreserves, ReleaseDiscards, ReleaseFails
    <2>2. pass'.pc = "sweepstart"
      BY <1>1, <2>1, PassAt
    <2>3. nonce # None
      BY <2>1 DEF EnvInv
    <2>4. \/ compute' \in {"recoverable", "absent"}
          \/ compute' = "active" /\ UNCHANGED nonce
      BY <1>13 DEF ReleasePreserves, ReleaseDiscards, ReleaseFails
    <2> QED BY <2>1, <2>2, <2>3, <2>4 DEF EnvInv, Polling
  <1>14. CASE SweepStart
    <2>1. /\ pass.pc = "sweepstart" /\ UNCHANGED <<shut, compute, nonce>>
          /\ pass'.pc \in {"rearm", "sweep"}
      BY <1>1, <1>14 DEF SweepStart, Pass
    <2> QED BY <1>2, <2>1 DEF Polling
  <1>15. ASSUME NEW p \in Proc,
                \/ SweepCloses(p) \/ SweepClosesUntold(p) \/ SweepLate(p)
                \/ SweepRetries(p) \/ SweepKeepsOwed(p)
         PROVE  EnvInv'
    <2>1. /\ pass.pc = "sweep" /\ UNCHANGED <<shut, compute, nonce>>
          /\ pass' = Classified(p) \/ pass' = Retried(p)
      BY <1>15 DEF SweepCloses, SweepClosesUntold, SweepLate, SweepRetries, SweepKeepsOwed
    <2>2. pass'.pc = "sweep"
      BY <1>1, <2>1 DEF Classified, Retried, Pass
    <2> QED BY <1>2, <2>1, <2>2 DEF Polling
  <1>16. CASE PassEnds \/ Crash
    <2>1. /\ pass.pc # "release" /\ UNCHANGED <<compute, nonce>>
          /\ pass' = IdlePass /\ (shut' = shut \/ ~shut')
      BY <1>16 DEF PassEnds, Crash
    <2>2. pass'.pc = "idle"
      BY <2>1 DEF IdlePass
    <2> QED BY <2>1, <2>2 DEF EnvInv, Polling
  <1> QED
    BY <1>3, <1>4, <1>5, <1>6, <1>7, <1>8, <1>9, <1>10, <1>11, <1>12, <1>13, <1>14, <1>15,
       <1>16, <1>17
    DEF PassStep

LEMMA EnvInvariant ==
    ASSUME NoTeardown
    PROVE  Spec => []EnvInv
  <1>1. Init => EnvInv
    BY DEF Init, EnvInv, IdlePass, Polling
  <1>2. IInv /\ EnvInv /\ [Next]_vars => EnvInv'
    <2>1. ASSUME EnvInv, UNCHANGED vars PROVE EnvInv'
      BY <2>1 DEF vars, EnvInv
    <2> QED BY <2>1, CallsEnv, PassEnv DEF Next
  <1> QED BY <1>1, <1>2, Invariant, PTL DEF Spec

\* The alarm covers the work at every moment, not only between passes.
THEOREM AlwaysCovered ==
    ASSUME NoTeardown
    PROVE  Spec => []Covered
  <1>1. Init => Covered
    BY DEF Init, Covered, RowCovered, NoRow, IsOpen, IsOwed
  <1>2. IInv /\ ArmedInv /\ EnvInv /\ Covered /\ [Next]_vars => Covered'
    <2> SUFFICES ASSUME IInv, ArmedInv, EnvInv, Covered, [Next]_vars PROVE Covered'
      OBVIOUS
    <2>1. CASE UNCHANGED vars
      BY <2>1 DEF vars, Covered, RowCovered
    <2>2. CASE Next
      <3>1. Covered' \/ TearsDown
        BY <2>2, NextType, CallsCover, PassCovers DEF Next
      <3>2. ~ShutdownApply /\ ~OutputOfMissing /\ ~\E p \in Proc : ReadOutputOfMissing(p)
        BY DEF EnvInv, ShutdownApply, OutputOfMissing, ReadOutputOfMissing
      <3> QED BY <3>1, <3>2 DEF TearsDown
    <2> QED BY <2>1, <2>2
  <1> QED BY <1>1, <1>2, Invariant, ArmedInvariant, EnvInvariant, PTL DEF Spec

\* What the user of a thread sees of that: between passes every open row has an
\* alarm before it times out or goes stale, and an owed message has an alarm.
THEOREM AlarmCovers ==
    ASSUME NoTeardown
    PROVE  Spec => []AlarmCoversWork
  <1>1. Covered => AlarmCoversWork
    BY DEF Covered, RowCovered, AlarmCoversWork
  <1> QED BY <1>1, AlwaysCovered, PTL

-------------------------------------------------------------------------------
(* The clock of a pass.                                                    *)

Sampled == Polling \cup {"sweep"}

\* A pass has been running for at most PassTicks; the clock its polls and its
\* sweep sampled is not before its start.
TimeInv ==
    /\ pass.pc # "idle" => pass.start <= now /\ now <= pass.start + PassTicks
    /\ pass.pc \in Sampled => pass.start <= pass.at

\* A tick without an environment is over at once.
LEMMA IdleTickFields ==
    ASSUME TypeOK, TickAbsent \/ TickExpired
    PROVE  pass'.pc = "sweepstart" /\ pass'.start = now /\ ~pass'.live /\ pass'.svc
  <1>1. \/ ArmInTick({}, Fired("sweepstart", TRUE, FALSE))
        \/ \E b \in BOOLEAN :
             pass' = [Fired("sweepstart", TRUE, FALSE) EXCEPT !.spent = FALSE, !.armed = b]
    BY DEF TickAbsent, TickExpired
  <1>2. \/ pass' = Fired("sweepstart", TRUE, FALSE)
        \/ \E b \in BOOLEAN :
             pass' = [Fired("sweepstart", TRUE, FALSE) EXCEPT !.spent = FALSE, !.armed = b]
    <2>1. CASE ArmInTick({}, Fired("sweepstart", TRUE, FALSE))
      <3>1. \/ pass' = Fired("sweepstart", TRUE, FALSE)
            \/ pass' = [Fired("sweepstart", TRUE, FALSE) EXCEPT !.spent = FALSE, !.armed = TRUE]
        BY <2>1 DEF ArmInTick
      <3> QED BY <3>1
    <2> QED BY <1>1, <2>1
  <1>3. "sweepstart" \in PassPc
    BY DEF PassPc
  <1>4. pass'.pc = "sweepstart"
    BY <1>2, <1>3, FiredFields
  <1>5. pass'.start = now
    BY <1>2, <1>3, FiredFields
  <1>6. ~pass'.live /\ pass'.svc
    BY <1>2, <1>3, FiredFields
  <1> QED BY <1>4, <1>5, <1>6

\* A step of a pass, or a restart, takes no time: it begins a pass, goes on with
\* it, or ends it.
PassGoesOn ==
    /\ pass.pc # "idle" /\ pass'.start = pass.start
    /\ pass'.pc \in Sampled =>
         pass'.at = now \/ (pass.pc \in Sampled /\ pass'.at = pass.at)

Sweeps ==
    \/ SweepStart
    \/ \E p \in Proc : \/ SweepCloses(p) \/ SweepClosesUntold(p) \/ SweepLate(p)
                        \/ SweepRetries(p) \/ SweepKeepsOwed(p)

LEMMA PassClock ==
    ASSUME IInv, PassStep \/ Crash
    PROVE  /\ now' = now
           /\ pass'.pc \in {"sweep", "rearm"} => Sweeps
           /\ \/ pass'.pc = "idle"
              \/ /\ Fires /\ pass'.start = now
                 /\ pass'.pc \in {"quota", "sweepstart"}
              \/ PassGoesOn
  <1> USE DEF storeVars, envVars, callVars, history
  <1>1. /\ TypeOK /\ pass \in Pass
        /\ {"quota", "ensure", "poll", "apply", "output", "tickend", "release", "sweepstart"}
             \subseteq PassPc
    BY PassParts DEF IInv, PassPc
  <1>2. CASE ResolveFails \/ TickStart
    <2>1. Fires /\ now' = now
      BY <1>2 DEF ResolveFails, TickStart
    <2>2. PICK pc \in {"quota", "sweepstart"}, svc \in BOOLEAN, live \in BOOLEAN :
            pass' = Fired(pc, svc, live)
      BY <1>2 DEF ResolveFails, TickStart
    <2>3. pass'.pc = pc
      BY <1>1, <2>2, FiredFields
    <2>4. pass'.start = now
      BY <1>1, <2>2, FiredFields
    <2> QED BY <2>1, <2>3, <2>4
  <1>3. CASE TickAbsent \/ TickExpired
    <2>1. Fires /\ now' = now
      BY <1>3 DEF TickAbsent, TickExpired
    <2>2. pass'.pc = "sweepstart" /\ pass'.start = now
      BY <1>1, <1>3, IdleTickFields
    <2> QED BY <2>1, <2>2
  <1>4. CASE \/ QuotaFails \/ TickArms \/ TickEndsUnarmed \/ EnsureRuntime
             \/ ReleaseBlocked \/ ReleaseStart
             \/ ReleasePreserves \/ ReleaseDiscards \/ ReleaseFails
    <2>1. PICK pc \in {"sweepstart", "release", "poll"} :
            /\ \/ pass' = [pass EXCEPT !.pc = pc]
               \/ \E times : ArmInTick(times, [pass EXCEPT !.pc = pc])
            /\ now' = now /\ pass.pc # "idle" /\ (pc = "poll" => pass.pc = "ensure")
      BY <1>4 DEF QuotaFails, TickArms, TickEndsUnarmed, EnsureRuntime, ReleaseBlocked,
         ReleaseStart, ReleasePreserves, ReleaseDiscards, ReleaseFails
    <2>2. pass'.pc = pc /\ pass'.start = pass.start /\ pass'.at = pass.at
      BY <1>1, <2>1, PassAt
    <2> QED BY <2>1, <2>2 DEF PassGoesOn, Sampled, Polling
  <1>5. CASE PollStart \/ SweepStart
    <2>1. /\ now' = now /\ pass.pc # "idle"
          /\ pass'.start = pass.start /\ pass'.at = now
          /\ pass'.pc \in {"sweep", "rearm"} => SweepStart
      <3>1. CASE PollStart
        BY <1>1, <3>1, SMTT(20) DEF PollStart, Pass
      <3>2. CASE SweepStart
        BY <1>1, <3>2 DEF SweepStart, Pass
      <3> QED BY <1>5, <3>1, <3>2
    <2> QED BY <2>1 DEF PassGoesOn, Sweeps
  <1>6. CASE EnsureFails \/ PollExited \/ OutputOfMissing
    <2>1. /\ now' = now /\ pass.pc \in Sampled
          /\ pass'.start = pass.start /\ pass'.at = pass.at
          /\ pass'.pc \in {"tickend", "output"}
      BY <1>1, <1>6 DEF EnsureFails, PollExited, OutputOfMissing, Replaces, Pass,
         Sampled, Polling
    <2> QED BY <2>1 DEF PassGoesOn, Sampled, Polling
  <1>7. ASSUME NEW p \in Proc,
               \/ PollRead(p) \/ SweepCloses(p) \/ SweepClosesUntold(p)
               \/ SweepLate(p) \/ SweepRetries(p) \/ SweepKeepsOwed(p)
        PROVE  now' = now /\ PassGoesOn /\ (pass'.pc \in {"sweep", "rearm"} => Sweeps)
    <2>1. now' = now /\ pass.pc \in Sampled
      BY <1>7 DEF PollRead, SweepCloses, SweepClosesUntold, SweepLate, SweepRetries,
         SweepKeepsOwed, Sampled, Polling
    <2>2. pass'.start = pass.start /\ pass'.at = pass.at
      <3>1. CASE PollRead(p)
        BY <1>1, <3>1, PollReadFields
      <3>2. CASE pass' = Classified(p) \/ pass' = Retried(p)
        BY <1>1, <3>2 DEF Classified, Retried, Pass
      <3> QED BY <1>7, <3>1, <3>2 DEF SweepCloses, SweepClosesUntold, SweepLate, SweepRetries,
            SweepKeepsOwed
    <2>3. PollRead(p) => pass'.pc = "apply"
      BY <1>1, PollReadFields
    <2> QED BY <1>7, <2>1, <2>2, <2>3 DEF PassGoesOn, Sampled, Polling, Sweeps
  <1>8. CASE PollRunning \/ PollFails \/ PollTimeout \/ OutputFails \/ OutputRead
    <2>1. /\ now' = now /\ pass.pc \in {"apply", "output"} /\ pass.cur \in Proc
          /\ \/ pass' = PollNext(pass.cur)
             \/ pass' = [PollNext(pass.cur) EXCEPT !.probed = TRUE]
      BY <1>8 DEF PollRunning, PollFails, PollTimeout, OutputFails, OutputRead, PollCatch,
         IInv, PollInv
    <2>2. /\ pass'.start = pass.start /\ pass'.at = pass.at
          /\ pass'.pc \in {"poll", "tickend"}
      BY <1>1, <2>1, PollNextFields
    <2> QED BY <2>1, <2>2 DEF PassGoesOn, Sampled, Polling
  <1>9. CASE PassEnds \/ Crash
    BY <1>9 DEF PassEnds, Crash, IdlePass
  <1>10. CASE ReleaseCheck
    <2>1. /\ now' = now /\ pass.pc = "tickend"
          /\ pass'.pc = "disposing" /\ pass'.start = pass.start
      BY <1>1, <1>10 DEF ReleaseCheck, Pass
    <2> QED BY <2>1 DEF PassGoesOn, Sampled, Polling
  <1> QED BY <1>2, <1>3, <1>4, <1>5, <1>6, <1>8, <1>9, <1>10, <1>7 DEF PassStep

LEMMA TimeStep ==
    ASSUME IInv, TimeInv, Next
    PROVE  TimeInv'
  <1>1. /\ now \in Nat /\ pass \in Pass /\ pass.start \in Nat /\ pass.at \in Nat
        /\ PassTicks \in Nat
    BY PassParts, WorkAssumption DEF IInv
  <1>2. CASE Tick \/ Environment \/ Calls
    <2>1. pass'.pc = pass.pc /\ pass'.start = pass.start /\ pass'.at = pass.at
      BY <1>1, <1>2, CallsLeavePass
    <2>2. CASE Tick
      <3>1. now' = now + 1 /\ (pass.pc # "idle" => now < pass.start + PassTicks)
        BY <2>2 DEF Tick
      <3> QED BY <1>1, <2>1, <3>1 DEF TimeInv
    <2>3. CASE Environment \/ Calls
      <3>1. now' = now
        BY <2>3 DEF Environment, Calls, Wipe, Vanish, LoseContainer, ProcExit, Acquire,
           ShutdownCall, ShutdownApply, BackgroundProbe, Register, ReadOutput,
           ReadOutputOfMissing, PushReceive, PushApply, StopCall, StopApply
      <3> QED BY <2>1, <3>1 DEF TimeInv
    <2> QED BY <1>2, <2>2, <2>3
  <1>3. CASE PassStep \/ Crash
    <2>1. now' = now
      BY <1>3, PassClock
    <2>2. CASE pass'.pc = "idle"
      BY <2>2 DEF TimeInv, Sampled, Polling
    <2>3. CASE pass'.start = now /\ pass'.pc \in {"quota", "sweepstart"}
      BY <1>1, <2>1, <2>3 DEF TimeInv, Sampled, Polling
    <2>4. CASE PassGoesOn
      BY <1>1, <2>1, <2>4 DEF TimeInv, PassGoesOn, Sampled, Polling
    <2> QED BY <1>3, <2>2, <2>3, <2>4, PassClock
  <1> QED BY <1>2, <1>3 DEF Next

LEMMA TimeInvariant == Spec => []TimeInv
  <1>1. Init => TimeInv
    BY DEF Init, TimeInv, IdlePass, Sampled, Polling
  <1>2. IInv /\ TimeInv /\ [Next]_vars => TimeInv'
    <2>1. ASSUME TimeInv, UNCHANGED vars PROVE TimeInv'
      BY <2>1 DEF vars, TimeInv
    <2> QED BY <2>1, TimeStep
  <1> QED BY <1>1, <1>2, Invariant, PTL DEF Spec

-------------------------------------------------------------------------------
(* What the sweep leaves.                                                  *)

\* The times at which the sweep must look at a row again.
DueFrom(row, t) == row.deadlineAt >= t /\ row.lastAlive + StaleAfter >= t

\* Once a sweep has classified the ledger, every open row it does not close is due
\* after the start of its pass.
SweptInv ==
    pass.pc \in {"sweep", "rearm"} =>
      \A p \in Proc :
        IsOpen(rows[p]) =>
          \/ pass.pc = "sweep" /\ pass.closing[p] # "none"
          \/ DueFrom(rows[p], pass.start)

\* A row that was due from a time on still is after a tame step.
LEMMA TameKeepsDue ==
    ASSUME NEW old \in Row, NEW new \in Row, Tame(old, new), IsOpen(new),
           NEW t \in Nat, DueFrom(old, t)
    PROVE  IsOpen(old) /\ DueFrom(new, t)
  BY LedgerAssumption DEF Tame, DueFrom, Row

LEMMA SweptStep ==
    ASSUME IInv, TypeOK', TimeInv, SweptInv, Next
    PROVE  SweptInv'
  <1> USE DEF storeVars, envVars, callVars, history
  <1>1. /\ TypeOK /\ pass \in Pass /\ now \in Nat /\ pass.start \in Nat /\ rows \in [Proc -> Row]
        /\ pass'.start \in Nat /\ rows' \in [Proc -> Row]
        /\ pass.closing \in [Proc -> WorkReason \cup {"none"}]
    BY PassParts DEF IInv, TypeOK, Pass
  <1> SUFFICES ASSUME pass'.pc \in {"sweep", "rearm"}, NEW p \in Proc, IsOpen(rows'[p])
               PROVE  \/ pass'.pc = "sweep" /\ pass'.closing[p] # "none"
                      \/ DueFrom(rows'[p], pass'.start)
    BY DEF SweptInv
  <1>2. CASE Tick \/ Environment \/ Calls
    <2>1. /\ pass'.pc = pass.pc /\ pass'.start = pass.start
          /\ pass'.closing = pass.closing
      BY <1>1, <1>2, CallsLeavePass
    <2>2. CASE Registers(p)
      <3>1. pass.start <= now
        BY <2>1 DEF TimeInv
      <3>2. rows'[p].lastAlive = now /\ rows'[p].deadlineAt = now + WatchMax
        BY <2>2 DEF Registers
      <3>3. DueFrom(rows'[p], pass.start)
        BY <1>1, <3>1, <3>2, LedgerAssumption DEF DueFrom
      <3> QED BY <2>1, <3>3
    <2>3. CASE Tame(rows[p], rows'[p])
      <3>1. IsOpen(rows[p])
        BY <2>3 DEF Tame
      <3>2. CASE DueFrom(rows[p], pass.start)
        BY <1>1, <2>1, <2>3, <3>2, TameKeepsDue
      <3> QED BY <2>1, <3>1, <3>2 DEF SweptInv
    <2> QED BY <1>2, <2>2, <2>3, CallsTame
  <1>3. CASE PassStep \/ Crash
    <2>1. Sweeps /\ Tame(rows[p], rows'[p])
      BY <1>3, PassClock, PassTame
    <2>2. CASE SweepStart
      <3>1. PICK view :
              /\ rows' = rows /\ pass'.start = pass.start /\ pass.pc = "sweepstart"
              /\ pass'.closing[p] = IF ClassifyWork(rows[p], view, now) = "alive" THEN "none"
                                    ELSE ClassifyWork(rows[p], view, now)
              /\ pass'.pc = "rearm" => ~IsOpen(rows[p])
        BY <1>1, <2>2 DEF SweepStart, Pass
      <3>2. pass.start <= now
        BY <3>1 DEF TimeInv
      <3>3. CASE ClassifyWork(rows[p], view, now) = "alive"
        <4>1. ~IsReset(rows[p], view) /\ now <= rows[p].deadlineAt
              /\ now - rows[p].lastAlive <= StaleAfter
          BY <1>1, <3>1, <3>3, LedgerAssumption DEF ClassifyWork, Row
        <4>2. DueFrom(rows[p], pass.start)
          BY <1>1, <3>2, <4>1, LedgerAssumption DEF DueFrom, Row
        <4> QED BY <3>1, <4>2
      <3>4. CASE ClassifyWork(rows[p], view, now) # "alive"
        <4>1. ClassifyWork(rows[p], view, now) # "none"
          BY <1>1, <3>1 DEF ClassifyWork
        <4> QED BY <3>1, <3>4, <4>1
      <3> QED BY <3>3, <3>4
    <2>3. ASSUME NEW q \in Proc,
                 \/ SweepCloses(q) \/ SweepClosesUntold(q) \/ SweepLate(q)
          PROVE  \/ pass'.pc = "sweep" /\ pass'.closing[p] # "none"
                 \/ DueFrom(rows'[p], pass'.start)
      <3>1. /\ pass.pc = "sweep" /\ pass'.pc = "sweep" /\ pass'.start = pass.start
            /\ pass'.closing = [pass.closing EXCEPT ![q] = "none"]
        BY <1>1, <2>3 DEF SweepCloses, SweepClosesUntold, SweepLate, Classified, Pass
      <3>2. ~IsOpen(rows'[q])
        <4>1. CASE SweepLate(q)
          BY <4>1 DEF SweepLate
        <4>2. CASE SweepCloses(q)
          BY <1>1, <4>2 DEF SweepCloses, MarkDelivered, Terminalize, IsOpen, IsOwed, Row
        <4>3. CASE SweepClosesUntold(q)
          BY <1>1, <4>3 DEF SweepClosesUntold, Terminalize, IsOpen, Row
        <4> QED BY <2>3, <4>1, <4>2, <4>3
      <3>3. pass'.closing[p] = pass.closing[p]
        BY <1>1, <3>1, <3>2
      <3>4. IsOpen(rows[p])
        BY <2>1 DEF Tame
      <3>5. CASE DueFrom(rows[p], pass.start)
        BY <1>1, <2>1, <3>1, <3>5, TameKeepsDue
      <3> QED BY <3>1, <3>3, <3>4, <3>5 DEF SweptInv
    <2>4. ASSUME NEW q \in Proc, SweepRetries(q) \/ SweepKeepsOwed(q)
          PROVE  \/ pass'.pc = "sweep" /\ pass'.closing[p] # "none"
                 \/ DueFrom(rows'[p], pass'.start)
      <3>1. /\ pass.pc = "sweep" /\ pass'.pc = "sweep" /\ pass'.start = pass.start
            /\ pass'.closing = pass.closing
        BY <1>1, <2>4 DEF SweepRetries, SweepKeepsOwed, Retried, Pass
      <3>2. IsOpen(rows[p])
        BY <2>1 DEF Tame
      <3>3. CASE DueFrom(rows[p], pass.start)
        BY <1>1, <2>1, <3>1, <3>3, TameKeepsDue
      <3> QED BY <3>1, <3>2, <3>3 DEF SweptInv
    <2> QED BY <2>1, <2>2, <2>3, <2>4 DEF Sweeps
  <1> QED BY <1>2, <1>3 DEF Next

LEMMA SweptInvariant == Spec => []SweptInv
  <1>1. Init => SweptInv
    BY DEF Init, SweptInv, IdlePass
  <1>2. IInv /\ TimeInv /\ SweptInv /\ [Next]_vars => SweptInv'
    <2>1. ASSUME SweptInv, UNCHANGED vars PROVE SweptInv'
      BY <2>1 DEF vars, SweptInv
    <2>2. IInv /\ Next => TypeOK'
      BY NextType
    <2> QED BY <2>1, <2>2, SweptStep
  <1> QED BY <1>1, <1>2, Invariant, TimeInvariant, PTL DEF Spec

-------------------------------------------------------------------------------
(* What the poll leaves.                                                   *)

\* The clock, the container and the tools register a watcher, leave it as it is or
\* remove it.
LEMMA CallsWatch ==
    ASSUME IInv, Tick \/ Environment \/ Calls, NEW p \in Proc
    PROVE  Registers(p) \/ (watchers'[p].on => watchers'[p] = watchers[p])
  <1> USE DEF storeVars, envVars, callVars, history
  <1>1. watchers \in [Proc -> Watcher] /\ ~NoWatcher.on
    BY PassParts DEF IInv, NoWatcher
  <1>2. CASE \/ Tick \/ Environment \/ ShutdownCall
             \/ \E q \in Proc : \/ BackgroundProbe(q) \/ ReadOutput(q) \/ PushReceive(q)
                                \/ StopCall(q)
    BY <1>2 DEF Tick, Environment, Wipe, Vanish, LoseContainer, ProcExit,
       ShutdownCall, BackgroundProbe, ReadOutput, PushReceive, StopCall
  <1>3. CASE Acquire \/ ShutdownApply \/ \E q \in Proc : ReadOutputOfMissing(q)
    <2>1. watchers' = watchers \/ ClearWatchers
      BY <1>3 DEF Acquire, DropBackup, ShutdownApply, ReadOutputOfMissing, TearDown
    <2> QED BY <1>1, <2>1 DEF ClearWatchers
  <1>4. ASSUME NEW q \in Proc, PushApply(q) \/ StopApply(q)
        PROVE  watchers'[p].on => watchers'[p] = watchers[p]
    <2>1. watchers' = watchers \/ watchers' = [watchers EXCEPT ![q] = NoWatcher]
      BY <1>4 DEF PushApply, StopApply
    <2> QED BY <1>1, <2>1
  <1>5. ASSUME NEW q \in Proc, Register(q)
        PROVE  Registers(p) \/ (watchers'[p].on => watchers'[p] = watchers[p])
    <2>1. watchers' = [watchers EXCEPT ![q] = NewWatcher(now)]
      BY <1>5 DEF Register
    <2>2. CASE p # q
      BY <1>1, <2>1, <2>2
    <2>3. CASE p = q
      BY <1>5, <2>3, RegisterRegisters
    <2> QED BY <2>2, <2>3
  <1> QED BY <1>2, <1>3, <1>4, <1>5 DEF Calls

PollOver == PollRunning \/ PollFails \/ PollTimeout \/ OutputFails \/ OutputRead

\* The end of a poll: its watcher is gone, or waits for one more interval.
LEMMA PollOverWatch ==
    ASSUME IInv, PollOver
    PROVE  /\ pass.cur \in Proc /\ pass.pc \in {"apply", "output"}
           /\ \/ pass' = PollNext(pass.cur)
              \/ pass' = [PollNext(pass.cur) EXCEPT !.probed = TRUE]
           /\ \E new \in Watcher :
                /\ watchers' = [watchers EXCEPT ![pass.cur] = new]
                /\ new.on => new.nextPollAt = pass.at + Poll /\ pass.due[pass.cur].on
  <1>1. /\ pass.cur \in Proc /\ pass.pc \in {"apply", "output"}
        /\ \/ pass' = PollNext(pass.cur)
           \/ pass' = [PollNext(pass.cur) EXCEPT !.probed = TRUE]
    BY DEF PollOver, PollRunning, PollFails, PollTimeout, OutputFails, OutputRead, PollCatch,
       IInv, PollInv
  <1> DEFINE w == pass.due[pass.cur]
             renewed == [Postponed(w) EXCEPT !.deadlineAt = pass.at + Renew]
  <1>2. /\ TypeOK /\ w \in Watcher /\ NoWatcher \in Watcher /\ ~NoWatcher.on
        /\ pass.at \in Nat
    BY <1>1, PassParts DEF IInv, NoWatcher
  <1>3. Postponed(w) \in Watcher /\ renewed \in Watcher
    BY <1>2, PostponedType
  <1>4. Postponed(w).nextPollAt = pass.at + Poll /\ Postponed(w).on = w.on
    BY <1>2 DEF Postponed, Watcher
  <1>5. renewed.nextPollAt = pass.at + Poll /\ renewed.on = w.on
    BY <1>2 DEF Postponed, Watcher
  <1>6. PICK new \in {NoWatcher, Postponed(w), renewed} :
          watchers' = [watchers EXCEPT ![pass.cur] = new]
    <2> HIDE DEF renewed
    <2>1. CASE PollRunning
      BY <2>1 DEF PollRunning, renewed
    <2>2. CASE PollFails \/ PollTimeout \/ OutputFails \/ OutputRead
      BY <2>2 DEF PollFails, PollTimeout, OutputFails, OutputRead, PollCatch
    <2> QED BY <2>1, <2>2 DEF PollOver
  <1> HIDE DEF renewed
  <1>7. new \in Watcher /\ (new.on => new.nextPollAt = pass.at + Poll /\ w.on)
    BY <1>2, <1>3, <1>4, <1>5, <1>6
  <1> QED BY <1>1, <1>6, <1>7

\* While the pass polls, a watcher is still to poll or waits for a time after the
\* start of the pass; so does every watcher once the tick has polled, and as long
\* as the arm of a tick that polled stands for the pass's.
PolledInv ==
    /\ pass.pc \in {"idle", "quota"} => ~pass.armed
    /\ pass.live => pass.svc
    /\ pass.pc \in {"apply", "output"} => pass.due[pass.cur].on
    /\ pass.pc \in Polling =>
         \A p \in Proc : watchers[p].on => pass.due[p].on \/ watchers[p].nextPollAt > pass.start
    /\ \/ pass.pc \in {"tickend", "disposing", "release"}
       \/ pass.pc \in {"sweepstart", "sweep", "rearm"} /\ pass.armed /\ pass.live
       => \A p \in Proc : watchers[p].on => watchers[p].nextPollAt > pass.start

LEMMA CallsPolled ==
    ASSUME IInv, TimeInv, PolledInv, Tick \/ Environment \/ Calls
    PROVE  PolledInv'
  <1>1. /\ pass \in Pass /\ now \in Nat /\ pass.start \in Nat /\ Poll \in Nat \ {0}
    BY PassParts, WorkAssumption DEF IInv
  <1>2. /\ pass'.pc = pass.pc /\ pass'.start = pass.start /\ pass'.due = pass.due
        /\ pass'.armed = pass.armed /\ pass'.cur = pass.cur
        /\ pass'.live = pass.live /\ pass'.svc = pass.svc
    BY <1>1, CallsLeavePass
  <1>3. ASSUME NEW p \in Proc, watchers'[p].on, pass.pc # "idle"
        PROVE  watchers'[p] = watchers[p] \/ watchers'[p].nextPollAt > pass.start
    <2>1. CASE Registers(p)
      <3>1. watchers'[p].nextPollAt = now + Poll
        BY <2>1 DEF Registers, NewWatcher
      <3> QED BY <1>1, <1>3, <3>1 DEF TimeInv
    <2> QED BY <1>3, <2>1, CallsWatch
  <1> QED BY <1>2, <1>3 DEF PolledInv, Polling

LEMMA PassPolled ==
    ASSUME IInv, TypeOK', TimeInv, PolledInv, PassStep \/ Crash
    PROVE  PolledInv'
  <1> USE DEF storeVars, envVars, callVars, history
  <1>1. /\ TypeOK /\ pass \in Pass /\ now \in Nat /\ pass.start \in Nat /\ pass.at \in Nat
        /\ Poll \in Nat \ {0} /\ ~NoWatcher.on
        /\ watchers \in [Proc -> Watcher] /\ pass.due \in [Proc -> Watcher]
        /\ {"quota", "ensure", "poll", "apply", "output", "tickend", "disposing", "release",
            "sweepstart"} \subseteq PassPc
    BY PassParts, WorkAssumption DEF IInv, NoWatcher, PassPc
  <1>2. CASE ResolveFails \/ TickStart
    <2>1. PICK pc \in {"quota", "sweepstart"}, b \in BOOLEAN : pass' = Fired(pc, b, b)
      BY <1>2 DEF ResolveFails, TickStart
    <2>2. pass'.pc = pc
      BY <1>1, <2>1, FiredFields
    <2>3. ~pass'.armed
      BY <1>1, <2>1, FiredFields
    <2>4. pass'.live => pass'.svc
      BY <1>1, <2>1, FiredFields
    <2> QED BY <2>2, <2>3, <2>4 DEF PolledInv, Polling
  <1>3. CASE TickAbsent \/ TickExpired
    <2>1. pass'.pc = "sweepstart" /\ ~pass'.live
      BY <1>1, <1>3, IdleTickFields
    <2> QED BY <2>1 DEF PolledInv, Polling
  <1>4. CASE QuotaFails \/ TickEndsUnarmed \/ ReleaseStart \/ ReleaseDiscards
    <2>1. PICK pc \in {"sweepstart", "release"} :
            /\ pass' = [pass EXCEPT !.pc = pc] /\ watchers' = watchers
            /\ pass.pc \in {"quota", "tickend", "disposing", "release"}
            /\ pc = "release" => pass.pc = "disposing"
      BY <1>4 DEF QuotaFails, TickEndsUnarmed, ReleaseDiscards, ReleaseStart
    <2>2. /\ pass'.pc = pc /\ pass'.start = pass.start /\ pass'.armed = pass.armed
          /\ pass'.live = pass.live /\ pass'.svc = pass.svc
      BY <1>1, <2>1, PassAt
    <2> QED BY <2>1, <2>2 DEF PolledInv, Polling
  <1>15. CASE ReleaseCheck
    <2>1. /\ pass.pc = "tickend" /\ watchers' = watchers
          /\ pass'.pc = "disposing" /\ pass'.start = pass.start
          /\ pass'.live = pass.live /\ pass'.svc = pass.svc
      BY <1>1, <1>15 DEF ReleaseCheck, Pass
    <2> QED BY <2>1 DEF PolledInv, Polling
  <1>5. CASE TickArms \/ ReleaseBlocked \/ ReleasePreserves \/ ReleaseFails
    <2>1. /\ \E times : ArmInTick(times, [pass EXCEPT !.pc = "sweepstart"])
          /\ watchers' = watchers /\ pass.pc \in {"tickend", "disposing", "release"}
      BY <1>5 DEF TickArms, ReleaseBlocked, ReleasePreserves, ReleaseFails
    <2>2. /\ pass'.pc = "sweepstart" /\ pass'.start = pass.start
          /\ pass'.live = pass.live /\ pass'.svc = pass.svc
      BY <1>1, <2>1, PassAt
    <2> QED BY <2>1, <2>2 DEF PolledInv, Polling
  <1>6. CASE EnsureRuntime
    <2>1. /\ pass.pc = "ensure" /\ watchers' = watchers
          /\ \/ pass' = [pass EXCEPT !.pc = "poll"]
             \/ \E times : ArmInTick(times, [pass EXCEPT !.pc = "poll"])
      BY <1>6 DEF EnsureRuntime
    <2>2. /\ pass'.pc = "poll" /\ pass'.start = pass.start /\ pass'.due = pass.due
          /\ pass'.live = pass.live /\ pass'.svc = pass.svc
      BY <1>1, <2>1, PassAt
    <2> QED BY <2>1, <2>2 DEF PolledInv, Polling
  <1>7. CASE PollStart
    <2> DEFINE due == [p \in Proc |-> IF watchers[p].on /\ watchers[p].nextPollAt <= now
                                      THEN watchers[p] ELSE NoWatcher]
    <2>1. /\ pass.pc = "quota" /\ watchers' = watchers
          /\ pass'.pc = IF \E p \in Proc : due[p].on THEN "ensure" ELSE "tickend"
          /\ pass'.due = due /\ pass'.start = pass.start
          /\ pass'.live = pass.live /\ pass'.svc = pass.svc
      BY <1>1, <1>7 DEF PollStart, Pass
    <2>2. pass.start <= now
      BY <2>1 DEF TimeInv
    <2>3. \A p \in Proc : watchers[p].on => due[p].on \/ watchers[p].nextPollAt > pass.start
      <3> SUFFICES ASSUME NEW p \in Proc, watchers[p].on, ~due[p].on
                   PROVE  watchers[p].nextPollAt > pass.start
        OBVIOUS
      <3>1. ~(watchers[p].nextPollAt <= now) /\ watchers[p].nextPollAt \in Nat
        BY <1>1 DEF Watcher
      <3> QED BY <1>1, <2>2, <3>1
    <2> HIDE DEF due
    <2> QED BY <2>1, <2>2, <2>3 DEF PolledInv, Polling
  <1>8. CASE PollExited \/ \E p \in Proc : PollRead(p)
    <2>1. /\ pass.pc \in {"poll", "apply"} /\ watchers' = watchers
          /\ pass'.pc \in {"apply", "output"} /\ pass'.due = pass.due
          /\ pass'.start = pass.start /\ pass'.live = pass.live /\ pass'.svc = pass.svc
          /\ pass'.due[pass'.cur].on
      <3>1. CASE PollExited
        BY <1>1, <3>1 DEF PollExited, Pass, PolledInv
      <3>2. ASSUME NEW p \in Proc, PollRead(p)
            PROVE  /\ pass.pc \in {"poll", "apply"} /\ watchers' = watchers
                   /\ pass'.pc \in {"apply", "output"} /\ pass'.due = pass.due
                   /\ pass'.start = pass.start /\ pass'.live = pass.live
                   /\ pass'.svc = pass.svc /\ pass'.due[pass'.cur].on
        BY <1>1, <3>2, PollReadFields
      <3> QED BY <1>8, <3>1, <3>2
    <2> QED BY <2>1 DEF PolledInv, Polling
  <1>9. CASE EnsureFails
    <2>1. /\ pass.pc = "ensure" /\ pass'.pc = "tickend"
          /\ pass'.start = pass.start /\ pass'.live = pass.live /\ pass'.svc = pass.svc
          /\ watchers' = [p \in Proc |-> IF pass.due[p].on THEN Postponed(pass.due[p])
                                         ELSE watchers[p]]
      BY <1>1, <1>9 DEF EnsureFails, Pass
    <2>2. pass.start <= pass.at
      BY <2>1 DEF TimeInv, Sampled, Polling
    <2>3. ASSUME NEW p \in Proc, watchers'[p].on PROVE watchers'[p].nextPollAt > pass.start
      <3>1. CASE pass.due[p].on
        <4>1. watchers'[p] = Postponed(pass.due[p]) /\ pass.due[p] \in Watcher
          BY <1>1, <2>1, <3>1
        <4>2. watchers'[p].nextPollAt = pass.at + Poll
          BY <4>1 DEF Postponed, Watcher
        <4> QED BY <1>1, <2>2, <4>2
      <3>2. CASE ~pass.due[p].on
        <4>1. watchers'[p] = watchers[p]
          BY <2>1, <3>2
        <4> QED BY <2>1, <2>3, <3>2, <4>1 DEF PolledInv, Polling
      <3> QED BY <3>1, <3>2
    <2> QED BY <2>1, <2>2, <2>3 DEF PolledInv, Polling
  <1>10. CASE PollOver
    <2>1. PICK new \in Watcher :
            /\ pass.cur \in Proc /\ pass.pc \in {"apply", "output"}
            /\ \/ pass' = PollNext(pass.cur)
               \/ pass' = [PollNext(pass.cur) EXCEPT !.probed = TRUE]
            /\ watchers' = [watchers EXCEPT ![pass.cur] = new]
            /\ new.on => new.nextPollAt = pass.at + Poll
      BY <1>10, PollOverWatch
    <2>2. /\ pass'.pc \in {"poll", "tickend"}
          /\ pass'.pc = "tickend" => \A q \in Proc : ~pass'.due[q].on
          /\ pass'.due = [pass.due EXCEPT ![pass.cur] = NoWatcher]
          /\ pass'.start = pass.start /\ pass'.live = pass.live /\ pass'.svc = pass.svc
      BY <1>1, <2>1, PollNextFields
    <2>3. pass.start <= pass.at
      BY <2>1 DEF TimeInv, Sampled, Polling
    <2>4. ASSUME NEW p \in Proc, watchers'[p].on
          PROVE  pass'.due[p].on \/ watchers'[p].nextPollAt > pass.start
      <3>1. CASE p = pass.cur
        <4>1. watchers'[p].nextPollAt = pass.at + Poll
          BY <1>1, <2>1, <2>4, <3>1
        <4> QED BY <1>1, <2>3, <4>1
      <3>2. CASE p # pass.cur
        <4>1. watchers'[p] = watchers[p] /\ pass'.due[p] = pass.due[p]
          BY <1>1, <2>1, <2>2, <3>2
        <4> QED BY <2>1, <2>4, <4>1 DEF PolledInv, Polling
      <3> QED BY <3>1, <3>2
    <2> QED BY <2>2, <2>3, <2>4 DEF PolledInv, Polling
  <1>11. CASE OutputOfMissing
    <2>1. /\ pass.pc = "output" /\ watchers' = [p \in Proc |-> NoWatcher]
          /\ pass' = [pass EXCEPT !.spent = FALSE]
      BY <1>11 DEF OutputOfMissing, TearDown, ClearWatchers, Replaces
    <2>2. /\ pass'.pc = "output" /\ pass'.due = pass.due /\ pass'.cur = pass.cur
          /\ pass'.live = pass.live /\ pass'.svc = pass.svc
      BY <1>1, <2>1 DEF Pass
    <2>3. \A p \in Proc : ~watchers'[p].on
      BY <1>1, <2>1
    <2> QED BY <2>1, <2>2, <2>3 DEF PolledInv, Polling
  <1>12. CASE SweepStart
    <2>1. /\ pass.pc = "sweepstart" /\ pass'.pc \in {"rearm", "sweep"} /\ watchers' = watchers
          /\ pass'.start = pass.start /\ pass'.armed = pass.armed
          /\ pass'.live = pass.live /\ pass'.svc = pass.svc
      BY <1>1, <1>12 DEF SweepStart, Pass
    <2> QED BY <2>1 DEF PolledInv, Polling
  <1>13. ASSUME NEW p \in Proc,
                \/ SweepCloses(p) \/ SweepClosesUntold(p) \/ SweepLate(p)
                \/ SweepRetries(p) \/ SweepKeepsOwed(p)
         PROVE  PolledInv'
    <2>1. pass.pc = "sweep" /\ (pass' = Classified(p) \/ pass' = Retried(p))
      BY <1>13 DEF SweepCloses, SweepClosesUntold, SweepLate, SweepRetries, SweepKeepsOwed
    <2>2. /\ pass'.pc = "sweep" /\ pass'.start = pass.start /\ pass'.armed = pass.armed
          /\ pass'.live = pass.live /\ pass'.svc = pass.svc
      BY <1>1, <2>1 DEF Classified, Retried, Pass
    <2>3. \E new \in {NoWatcher, watchers[p]} : watchers' = [watchers EXCEPT ![p] = new]
      <3>1. [watchers EXCEPT ![p] = watchers[p]] = watchers
        BY <1>1
      <3> QED BY <1>13, <3>1 DEF SweepCloses, SweepClosesUntold, SweepLate, SweepRetries,
            SweepKeepsOwed
    <2>4. \A q \in Proc : watchers'[q].on => watchers'[q] = watchers[q]
      BY <1>1, <2>3
    <2> QED BY <2>1, <2>2, <2>4 DEF PolledInv, Polling
  <1>14. CASE PassEnds \/ Crash
    <2>1. pass'.pc = "idle" /\ ~pass'.armed /\ ~pass'.live
      BY <1>14 DEF PassEnds, Crash, IdlePass
    <2> QED BY <2>1 DEF PolledInv, Polling
  <1> QED
    BY <1>2, <1>3, <1>4, <1>5, <1>6, <1>7, <1>8, <1>9, <1>10, <1>11, <1>12, <1>13, <1>14,
       <1>15
    DEF PassStep, PollOver

LEMMA PolledInvariant == Spec => []PolledInv
  <1>1. Init => PolledInv
    BY DEF Init, PolledInv, IdlePass, Polling
  <1>2. IInv /\ TimeInv /\ PolledInv /\ [Next]_vars => PolledInv'
    <2>1. ASSUME PolledInv, UNCHANGED vars PROVE PolledInv'
      BY <2>1 DEF vars, PolledInv
    <2>2. IInv /\ Next => TypeOK'
      BY NextType
    <2> QED BY <2>1, <2>2, CallsPolled, PassPolled DEF Next
  <1> QED BY <1>1, <1>2, Invariant, TimeInvariant, PTL DEF Spec

-------------------------------------------------------------------------------
(* The end of a pass.                                                      *)

\* An alarm that a pass leaves in its own past has no cause left behind it: every
\* open row, and every watcher of a pass whose tick polled, waits for a later time.
LEMMA PassEndsOnce ==
    ASSUME IInv, TimeInv, SweptInv, PolledInv, PassEnds, alarm' # None, alarm' < pass.start,
           NEW p \in Proc
    PROVE  /\ watchers[p].on /\ pass.live => watchers[p].nextPollAt > alarm'
           /\ IsOpen(rows[p]) => Soonest(SweepTimes([q \in {p} |-> rows[q]])) > alarm'
  <1>1. /\ TypeOK /\ now \in Nat /\ pass.start \in Nat /\ alarm \in Nat \cup {None}
        /\ rows \in [Proc -> Row] /\ watchers \in [Proc -> Watcher]
        /\ Poll \in Nat \ {0} /\ RetryAfter \in Nat \ {0} /\ StaleAfter \in Nat \ {0}
    BY PassParts, WorkAssumption, LedgerAssumption DEF IInv
  <1>2. pass.pc \in {"sweep", "rearm"} /\ (pass.pc = "sweep" => ToClose = {})
    BY DEF PassEnds
  <1>3. pass.start <= now
    BY <1>2 DEF TimeInv
  <1>4. \A q \in Proc : IsOpen(rows[q]) => DueFrom(rows[q], pass.start)
    BY <1>2 DEF SweptInv, ToClose
  <1>5. alarm' = AlarmAfter
    BY DEF PassEnds
  <1>6. TypeOK'
    BY NextType DEF Next, PassStep
  <1>7. ASSUME IsOpen(rows[p])
        PROVE  Soonest(SweepTimes([q \in {p} |-> rows[q]])) > alarm'
    <2> DEFINE times == {rows[p].deadlineAt, rows[p].lastAlive + StaleAfter}
    <2>1. SweepTimes([q \in {p} |-> rows[q]]) = times
      BY <1>7 DEF SweepTimes
    <2>2. times \subseteq Nat /\ times # {}
      BY <1>1 DEF Row
    <2>3. \A t \in times : t >= pass.start
      BY <1>4, <1>7 DEF DueFrom
    <2> HIDE DEF times
    <2>4. Soonest(times) \in times
      BY <2>2, SoonestIsLeast
    <2>5. Soonest(times) \in Nat /\ Soonest(times) >= pass.start
      BY <2>2, <2>3, <2>4
    <2>6. alarm' \in Nat \cup {None}
      BY <1>6 DEF TypeOK
    <2> QED BY <1>1, <2>1, <2>5, <2>6
  <1>8. ASSUME watchers[p].on, pass.live PROVE watchers[p].nextPollAt > alarm'
    <2>1. p \in Watched /\ watchers[p].nextPollAt \in Nat /\ pass.svc
      BY <1>1, <1>8 DEF Watched, Watcher, PolledInv
    <2>2. alarm' \in Nat \cup {None}
      BY <1>6 DEF TypeOK
    <2>3. CASE pass.armed
      <3>1. watchers[p].nextPollAt > pass.start
        BY <1>2, <1>8, <2>3 DEF PolledInv
      <3> QED BY <1>1, <2>1, <2>2, <3>1
    <2>4. CASE ~pass.armed
      <3> DEFINE polls == {watchers[q].nextPollAt : q \in Watched}
      <3>1. polls \subseteq Nat /\ polls # {}
        BY <1>1, <2>1 DEF Watched, Watcher
      <3>2. WatcherFloor = {IF Soonest(polls) <= now THEN now + Poll ELSE Soonest(polls)}
        BY <1>8, <2>1 DEF WatcherFloor
      <3> HIDE DEF polls
      <3>3. Soonest(polls) \in Nat
        BY <3>1, SoonestIsLeast
      <3>4. \A t \in WatcherFloor : t \in Nat /\ t >= pass.start
        BY <1>1, <1>3, <3>2, <3>3
      <3>5. \A t \in SweepTimes(rows) : t \in Nat /\ t >= pass.start
        BY <1>1, <1>4 DEF SweepTimes, DueFrom, Row
      <3>6. \A t \in WorkHorizonTimes(rows, now) : t \in Nat /\ t >= pass.start
        BY <1>1, <1>3, <3>5 DEF WorkHorizonTimes
      <3>7. FallbackTimes # {} /\ \A t \in FallbackTimes : t \in Nat /\ t >= pass.start
        BY <3>2, <3>4, <3>6 DEF FallbackTimes
      <3>8. Soonest(FallbackTimes) \in FallbackTimes
        BY <3>7, SoonestIsLeast
      <3>9. alarm' = Soonest(FallbackTimes)
        BY <1>5, <2>4, <3>7 DEF AlarmAfter
      <3> QED BY <1>1, <3>7, <3>8, <3>9
    <2> QED BY <2>3, <2>4
  <1> QED BY <1>7, <1>8

\* A past horizon costs one extra wake, and no second one for the same cause, in any
\* pass whose tick found an environment; whatever tore one down, released it under a
\* process just registered, or lost its container before.
THEOREM NoSecondExtraWake == Spec => NoHotLoop
  <1>1. IInv /\ TimeInv /\ SweptInv /\ PolledInv /\ [Next]_vars =>
          [PassEnds /\ alarm' # None /\ alarm' < pass.start =>
             \A p \in Proc :
               /\ watchers[p].on /\ pass.live => watchers[p].nextPollAt > alarm'
               /\ IsOpen(rows[p]) => Soonest(SweepTimes([q \in {p} |-> rows[q]])) > alarm']_vars
    BY PassEndsOnce
  <1> QED
    BY <1>1, Invariant, TimeInvariant, SweptInvariant, PolledInvariant, PTL DEF Spec, NoHotLoop

-------------------------------------------------------------------------------
(* A process that the poll could read is not faulted for silence.          *)

\* A pass is over before a process that it read can go stale.  Without this, the
\* sweep of a late pass faults a process that was read one interval before it.
PassIsShort == Poll + PassTicks <= StaleAfter + 1

\* Every poll since the process was last stamped read it.
Listened(p) == IsOpen(rows[p]) /\ unread[p] = "no"

\* Its stamp is less than one poll interval older than the pass.
Fresh(p) == rows[p].lastAlive + Poll > pass.start

\* A listened process is watched, and polled again within an interval of its
\* stamp; once the tick has polled, its stamp is fresh; so the sweep does not fault
\* it for silence.
ListenAt(p) ==
    /\ Listened(p) => watchers[p].on /\ watchers[p].nextPollAt <= rows[p].lastAlive + Poll
    /\ pass.pc \in Polling /\ Listened(p) => pass.due[p].on \/ Fresh(p)
    /\ pass.pc \in {"tickend", "disposing", "release", "sweepstart"} /\ Listened(p) => Fresh(p)
    /\ pass.pc = "sweep" /\ pass.closing[p] = "no_liveness" => ~Listened(p) /\ reg[p] = "done"

ListenInv == \A p \in Proc : ListenAt(p)

\* What a tame step without a read leaves of that.
LEMMA TameListens ==
    ASSUME TypeOK, TypeOK', NEW p \in Proc, Tame(rows[p], rows'[p]), ListenAt(p),
           unread'[p] = "no" => unread[p] = "no",
           IsOpen(rows'[p]) => watchers'[p] = watchers[p]
    PROVE  /\ IsOpen(rows'[p]) /\ unread'[p] = "no" => Listened(p)
           /\ IsOpen(rows'[p]) /\ unread'[p] = "no" =>
                watchers'[p].on /\ watchers'[p].nextPollAt <= rows'[p].lastAlive + Poll
           /\ IsOpen(rows'[p]) /\ Fresh(p) => rows'[p].lastAlive + Poll > pass.start
  <1>1. /\ rows[p] \in Row /\ rows'[p] \in Row /\ watchers[p] \in Watcher
        /\ pass.start \in Nat /\ Poll \in Nat
    BY PassParts, WorkAssumption DEF TypeOK
  <1>2. ASSUME IsOpen(rows'[p])
        PROVE  /\ IsOpen(rows[p]) /\ rows'[p].lastAlive >= rows[p].lastAlive
               /\ rows'[p].lastAlive \in Nat /\ rows[p].lastAlive \in Nat
               /\ watchers'[p] = watchers[p] /\ watchers[p].nextPollAt \in Nat
    BY <1>1, <1>2 DEF Tame, Row, Watcher
  <1> QED BY <1>1, <1>2 DEF ListenAt, Listened, Fresh

\* The clock, the container and the tools leave a watcher, and what is known of its
\* reads, as they are until its row is closed; or the reads are over for good.
LEMMA CallsRead ==
    ASSUME IInv, EnvInv, Tick \/ Environment \/ Calls, NEW p \in Proc
    PROVE  \/ Registers(p)
           \/ unread'[p] # "no"
           \/ /\ unread'[p] = unread[p]
              /\ IsOpen(rows'[p]) => watchers'[p] = watchers[p]
  <1> USE DEF storeVars, envVars, callVars, history
  <1>1. /\ TypeOK /\ rows \in [Proc -> Row] /\ watchers \in [Proc -> Watcher]
        /\ unread \in [Proc -> {"no", "skipped", "missed"}]
    BY PassParts DEF IInv
  <1>2. ~ShutdownApply /\ ~\E q \in Proc : ReadOutputOfMissing(q)
    BY DEF ShutdownApply, ReadOutputOfMissing, EnvInv
  <1>3. CASE \/ Tick \/ Environment \/ ShutdownCall
             \/ \E q \in Proc : \/ BackgroundProbe(q) \/ ReadOutput(q) \/ PushReceive(q)
                                \/ StopCall(q)
    BY <1>3 DEF Tick, Environment, Wipe, Vanish, LoseContainer, ProcExit,
       ShutdownCall, BackgroundProbe, ReadOutput, PushReceive, StopCall
  <1>4. CASE Acquire
    <2>1. UNCHANGED <<watchers, unread>> \/ SkipPolls
      BY <1>4 DEF Acquire, DropBackup
    <2> QED BY <1>1, <2>1 DEF SkipPolls
  <1>5. ASSUME NEW q \in Proc, PushApply(q) \/ StopApply(q)
        PROVE  unread' = unread /\ (IsOpen(rows'[p]) => watchers'[p] = watchers[p])
    <2>1. unread' = unread
      BY <1>5 DEF PushApply, StopApply
    <2>2. \/ watchers' = watchers
          \/ watchers' = [watchers EXCEPT ![q] = NoWatcher] /\ ~IsOpen(rows'[q])
      <3>1. CASE PushApply(q)
        <4>1. CASE watchers' = watchers
          BY <4>1
        <4>2. CASE watchers' # watchers
          <5>1. /\ watchers' = [watchers EXCEPT ![q] = NoWatcher] /\ IsOpen(rows[q])
                /\ rows' = [rows EXCEPT ![q] =
                              MarkDelivered(Terminalize(rows[q], "process_exit", now))]
            BY <3>1, <4>2 DEF PushApply
          <5>2. rows'[q] = MarkDelivered(Terminalize(rows[q], "process_exit", now))
            BY <1>1, <5>1
          <5>3. rows[q] \in Row
            BY <1>1
          <5>4. ~IsOpen(Terminalize(rows[q], "process_exit", now))
            BY <5>1, <5>3 DEF Terminalize, IsOpen, Row
          <5>5. \A row : ~IsOpen(row) => ~IsOpen(MarkDelivered(row))
            BY DEF MarkDelivered, IsOpen, IsOwed
          <5> QED BY <5>1, <5>2, <5>4, <5>5
        <4> QED BY <4>1, <4>2
      <3>2. CASE StopApply(q)
        <4>1. /\ watchers' = [watchers EXCEPT ![q] = NoWatcher]
              /\ rows'[q] = StoppedRow(rows[q]) /\ rows[q] \in Row
          BY <1>1, <3>2 DEF StopApply
        <4> QED BY <4>1 DEF StoppedRow, MarkDelivered, Terminalize, IsOpen, IsOwed, Row
      <3> QED BY <1>5, <3>1, <3>2
    <2> QED BY <1>1, <2>1, <2>2
  <1>6. ASSUME NEW q \in Proc, Register(q)
        PROVE  Registers(p) \/ UNCHANGED <<unread[p], watchers[p]>>
    <2>1. CASE p = q
      BY <1>6, <2>1, RegisterRegisters
    <2>2. CASE p # q
      <3>1. /\ watchers' = [watchers EXCEPT ![q] = NewWatcher(now)]
            /\ unread' = [unread EXCEPT ![q] = "no"]
        BY <1>6 DEF Register
      <3> QED BY <1>1, <2>2, <3>1
    <2> QED BY <2>1, <2>2
  <1> QED BY <1>2, <1>3, <1>4, <1>5, <1>6 DEF Calls

\* The clock, the container and the tools.
LEMMA CallsListen ==
    ASSUME IInv, TypeOK', EnvInv, TimeInv, ListenInv, Tick \/ Environment \/ Calls,
           NEW p \in Proc
    PROVE  ListenAt(p)'
  <1>1. /\ TypeOK /\ pass \in Pass /\ now \in Nat /\ pass.start \in Nat /\ Poll \in Nat \ {0}
    BY PassParts, WorkAssumption DEF IInv
  <1>2. /\ pass'.pc = pass.pc /\ pass'.start = pass.start /\ pass'.due = pass.due
        /\ pass'.closing = pass.closing
    BY <1>1, CallsLeavePass
  <1>3. ListenAt(p)
    BY DEF ListenInv
  <1>4. CASE Registers(p)
    <2>1. /\ reg[p] = "probed" /\ rows'[p].lastAlive = now
          /\ watchers'[p].on /\ watchers'[p].nextPollAt = now + Poll
      BY <1>4 DEF Registers, NewWatcher
    <2>2. ~(pass.pc = "sweep" /\ pass.closing[p] = "no_liveness")
      BY <1>3, <2>1 DEF ListenAt
    <2>3. pass.pc # "idle" => now + Poll > pass.start
      BY <1>1 DEF TimeInv
    <2> QED BY <1>1, <1>2, <2>1, <2>2, <2>3 DEF ListenAt, Listened, Fresh, Polling
  <1>5. CASE ~Registers(p)
    <2>1. Tame(rows[p], rows'[p])
      BY <1>5, CallsTame
    <2>2. reg[p] = "done" => reg'[p] = "done"
      BY MovesRegister, CallsMove DEF IInv, LedgerMove
    <2>4. CASE unread'[p] # "no"
      BY <1>2, <1>3, <2>2, <2>4 DEF ListenAt, Listened
    <2>5. CASE unread'[p] = "no"
      <3>1. unread'[p] = unread[p] /\ (IsOpen(rows'[p]) => watchers'[p] = watchers[p])
        BY <1>5, <2>5, CallsRead
      <3>2. /\ IsOpen(rows'[p]) /\ unread'[p] = "no" => Listened(p)
            /\ IsOpen(rows'[p]) /\ unread'[p] = "no" =>
                 watchers'[p].on /\ watchers'[p].nextPollAt <= rows'[p].lastAlive + Poll
            /\ IsOpen(rows'[p]) /\ Fresh(p) => rows'[p].lastAlive + Poll > pass.start
        BY <1>1, <1>3, <2>1, <3>1, TameListens
      <3> QED BY <1>2, <1>3, <2>2, <3>2 DEF ListenAt, Listened, Fresh
    <2> QED BY <2>4, <2>5
  <1> QED BY <1>4, <1>5

\* The end of a poll: what it read is stamped, or noted as missed, or over.
LEMMA PollsListen ==
    ASSUME IInv, TypeOK', TimeInv, PolledInv, ListenInv, PollOver \/ PollExited, NEW p \in Proc
    PROVE  ListenAt(p)'
  <1> USE DEF storeVars, envVars, callVars, history
  <1>1. /\ TypeOK /\ pass \in Pass /\ pass.start \in Nat /\ pass.at \in Nat
        /\ Poll \in Nat \ {0} /\ rows \in [Proc -> Row]
        /\ watchers \in [Proc -> Watcher] /\ pass.due \in [Proc -> Watcher]
        /\ unread \in [Proc -> {"no", "skipped", "missed"}]
    BY PassParts, WorkAssumption DEF IInv
  <1>2. ListenAt(p)
    BY DEF ListenInv
  <1>3. pass.cur \in Proc /\ pass.pc \in {"apply", "output"}
    BY PollOverWatch DEF PollExited, IInv, PollInv
  <1>4. pass.start <= pass.at
    BY <1>3 DEF TimeInv, Sampled, Polling
  <1>5. /\ pass'.start = pass.start
        /\ pass'.pc \in {"poll", "tickend", "output"}
        /\ p # pass.cur => pass'.due[p].on <=> pass.due[p].on
        /\ pass'.pc = "tickend" => \A q \in Proc : ~pass'.due[q].on
    <2>1. CASE PollOver
      <3>1. /\ pass'.pc \in {"poll", "tickend"}
            /\ pass'.pc = "tickend" => \A q \in Proc : ~pass'.due[q].on
            /\ pass'.due = [pass.due EXCEPT ![pass.cur] = NoWatcher]
            /\ pass'.start = pass.start
        BY <1>1, <1>3, <2>1, PollOverWatch, PollNextFields
      <3> QED BY <1>1, <3>1
    <2>2. CASE PollExited
      BY <1>1, <2>2 DEF PollExited, Pass
    <2> QED BY <2>1, <2>2
  <1>6. CASE p # pass.cur
    <2>1. /\ \E row : rows' = [rows EXCEPT ![pass.cur] = row]
          /\ \E seen : unread' = [unread EXCEPT ![pass.cur] = seen]
          /\ \E new : watchers' = [watchers EXCEPT ![pass.cur] = new]
      <3>1. /\ rows = [rows EXCEPT ![pass.cur] = rows[pass.cur]]
            /\ unread = [unread EXCEPT ![pass.cur] = unread[pass.cur]]
            /\ watchers = [watchers EXCEPT ![pass.cur] = watchers[pass.cur]]
        BY <1>1, <1>3
      <3>2. PollOver => \E new : watchers' = [watchers EXCEPT ![pass.cur] = new]
        BY PollOverWatch
      <3>3. PollExited => watchers' = watchers
        BY DEF PollExited
      <3>4. \/ rows' = rows \/ \E row : rows' = [rows EXCEPT ![pass.cur] = row]
        BY DEF PollOver, PollRunning, PollFails, PollTimeout, OutputFails, OutputRead, PollExited
      <3>5. \/ unread' = unread \/ \E seen : unread' = [unread EXCEPT ![pass.cur] = seen]
        BY DEF PollOver, PollRunning, PollFails, PollTimeout, OutputFails, OutputRead, PollExited,
           PollCatch
      <3> QED BY <3>1, <3>2, <3>3, <3>4, <3>5
    <2>2. rows'[p] = rows[p] /\ unread'[p] = unread[p] /\ watchers'[p] = watchers[p]
      BY <1>1, <1>6, <2>1
    <2> QED BY <1>2, <1>3, <1>5, <1>6, <2>2 DEF ListenAt, Listened, Fresh, Polling
  <1>7. CASE p = pass.cur
    <2>1. CASE PollRunning
      <3>1. rows'[p] = StampAlive(rows[p], pass.at) /\ rows[p] \in Row
        BY <1>1, <1>7, <2>1 DEF PollRunning, Stamped
      <3>2. IsOpen(rows'[p]) => rows'[p].lastAlive \in Nat /\ rows'[p].lastAlive >= pass.at
        BY <1>1, <3>1 DEF StampAlive, IsOpen, Row, Later
      <3>3. PICK new \in Watcher :
              /\ watchers' = [watchers EXCEPT ![pass.cur] = new]
              /\ new.on => new.nextPollAt = pass.at + Poll
        BY <2>1, PollOverWatch DEF PollOver
      <3>4. watchers'[p] = new
        BY <1>1, <1>3, <1>7, <3>3
      <3>5. new.on
        <4>1. pass.due[p].on /\ pass.due[p] \in Watcher
          BY <1>1, <1>3, <1>7 DEF PolledInv
        <4>2. \A w \in Watcher : Postponed(w).on = w.on
          BY DEF Postponed, Watcher
        <4>3. \A w \in Watcher : [Postponed(w) EXCEPT !.deadlineAt = pass.at + Renew].on = w.on
          BY DEF Postponed, Watcher
        <4>4. \/ watchers'[p] = Postponed(pass.due[p])
              \/ watchers'[p] = [Postponed(pass.due[p]) EXCEPT !.deadlineAt = pass.at + Renew]
          BY <1>1, <1>3, <1>7, <2>1 DEF PollRunning
        <4> QED BY <3>4, <4>1, <4>2, <4>3, <4>4
      <3> QED BY <1>1, <1>4, <1>5, <3>2, <3>3, <3>4, <3>5 DEF ListenAt, Listened, Fresh
    <2>2. ASSUME unread'[p] # "no" \/ ~IsOpen(rows'[p]) PROVE ListenAt(p)'
      BY <1>5, <2>2 DEF ListenAt, Listened
    <2>3. CASE PollFails \/ OutputFails
      BY <1>1, <1>3, <1>7, <2>2, <2>3 DEF PollFails, OutputFails, PollCatch
    <2>4. CASE PollExited
      <3>1. rows'[p] = Terminalize(Stamped(p), "process_exit", pass.at)
        BY <1>1, <1>3, <1>7, <2>4 DEF PollExited
      <3>2. Stamped(p) \in Row
        BY <1>1, StampAliveKeeps DEF Stamped
      <3>3. ~IsOpen(rows'[p])
        BY <3>1, <3>2 DEF Terminalize, IsOpen, Row
      <3> QED BY <2>2, <3>3
    <2>5. CASE PollTimeout
      <3> DEFINE over == Terminalize(Stamped(p), "watch_timeout", pass.at)
      <3>1. Stamped(p) \in Row
        BY <1>1, StampAliveKeeps DEF Stamped
      <3>2. ~IsOpen(over)
        BY <3>1 DEF Terminalize, IsOpen, Row
      <3>3. \A row : ~IsOpen(row) => ~IsOpen(MarkDelivered(row))
        BY DEF MarkDelivered, IsOpen, IsOwed
      <3>4. rows' \in {[rows EXCEPT ![p] = over], [rows EXCEPT ![p] = MarkDelivered(over)]}
        BY <1>7, <2>5 DEF PollTimeout
      <3> HIDE DEF over
      <3>5. ~IsOpen(rows'[p])
        BY <1>1, <3>2, <3>3, <3>4
      <3> QED BY <2>2, <3>5
    <2>6. CASE OutputRead
      <3>1. ~IsOpen(rows[p])
        BY <1>7, <2>6 DEF OutputRead, IInv, PollInv
      <3>2. rows'[p] \in {rows[p], MarkDelivered(rows[p])}
        BY <1>1, <1>3, <1>7, <2>6 DEF OutputRead
      <3>3. ~IsOpen(MarkDelivered(rows[p]))
        BY <3>1 DEF MarkDelivered, IsOpen, IsOwed
      <3> QED BY <2>2, <3>1, <3>2, <3>3
    <2> QED BY <2>1, <2>3, <2>4, <2>5, <2>6 DEF PollOver
  <1> QED BY <1>6, <1>7

\* The sweep classifies a process whose stamp is fresh as alive.
LEMMA SweepsListen ==
    ASSUME PassIsShort, IInv, TypeOK', TimeInv, ListenInv, Sweeps, NEW p \in Proc,
           Tame(rows[p], rows'[p])
    PROVE  ListenAt(p)'
  <1> USE DEF storeVars, envVars, callVars, history
  <1>1. /\ TypeOK /\ pass \in Pass /\ now \in Nat /\ pass.start \in Nat
        /\ Poll \in Nat \ {0} /\ StaleAfter \in Nat \ {0} /\ PassTicks \in Nat
        /\ rows \in [Proc -> Row] /\ watchers \in [Proc -> Watcher]
        /\ pass.closing \in [Proc -> WorkReason \cup {"none"}]
    BY PassParts, WorkAssumption, LedgerAssumption DEF IInv
  <1>2. ListenAt(p)
    BY DEF ListenInv
  <1>3. CASE SweepStart
    <2>1. PICK view :
            /\ pass.pc = "sweepstart" /\ rows' = rows /\ watchers' = watchers
            /\ unread' = unread /\ reg' = reg
            /\ pass'.closing[p] = IF ClassifyWork(rows[p], view, now) = "alive" THEN "none"
                                  ELSE ClassifyWork(rows[p], view, now)
            /\ pass'.pc \in {"sweep", "rearm"}
      BY <1>1, <1>3 DEF SweepStart, Pass
    <2>2. ASSUME pass'.closing[p] = "no_liveness"
          PROVE  ~Listened(p) /\ reg[p] = "done"
      <3>1. ClassifyWork(rows[p], view, now) = "no_liveness"
        BY <2>1, <2>2
      <3>2. IsOpen(rows[p]) /\ now - rows[p].lastAlive > StaleAfter
        BY <3>1 DEF ClassifyWork
      <3>3. reg[p] = "done"
        BY <3>2 DEF IInv, RegisteredInv, IsOpen
      <3>4. now <= pass.start + PassTicks
        BY <2>1 DEF TimeInv
      <3>5. rows[p].lastAlive \in Nat
        BY <1>1 DEF Row
      <3>6. ~Fresh(p)
        BY <1>1, <3>2, <3>4, <3>5 DEF Fresh, PassIsShort
      <3> QED BY <1>2, <2>1, <3>3, <3>6 DEF ListenAt
    <2> QED BY <1>2, <2>1, <2>2 DEF ListenAt, Listened, Polling
  <1>4. ASSUME NEW q \in Proc,
               \/ SweepCloses(q) \/ SweepClosesUntold(q) \/ SweepLate(q)
               \/ SweepRetries(q) \/ SweepKeepsOwed(q)
        PROVE  ListenAt(p)'
    <2>1. /\ pass.pc = "sweep" /\ unread' = unread /\ reg' = reg
          /\ pass' = Classified(q) \/ pass' = Retried(q)
      BY <1>4 DEF SweepCloses, SweepClosesUntold, SweepLate, SweepRetries, SweepKeepsOwed
    <2>2. /\ pass'.pc = "sweep"
          /\ pass'.closing[p] = pass.closing[p] \/ pass'.closing[p] = "none"
      BY <1>1, <2>1 DEF Classified, Retried, Pass
    <2>3. IsOpen(rows'[p]) => watchers'[p] = watchers[p]
      <3>1. CASE SweepCloses(q)
        <4>1. PICK reason \in WorkReason : reason = pass.closing[q]
          BY <1>1, <3>1 DEF SweepCloses, ToClose
        <4>2. rows' = [rows EXCEPT ![q] = MarkDelivered(Terminalize(rows[q], reason, pass.at))]
          BY <3>1, <4>1 DEF SweepCloses
        <4>3. ~IsOpen(Terminalize(rows[q], reason, pass.at))
          BY <1>1 DEF Terminalize, IsOpen, Row
        <4>4. \A row : ~IsOpen(row) => ~IsOpen(MarkDelivered(row))
          BY DEF MarkDelivered, IsOpen, IsOwed
        <4>5. ~IsOpen(rows'[q])
          BY <1>1, <4>2, <4>3, <4>4
        <4>6. p # q => watchers'[p] = watchers[p]
          BY <1>1, <3>1 DEF SweepCloses
        <4> QED BY <4>5, <4>6
      <3>2. CASE watchers' = watchers
        BY <3>2
      <3> QED BY <1>4, <3>1, <3>2 DEF SweepClosesUntold, SweepLate, SweepRetries, SweepKeepsOwed
    <2>4. /\ IsOpen(rows'[p]) /\ unread'[p] = "no" => Listened(p)
          /\ IsOpen(rows'[p]) /\ unread'[p] = "no" =>
               watchers'[p].on /\ watchers'[p].nextPollAt <= rows'[p].lastAlive + Poll
      BY <1>1, <1>2, <2>1, <2>3, TameListens
    <2>5. "none" # "no_liveness"
      OBVIOUS
    <2> QED BY <1>2, <2>1, <2>2, <2>4, <2>5 DEF ListenAt, Listened, Polling
  <1> QED BY <1>3, <1>4 DEF Sweeps

\* The steps of a pass, and a restart.
LEMMA PassListens ==
    ASSUME PassIsShort, IInv, TypeOK', EnvInv, TimeInv, PolledInv, ListenInv,
           PassStep \/ Crash, NEW p \in Proc
    PROVE  ListenAt(p)'
  <1> USE DEF storeVars, envVars, callVars, history
  <1>1. /\ TypeOK /\ pass \in Pass /\ now \in Nat /\ pass.start \in Nat /\ pass.at \in Nat
        /\ Poll \in Nat \ {0} /\ StaleAfter \in Nat \ {0} /\ PassTicks \in Nat
        /\ ~NoWatcher.on /\ rows \in [Proc -> Row]
        /\ watchers \in [Proc -> Watcher] /\ pass.due \in [Proc -> Watcher]
        /\ unread \in [Proc -> {"no", "skipped", "missed"}]
        /\ {"quota", "ensure", "poll", "apply", "output", "tickend", "disposing", "release",
            "sweepstart"} \subseteq PassPc
    BY PassParts, WorkAssumption, LedgerAssumption DEF IInv, NoWatcher, PassPc
  <1>2. ListenAt(p) /\ Tame(rows[p], rows'[p])
    BY PassTame DEF ListenInv
  <1>3. ASSUME unread'[p] = "no" => unread[p] = "no", IsOpen(rows'[p]) => watchers'[p] = watchers[p]
        PROVE  /\ Listened(p)' => Listened(p)
               /\ Listened(p)' => watchers'[p].on
                                  /\ watchers'[p].nextPollAt <= rows'[p].lastAlive + Poll
               /\ Listened(p)' /\ Fresh(p) => rows'[p].lastAlive + Poll > pass.start
    BY <1>1, <1>2, <1>3, TameListens DEF Listened
  <1>4. ASSUME ~Listened(p)', pass'.pc # "sweep" PROVE ListenAt(p)'
    BY <1>4 DEF ListenAt
  <1>6. ASSUME rows' = rows, watchers' = watchers, unread' = unread, pass'.start = pass.start,
               pass'.pc # "sweep",
               pass'.pc \in Polling => pass.pc \in Polling /\ pass'.due = pass.due,
               pass'.pc \in {"tickend", "disposing", "release", "sweepstart"} =>
                 pass.pc \in {"tickend", "disposing", "release"}
        PROVE  ListenAt(p)'
    BY <1>2, <1>6 DEF ListenAt, Listened, Fresh
  <1>7. CASE ResolveFails \/ TickAbsent \/ TickExpired \/ QuotaFails \/ EnsureFails
    <2>1. SkipPolls
      BY <1>7 DEF ResolveFails, TickAbsent, TickExpired, DropBackup, QuotaFails, EnsureFails
    <2>2. ~Listened(p)'
      BY <1>1, <2>1 DEF Listened, SkipPolls
    <2>3. pass'.pc # "sweep"
      <3>1. CASE ResolveFails
        BY <3>1 DEF ResolveFails, Fired, IdlePass
      <3>2. CASE QuotaFails
        BY <1>1, <3>2 DEF QuotaFails, Pass
      <3>3. CASE EnsureFails
        BY <1>1, <3>3 DEF EnsureFails, Pass
      <3>4. CASE TickAbsent \/ TickExpired
        BY <1>1, <3>4, IdleTickFields
      <3> QED BY <1>7, <3>1, <3>2, <3>3, <3>4
    <2> QED BY <1>4, <2>2, <2>3
  <1>9. CASE TickStart
    <2>1. pass'.pc = "quota" /\ rows' = rows /\ watchers' = watchers /\ unread' = unread
      BY <1>9 DEF TickStart, Fired, IdlePass
    <2> QED BY <1>2, <2>1 DEF ListenAt, Listened, Polling
  <1>10. CASE PollStart
    <2> DEFINE due == [q \in Proc |-> IF watchers[q].on /\ watchers[q].nextPollAt <= now
                                      THEN watchers[q] ELSE NoWatcher]
    <2>1. /\ pass.pc = "quota" /\ rows' = rows /\ watchers' = watchers /\ unread' = unread
          /\ pass'.pc = IF \E q \in Proc : due[q].on THEN "ensure" ELSE "tickend"
          /\ pass'.due = due /\ pass'.start = pass.start
      BY <1>1, <1>10 DEF PollStart, Pass
    <2>2. pass.start <= now
      BY <2>1 DEF TimeInv
    <2>3. ASSUME Listened(p), ~due[p].on PROVE Fresh(p)
      <3>1. /\ watchers[p].on /\ watchers[p].nextPollAt <= rows[p].lastAlive + Poll
            /\ watchers[p].nextPollAt \in Nat /\ rows[p].lastAlive \in Nat
        BY <1>1, <1>2, <2>3 DEF ListenAt, Watcher, Row
      <3>2. ~(watchers[p].nextPollAt <= now)
        BY <2>3, <3>1
      <3> QED BY <1>1, <2>2, <3>1, <3>2 DEF Fresh
    <2> HIDE DEF due
    <2> QED BY <1>2, <2>1, <2>3 DEF ListenAt, Listened, Fresh, Polling
  <1>11. CASE EnsureRuntime
    <2>1. pass.pc = "ensure"
      BY <1>11 DEF EnsureRuntime
    <2>2. compute = "active"
      BY <2>1 DEF EnvInv, Polling
    <2>3. /\ rows' = rows /\ watchers' = watchers /\ unread' = unread
          /\ pass' = [pass EXCEPT !.pc = "poll"]
      BY <1>11, <2>2 DEF EnsureRuntime, AcquireRuntime
    <2>4. pass'.pc = "poll" /\ pass'.start = pass.start /\ pass'.due = pass.due
      BY <1>1, <2>3, PassAt
    <2> QED BY <1>6, <2>1, <2>3, <2>4 DEF Polling
  <1>12. ASSUME NEW q \in Proc, PollRead(q) PROVE ListenAt(p)'
    <2>1. /\ rows' = rows /\ watchers' = watchers /\ unread' = unread /\ pass.pc = "poll"
          /\ pass'.pc = "apply" /\ pass'.start = pass.start /\ pass'.due = pass.due
      BY <1>1, <1>12, PollReadFields
    <2> QED BY <1>6, <2>1 DEF Polling
  <1>13. CASE TickArms \/ TickEndsUnarmed \/ ReleaseBlocked \/ ReleaseStart \/ ReleaseFails
    <2>1. /\ rows' = rows /\ watchers' = watchers /\ unread' = unread
          /\ pass.pc \in {"tickend", "disposing", "release"}
          /\ \E pc \in {"sweepstart", "release"} :
               \/ pass' = [pass EXCEPT !.pc = pc]
               \/ \E times : ArmInTick(times, [pass EXCEPT !.pc = pc])
      BY <1>13 DEF TickArms, TickEndsUnarmed, ReleaseBlocked, ReleaseStart, ReleaseFails
    <2>2. pass'.pc \in {"sweepstart", "release"} /\ pass'.start = pass.start
      BY <1>1, <2>1, PassAt
    <2> QED BY <1>6, <2>1, <2>2 DEF Polling
  <1>8. CASE ReleaseCheck
    <2>1. /\ rows' = rows /\ watchers' = watchers /\ unread' = unread /\ pass.pc = "tickend"
          /\ pass'.pc = "disposing" /\ pass'.start = pass.start
      BY <1>1, <1>8 DEF ReleaseCheck, Pass
    <2> QED BY <1>6, <2>1 DEF Polling
  <1>14. CASE ReleasePreserves \/ ReleaseDiscards
    <2>1. /\ pass.pc = "release" /\ watchers' = watchers /\ unread' = unread
          /\ \/ pass' = [pass EXCEPT !.pc = "sweepstart"]
             \/ \E times : ArmInTick(times, [pass EXCEPT !.pc = "sweepstart"])
      BY <1>14 DEF ReleasePreserves, ReleaseDiscards
    <2>2. pass'.pc = "sweepstart" /\ pass'.start = pass.start
      BY <1>1, <2>1, PassAt
    <2>3. Listened(p) => Fresh(p)
      BY <1>2, <2>1 DEF ListenAt
    <2> QED BY <1>3, <2>1, <2>2, <2>3 DEF ListenAt, Listened, Fresh, Polling
  <1>15. CASE OutputOfMissing
    BY <1>15 DEF OutputOfMissing, EnvInv
  <1>16. CASE PassEnds \/ Crash
    <2>1. pass'.pc = "idle" /\ watchers' = watchers /\ unread' = unread
      BY <1>16 DEF PassEnds, Crash, IdlePass
    <2> QED BY <1>3, <2>1 DEF ListenAt, Listened, Polling
  <1> QED
    BY <1>2, <1>7, <1>8, <1>9, <1>10, <1>11, <1>12, <1>13, <1>14, <1>15, <1>16, PollsListen,
       SweepsListen DEF PassStep, PollOver, Sweeps

LEMMA ListenInvariant ==
    ASSUME NoTeardown, PassIsShort
    PROVE  Spec => []ListenInv
  <1>1. Init => ListenInv
    BY DEF Init, ListenInv, ListenAt, Listened, IdlePass, NoRow, IsOpen, Polling
  <1>2. IInv /\ EnvInv /\ TimeInv /\ PolledInv /\ ListenInv /\ [Next]_vars => ListenInv'
    <2>1. ASSUME ListenInv, UNCHANGED vars PROVE ListenInv'
      BY <2>1 DEF vars, ListenInv, ListenAt, Listened, Fresh
    <2>2. IInv /\ Next => TypeOK'
      BY NextType
    <2>3. ASSUME IInv, EnvInv, TimeInv, PolledInv, ListenInv, Next PROVE ListenInv'
      <3>1. \A p \in Proc : ListenAt(p)'
        BY <2>2, <2>3, CallsListen, PassListens DEF Next
      <3> QED BY <3>1 DEF ListenInv
    <2> QED BY <2>1, <2>3
  <1> QED
    BY <1>1, <1>2, Invariant, EnvInvariant, TimeInvariant, PolledInvariant, PTL DEF Spec

\* The statements of the ledger write no reason but the one they are given.
LEMMA ReasonsGiven ==
    ASSUME NEW row \in Row, NEW reason \in WorkReason, NEW t \in Nat, NEW s \in Nat
    PROVE  /\ StampAlive(row, s).reason = row.reason
           /\ Terminalize(row, reason, t).reason \in {row.reason, reason}
           /\ MarkDelivered(row).reason = row.reason
           /\ MarkDelivered(Terminalize(row, reason, t)).reason \in {row.reason, reason}
           /\ Terminalize(StampAlive(row, s), reason, t).reason \in {row.reason, reason}
           /\ MarkDelivered(Terminalize(StampAlive(row, s), reason, t)).reason
                \in {row.reason, reason}
  <1>1. \A r \in Row : /\ StampAlive(r, s) \in Row /\ StampAlive(r, s).reason = r.reason
                       /\ MarkDelivered(r).reason = r.reason
    BY DEF StampAlive, MarkDelivered, Row, Later, IsOpen
  <1>2. \A r \in Row : /\ Terminalize(r, reason, t) \in Row
                       /\ Terminalize(r, reason, t).reason \in {r.reason, reason}
    BY DEF Terminalize, Row
  <1> QED BY <1>1, <1>2

\* Neither the clock, the container nor the tools fault a process.
LEMMA CallsFaultNone ==
    ASSUME IInv, Tick \/ Environment \/ Calls, NEW p \in Proc
    PROVE  ~Faulted(p)
  <1> USE DEF storeVars, envVars, callVars, history
  <1>1. TypeOK /\ rows \in [Proc -> Row] /\ now \in Nat
    BY PassParts DEF IInv
  <1>2. {"process_exit", "process_stopped"} \subseteq WorkReason
    BY DEF WorkReason
  <1>3. \A q \in Proc, reason \in {"process_exit", "process_stopped"} :
          /\ Terminalize(rows[q], reason, now).reason \in {rows[q].reason, reason}
          /\ MarkDelivered(Terminalize(rows[q], reason, now)).reason \in {rows[q].reason, reason}
    BY <1>1, <1>2, ReasonsGiven
  <1>4. CASE \/ Tick \/ Wipe \/ Vanish \/ ShutdownCall
             \/ \E q \in Proc : \/ ProcExit(q) \/ BackgroundProbe(q) \/ ReadOutput(q)
                                \/ PushReceive(q) \/ StopCall(q)
    BY <1>4 DEF Faulted, Tick, Wipe, Vanish, LoseContainer, ShutdownCall, ProcExit,
       BackgroundProbe, ReadOutput, PushReceive, StopCall
  <1>5. ASSUME NEW q \in Proc, PushApply(q) \/ StopApply(q)
        PROVE  ~Faulted(p)
    <2>1. CASE PushApply(q)
      <3>1. rows' \in { rows,
                        [rows EXCEPT ![q] = Terminalize(rows[q], "process_exit", now)],
                        [rows EXCEPT ![q] =
                           MarkDelivered(Terminalize(rows[q], "process_exit", now))] }
        BY <2>1 DEF PushApply
      <3> QED BY <1>1, <1>3, <3>1 DEF Faulted
    <2>2. CASE StopApply(q)
      <3>1. rows' = [rows EXCEPT ![q] = StoppedRow(rows[q])]
        BY <2>2 DEF StopApply
      <3>2. StoppedRow(rows[q]).reason \in {rows[q].reason, "process_stopped"}
        BY <1>3 DEF StoppedRow
      <3> QED BY <1>1, <3>1, <3>2 DEF Faulted
    <2> QED BY <1>5, <2>1, <2>2
  <1>6. CASE Acquire \/ ShutdownApply \/ \E q \in Proc : ReadOutputOfMissing(q)
    <2>1. UNCHANGED rows \/ StopRunning(TRUE, now)
      BY <1>6 DEF Acquire, DropBackup, ShutdownApply, ReadOutputOfMissing, TearDown
    <2> QED BY <1>1, <1>3, <2>1, StopRunningRows DEF Faulted
  <1>7. ASSUME NEW q \in Proc, Register(q)
        PROVE  ~Faulted(p)
    <2>1. PICK generation :
            rows' = [rows EXCEPT ![q] = RegisterRow(rows[q], ProcessWorkRow(generation, now))]
      BY <1>7 DEF Register
    <2>2. rows[q] = NoRow
      BY <1>7 DEF Register, IInv, RegisteredInv, LedgerInv
    <2>3. RegisterRow(rows[q], ProcessWorkRow(generation, now)) = ProcessWorkRow(generation, now)
      BY <2>2 DEF RegisterRow, NoRow
    <2>4. ProcessWorkRow(generation, now).reason = "none"
      BY DEF ProcessWorkRow, NoRow
    <2> QED BY <1>1, <2>1, <2>3, <2>4 DEF Faulted
  <1> QED BY <1>4, <1>5, <1>6, <1>7 DEF Environment, Calls

\* In a pass, only the sweep does, and only a process that it classified so.
LEMMA SweepFaults ==
    ASSUME IInv, PassStep \/ Crash, NEW p \in Proc, Faulted(p)
    PROVE  IsOpen(rows[p]) /\ pass.pc = "sweep" /\ pass.closing[p] = "no_liveness"
  <1> USE DEF storeVars, envVars, callVars, history
  <1>1. /\ TypeOK /\ rows \in [Proc -> Row] /\ now \in Nat /\ pass.at \in Nat
        /\ pass.closing \in [Proc -> WorkReason \cup {"none"}]
    BY PassParts DEF IInv
  <1>2. {"process_exit", "process_stopped", "watch_timeout"} \subseteq WorkReason
    BY DEF WorkReason
  <1>3. ~ \/ ResolveFails \/ TickAbsent \/ TickStart \/ QuotaFails \/ PollStart
          \/ EnsureFails \/ EnsureRuntime \/ PollFails \/ OutputFails
          \/ TickArms \/ TickEndsUnarmed
          \/ ReleaseCheck \/ ReleaseBlocked \/ ReleaseStart \/ ReleaseFails \/ SweepStart
          \/ Crash \/ \E q \in Proc : PollRead(q) \/ SweepLate(q) \/ SweepKeepsOwed(q)
    BY Zenon DEF Faulted, ResolveFails, TickAbsent, TickStart, QuotaFails, PollStart,
       EnsureFails, EnsureRuntime, PollFails, OutputFails, TickArms, TickEndsUnarmed,
       ReleaseCheck, ReleaseBlocked, ReleaseStart, ReleaseFails, SweepStart, Crash, PollRead,
       SweepLate, SweepKeepsOwed
  <1>4. ~(TickExpired \/ ReleasePreserves \/ ReleaseDiscards \/ OutputOfMissing)
    <2>1. ASSUME NEW deliver \in BOOLEAN, NEW t \in Nat, StopRunning(deliver, t) PROVE FALSE
      <3>1. \/ rows'[p] = rows[p]
            \/ rows'[p] = Terminalize(rows[p], "process_stopped", t)
            \/ rows'[p] = MarkDelivered(Terminalize(rows[p], "process_stopped", t))
        BY <1>1, <2>1, StopRunningRows
      <3>2. /\ Terminalize(rows[p], "process_stopped", t).reason
                 \in {rows[p].reason, "process_stopped"}
            /\ MarkDelivered(Terminalize(rows[p], "process_stopped", t)).reason
                 \in {rows[p].reason, "process_stopped"}
        BY <1>1, <1>2, ReasonsGiven
      <3> QED BY <3>1, <3>2 DEF Faulted
    <2>2. ASSUME TickExpired \/ ReleasePreserves \/ ReleaseDiscards \/ OutputOfMissing
          PROVE  \E deliver \in BOOLEAN, t \in {now, pass.at} : StopRunning(deliver, t)
      BY <2>2 DEF TickExpired, DropBackup, ReleasePreserves, ReleaseDiscards, OutputOfMissing,
         TearDown
    <2> QED BY <1>1, <2>1, <2>2
  <1>5. ASSUME NEW q \in Proc, NEW new, rows' = [rows EXCEPT ![q] = new]
        PROVE  q = p /\ new.reason = "no_liveness" /\ rows[q].reason # "no_liveness"
    BY <1>1, <1>5 DEF Faulted
  <1>6. ~(PollRunning \/ PollTimeout \/ PollExited)
    <2> SUFFICES ASSUME PollRunning \/ PollTimeout \/ PollExited PROVE FALSE
      OBVIOUS
    <2> DEFINE q == pass.cur
               over(reason) == Terminalize(Stamped(q), reason, pass.at)
    <2>1. q \in Proc
      BY DEF IInv, PollInv, PollRunning, PollTimeout, PollExited
    <2>2. \A reason \in {"process_exit", "watch_timeout"} :
            /\ Stamped(q).reason = rows[q].reason
            /\ over(reason).reason \in {rows[q].reason, reason}
            /\ MarkDelivered(over(reason)).reason \in {rows[q].reason, reason}
      BY <1>1, <1>2, <2>1, ReasonsGiven DEF Stamped
    <2>3. PICK reason \in {"process_exit", "watch_timeout"} :
            rows' \in { [rows EXCEPT ![q] = Stamped(q)], [rows EXCEPT ![q] = over(reason)],
                        [rows EXCEPT ![q] = MarkDelivered(over(reason))] }
      <3>1. CASE PollRunning
        BY <3>1 DEF PollRunning
      <3>2. CASE PollTimeout
        BY <3>2 DEF PollTimeout
      <3>3. CASE PollExited
        BY <3>3 DEF PollExited
      <3> QED BY <3>1, <3>2, <3>3
    <2> HIDE DEF over
    <2> QED BY <1>5, <2>1, <2>2, <2>3
  <1>7. ~OutputRead
    <2> SUFFICES ASSUME OutputRead PROVE FALSE
      OBVIOUS
    <2>1. pass.cur \in Proc
      BY DEF OutputRead, IInv, PollInv
    <2>2. MarkDelivered(rows[pass.cur]).reason = rows[pass.cur].reason
      BY <1>1, <1>2, <2>1, ReasonsGiven
    <2>3. rows' \in {rows, [rows EXCEPT ![pass.cur] = MarkDelivered(rows[pass.cur])]}
      BY DEF OutputRead
    <2> QED BY <1>5, <2>1, <2>2, <2>3 DEF Faulted
  <1>8. ASSUME NEW q \in Proc, SweepRetries(q) PROVE FALSE
    <2>1. rows' = [rows EXCEPT ![q] = MarkDelivered(rows[q])]
      BY <1>8 DEF SweepRetries
    <2>2. MarkDelivered(rows[q]).reason = rows[q].reason
      BY <1>1, <1>2, ReasonsGiven
    <2> QED BY <1>5, <2>1, <2>2
  <1>9. ~PassEnds
    <2>1. ASSUME PassEnds PROVE rows'[p] = rows[p] \/ rows'[p] = NoRow
      BY <2>1 DEF PassEnds, Kept, PruneRow
    <2> QED BY <2>1 DEF Faulted, NoRow
  <1>10. ASSUME NEW q \in Proc, SweepCloses(q) \/ SweepClosesUntold(q)
         PROVE  IsOpen(rows[p]) /\ pass.pc = "sweep" /\ pass.closing[p] = "no_liveness"
    <2>1. PICK reason \in WorkReason : reason = pass.closing[q]
      BY <1>1, <1>10 DEF SweepCloses, SweepClosesUntold, ToClose
    <2>2. rows' \in { [rows EXCEPT ![q] = Terminalize(rows[q], reason, pass.at)],
                      [rows EXCEPT ![q] = MarkDelivered(Terminalize(rows[q], reason, pass.at))] }
      BY <1>10, <2>1 DEF SweepCloses, SweepClosesUntold
    <2>3. /\ Terminalize(rows[q], reason, pass.at).reason \in {rows[q].reason, reason}
          /\ MarkDelivered(Terminalize(rows[q], reason, pass.at)).reason
               \in {rows[q].reason, reason}
      BY <1>1, ReasonsGiven
    <2>4. q = p /\ reason = "no_liveness"
      BY <1>5, <2>2, <2>3
    <2>5. IsOpen(rows[q]) /\ pass.pc = "sweep"
      BY <1>10 DEF SweepCloses, SweepClosesUntold
    <2> QED BY <2>1, <2>4, <2>5
  <1> QED BY <1>3, <1>4, <1>6, <1>7, <1>8, <1>9, <1>10 DEF PassStep

\* The reaper faults no process that every poll since its last stamp could read,
\* late as the pass may be, while passes are short.
THEOREM NoFaultWhileReadable ==
    ASSUME NoTeardown, PassIsShort
    PROVE  Spec => NoFaultOnReadable
  <1>1. IInv /\ ListenInv /\ [Next]_vars => [\A p \in Proc : Faulted(p) => unread[p] # "no"]_vars
    <2> SUFFICES ASSUME IInv, ListenInv, Next, NEW p \in Proc, Faulted(p)
                 PROVE  unread[p] # "no"
      OBVIOUS
    <2>1. IsOpen(rows[p]) /\ pass.pc = "sweep" /\ pass.closing[p] = "no_liveness"
      BY CallsFaultNone, SweepFaults DEF Next
    <2> QED BY <2>1 DEF ListenInv, ListenAt, Listened
  <1> QED BY <1>1, Invariant, ListenInvariant, PTL DEF Spec, NoFaultOnReadable
===============================================================================
