------------------------- MODULE BackgroundWorkProofs -------------------------
(***************************************************************************)
(* BackgroundWork keeps the contract of WorkContract, tells the model at   *)
(* most once and stamps honest receipts: for every set of processes, every *)
(* interval and timeout, every bound and every Scope.                      *)
(***************************************************************************)
EXTENDS BackgroundWork, WorkLedgerLemmas

-------------------------------------------------------------------------------
(* Types.                                                                  *)

LEMMA IdlePassType == IdlePass \in Pass
  BY DEF IdlePass, Pass, PassPc, NoWatcher, Watcher

\* A pass that fires.
LEMMA FiredType ==
    ASSUME TypeOK, NEW pc \in PassPc, NEW svc \in BOOLEAN, NEW live \in BOOLEAN
    PROVE  Fired(pc, svc, live) \in Pass
  BY IdlePassType DEF Fired, Pass, TypeOK

\* The alarm is armed for a time.
LEMMA ArmTimesType ==
    ASSUME now \in Nat, rows' \in [Proc -> Row], watchers' \in [Proc -> Watcher],
           NEW times \in SUBSET Nat
    PROVE  ArmTimes(times) \subseteq Nat
  <1>1. WorkHorizonTimes(rows', now) \subseteq Nat
    BY WorkHorizonType
  <1> QED BY <1>1 DEF ArmTimes, Watcher

LEMMA ArmType ==
    ASSUME now \in Nat, rows' \in [Proc -> Row], watchers' \in [Proc -> Watcher],
           alarm \in Nat \cup {None}, NEW times \in SUBSET Nat, Arm(times)
    PROVE  alarm' \in Nat \cup {None}
  BY ArmTimesType, SoonestType DEF Arm

LEMMA ArmInTickType ==
    ASSUME now \in Nat, rows' \in [Proc -> Row], watchers' \in [Proc -> Watcher],
           alarm \in Nat \cup {None}, NEW times \in SUBSET Nat,
           NEW p \in Pass, ArmInTick(times, p)
    PROVE  alarm' \in Nat \cup {None} /\ pass' \in Pass
  <1>1. alarm' \in Nat \cup {None}
    BY ArmType DEF ArmInTick
  <1>2. [p EXCEPT !.armed = TRUE, !.spent = FALSE] \in Pass
    BY DEF Pass
  <1> QED BY <1>1, <1>2 DEF ArmInTick

LEMMA SpendType ==
    ASSUME TypeOK, NEW k \in Nat, NEW n \in Nat, Spend(k, n)
    PROVE  used' \in [fails : Nat, losses : Nat, nonces : Nat]
  <1>1. used \in [fails : Nat, losses : Nat, nonces : Nat]
    BY DEF TypeOK
  <1>2. used' = [used EXCEPT !.fails = used.fails + k, !.nonces = used.nonces + n]
    BY DEF Spend
  <1>3. used.fails + k \in Nat /\ used.nonces + n \in Nat
    BY <1>1
  <1> QED BY <1>1, <1>2, <1>3

LEMMA OneType == ASSUME NEW b \in BOOLEAN PROVE One(b) \in Nat
  BY DEF One

\* The probe leaves a view, a nonce and the resources of their types.
LEMMA ProbeType ==
    ASSUME TypeOK, NEW fault \in ProbeFault, NEW t \in Nat, NEW k \in Nat,
           ProbeAndRecord(fault, t, k)
    PROVE  /\ gen' \in CurrentGeneration
           /\ nonce' \in Nat \cup {None}
           /\ used' \in [fails : Nat, losses : Nat, nonces : Nat]
  <1>1. used' \in [fails : Nat, losses : Nat, nonces : Nat]
    BY SpendType DEF ProbeAndRecord, One
  <1>2. nonce' \in Nat \cup {None}
    BY DEF ProbeAndRecord, TypeOK
  <1>3. /\ SetGeneration(UnknownGeneration) \in CurrentGeneration
        /\ SetGeneration([kind |-> "absent", value |-> t]) \in CurrentGeneration
        /\ \A n \in Nat : KnownGeneration(n) \in CurrentGeneration
    BY DEF TypeOK, SetGeneration, UnknownGeneration, KnownGeneration, CurrentGeneration
  <1>4. gen' \in CurrentGeneration
    BY <1>3 DEF ProbeAndRecord, TypeOK
  <1> QED BY <1>1, <1>2, <1>4

\* A teardown leaves every row a row, and closes open rows only.
LEMMA StopRunningRows ==
    ASSUME TypeOK, NEW deliver \in BOOLEAN, NEW t \in Nat, StopRunning(deliver, t)
    PROVE  /\ rows' \in [Proc -> Row]
           /\ status' \in [Proc -> {"none", "running", "settled"}]
           /\ \A p \in Proc :
                \/ rows'[p] = rows[p]
                \/ IsOpen(rows[p]) /\ rows'[p] = Terminalize(rows[p], "process_stopped", t)
                \/ /\ IsOpen(rows[p])
                   /\ rows'[p] = MarkDelivered(Terminalize(rows[p], "process_stopped", t))
  <1> DEFINE stopped(p) == Terminalize(rows[p], "process_stopped", t)
  <1>1. rows \in [Proc -> Row] /\ status \in [Proc -> {"none", "running", "settled"}]
    BY DEF TypeOK
  <1>2. "process_stopped" \in WorkReason
    BY DEF WorkReason
  <1>3. \A p \in Proc : /\ stopped(p) \in Row
                        /\ MarkDelivered(stopped(p)) \in Row
                        /\ ~IsOpen(rows[p]) => stopped(p) = rows[p]
    BY <1>1, <1>2, TerminalizeOnce, MarkDeliveredOnce
  <1>4. rows' = [p \in Proc |->
                  IF p \notin {q \in Proc : status[q] = "running"} THEN rows[p]
                  ELSE IF deliver /\ IsOpen(rows[p]) THEN MarkDelivered(stopped(p))
                  ELSE stopped(p)]
    BY DEF StopRunning
  <1>5. status' \in [Proc -> {"none", "running", "settled"}]
    BY <1>1 DEF StopRunning
  <1> HIDE DEF stopped
  <1>6. /\ rows' \in [Proc -> Row]
        /\ \A p \in Proc : \/ rows'[p] = rows[p]
                           \/ IsOpen(rows[p]) /\ rows'[p] = stopped(p)
                           \/ IsOpen(rows[p]) /\ rows'[p] = MarkDelivered(stopped(p))
    BY <1>1, <1>3, <1>4
  <1> QED BY <1>5, <1>6 DEF stopped

\* A new environment.
LEMMA AcquireType ==
    ASSUME TypeOK, AcquireRuntime
    PROVE  /\ gen' \in CurrentGeneration /\ nonce' \in Nat
           /\ used' \in [fails : Nat, losses : Nat, nonces : Nat]
           /\ real' \in [Proc -> {"none", "running", "exited", "gone"}]
           /\ compute' = "active"
  <1>1. used.nonces + 1 \in Nat
    BY DEF TypeOK
  <1>2. gen' \in CurrentGeneration /\ nonce' \in Nat
    BY <1>1 DEF AcquireRuntime, KnownGeneration, CurrentGeneration
  <1>3. used' \in [fails : Nat, losses : Nat, nonces : Nat]
    BY SpendType DEF AcquireRuntime
  <1>4. real' \in [Proc -> {"none", "running", "exited", "gone"}]
    BY DEF AcquireRuntime, Lose, TypeOK
  <1> QED BY <1>2, <1>3, <1>4 DEF AcquireRuntime

LEMMA ReplacesType ==
    ASSUME pass \in Pass, Replaces
    PROVE  pass' \in Pass
  BY DEF Replaces, Pass

\* An expired backup is dropped.
LEMMA DropBackupType ==
    ASSUME TypeOK, DropBackup
    PROVE  /\ rows' \in [Proc -> Row] /\ watchers' \in [Proc -> Watcher]
           /\ status' \in [Proc -> {"none", "running", "settled"}]
           /\ unread' \in [Proc -> {"no", "skipped", "missed"}]
  <1>1. rows' \in [Proc -> Row] /\ status' \in [Proc -> {"none", "running", "settled"}]
    <2>1. now \in Nat /\ StopRunning(TRUE, now)
      BY DEF DropBackup, TypeOK
    <2> QED BY <2>1, StopRunningRows
  <1>2. watchers' \in [Proc -> Watcher]
    BY DEF DropBackup, ClearWatchers, NoWatcher, Watcher
  <1>3. unread' \in [Proc -> {"no", "skipped", "missed"}]
    BY DEF DropBackup, SkipPolls, TypeOK
  <1> QED BY <1>1, <1>2, <1>3

\* What the clock, the container and the calls of the tools leave behind.
LEMMA CallsType ==
    ASSUME TypeOK, Tick \/ Environment \/ Calls
    PROVE  TypeOK'
  <1> USE DEF storeVars, envVars, callVars, history
  <1>1. /\ now \in Nat /\ alarm \in Nat \cup {None} /\ pass \in Pass
        /\ rows \in [Proc -> Row] /\ watchers \in [Proc -> Watcher]
        /\ status \in [Proc -> {"none", "running", "settled"}]
        /\ real \in [Proc -> {"none", "running", "exited", "gone"}]
        /\ reg \in [Proc -> {"none", "probed", "done"}]
        /\ push \in [Proc -> {"idle", "service", "noservice", "done"}]
        /\ stop \in [Proc -> {"idle", "stopped", "failed", "done"}]
        /\ told \in [Proc -> Nat] /\ gen \in CurrentGeneration
        /\ used \in [fails : Nat, losses : Nat, nonces : Nat]
        /\ NoWatcher \in Watcher /\ UnknownGeneration \in CurrentGeneration
    BY DEF TypeOK, NoWatcher, Watcher, UnknownGeneration, CurrentGeneration
  <1>2. Replaces => pass' \in Pass
    BY <1>1, ReplacesType
  <1>3. Lose \in [Proc -> {"none", "running", "exited", "gone"}]
    BY <1>1 DEF Lose
  <1>4. Spend(0, 0) \/ Spend(1, 0) \/ Spend(0, 1) =>
          used' \in [fails : Nat, losses : Nat, nonces : Nat]
    BY SpendType
  <1>5. [used EXCEPT !.losses = @ + 1] \in [fails : Nat, losses : Nat, nonces : Nat]
    BY <1>1
  <1>6. CASE Tick
    BY <1>1, <1>6 DEF Tick, TypeOK
  <1>7. ASSUME Wipe \/ Vanish PROVE TypeOK'
    <2>1. nonce' \in Nat \cup {None} /\ real' = Lose /\ used' = [used EXCEPT !.losses = @ + 1]
      BY <1>7 DEF Wipe, Vanish, LoseContainer
    <2> QED BY <1>3, <1>5, <1>7, <2>1 DEF Wipe, Vanish, LoseContainer, TypeOK
  <1>8. ASSUME NEW p \in Proc, ProcExit(p) PROVE TypeOK'
    BY <1>1, <1>8 DEF ProcExit, TypeOK
  <1>9. CASE Acquire
    <2>1. /\ rows' \in [Proc -> Row] /\ watchers' \in [Proc -> Watcher]
          /\ status' \in [Proc -> {"none", "running", "settled"}]
          /\ unread' \in [Proc -> {"no", "skipped", "missed"}]
      <3>1. CASE UNCHANGED <<storeVars, unread>>
        BY <1>1, <3>1 DEF TypeOK
      <3>2. CASE DropBackup
        BY <3>2, DropBackupType
      <3> QED BY <1>9, <3>1, <3>2 DEF Acquire
    <2>2. alarm' \in Nat \cup {None}
      <3>1. now' = now /\ now + IdleTimeout \in Nat
        BY <1>1, <1>9, WorkAssumption DEF Acquire
      <3> QED BY <1>1, <1>9, <2>1, <3>1, ArmType DEF Acquire
    <2> QED BY <1>1, <1>2, <1>9, <2>1, <2>2, AcquireType DEF Acquire, TypeOK
  <1>10. CASE ShutdownCall
    BY <1>3, <1>5, <1>10 DEF ShutdownCall, TypeOK
  <1>11. ASSUME TearDown, UNCHANGED <<now, nonce, real, reg, push, stop, used, history>>,
                pass' \in Pass, shut' \in BOOLEAN
         PROVE  TypeOK'
    <2>1. /\ rows' \in [Proc -> Row]
          /\ status' \in [Proc -> {"none", "running", "settled"}]
      BY <1>1, <1>11, StopRunningRows DEF TearDown
    <2>2. watchers' \in [Proc -> Watcher]
      BY <1>1, <1>11 DEF TearDown, ClearWatchers
    <2> QED BY <1>1, <1>11, <2>1, <2>2 DEF TearDown, TypeOK
  <1>12. CASE ShutdownApply
    BY <1>2, <1>11, <1>12 DEF ShutdownApply
  <1>13. ASSUME NEW p \in Proc, ReadOutputOfMissing(p) PROVE TypeOK'
    BY <1>2, <1>11, <1>13 DEF ReadOutputOfMissing, TypeOK
  <1>14. ASSUME NEW p \in Proc, BackgroundProbe(p) PROVE TypeOK'
    <2>1. PICK fault \in ProbeFault : ProbeAndRecord(fault, now, 0)
      BY <1>14 DEF BackgroundProbe
    <2>2. /\ gen' \in CurrentGeneration /\ nonce' \in Nat \cup {None}
          /\ used' \in [fails : Nat, losses : Nat, nonces : Nat]
      BY <1>1, <2>1, ProbeType
    <2>3. /\ real' \in [Proc -> {"none", "running", "exited", "gone"}]
          /\ status' \in [Proc -> {"none", "running", "settled"}]
          /\ reg' \in [Proc -> {"none", "probed", "done"}]
      BY <1>1, <1>14 DEF BackgroundProbe
    <2> QED BY <1>14, <2>2, <2>3 DEF BackgroundProbe, TypeOK
  <1>15. ASSUME NEW p \in Proc, Register(p) PROVE TypeOK'
    <2>1. NewWatcher(now) \in Watcher
      BY <1>1, WorkAssumption DEF NewWatcher, Watcher
    <2>2. (IF gen.kind = "known" THEN gen.value ELSE UNKNOWN_GENERATION) \in Nat
      BY <1>1 DEF CurrentGeneration, UNKNOWN_GENERATION
    <2>3. rows' \in [Proc -> Row] /\ watchers' \in [Proc -> Watcher]
      BY <1>1, <1>15, <2>1, <2>2, RegisterType DEF Register
    <2>4. alarm' \in Nat \cup {None} /\ pass' \in Pass
      <3>1. now + IdleTimeout \in Nat
        BY <1>1, WorkAssumption
      <3> QED BY <1>1, <1>2, <1>15, <2>3, <3>1, ArmType DEF Register
    <2> QED BY <1>15, <2>3, <2>4 DEF Register, TypeOK
  <1>16. ASSUME NEW p \in Proc, ReadOutput(p) PROVE TypeOK'
    BY <1>1, <1>16 DEF ReadOutput, TypeOK
  <1>17. ASSUME NEW p \in Proc, PushReceive(p) PROVE TypeOK'
    <2>1. used' \in [fails : Nat, losses : Nat, nonces : Nat]
      BY <1>17, SpendType, OneType DEF PushReceive
    <2> QED BY <1>1, <1>17, <2>1 DEF PushReceive, TypeOK
  <1>18. ASSUME NEW p \in Proc, PushApply(p) PROVE TypeOK'
    <2> DEFINE over == Terminalize(rows[p], "process_exit", now)
    <2>1. over \in Row /\ MarkDelivered(over) \in Row
      BY <1>1, TerminalizeOnce, MarkDeliveredOnce DEF WorkReason
    <2>2. rows' \in [Proc -> Row]
      BY <1>1, <1>18, <2>1 DEF PushApply
    <2>3. told' \in [Proc -> Nat] /\ used' \in [fails : Nat, losses : Nat, nonces : Nat]
      BY <1>1, <1>4, <1>18 DEF PushApply, Tell
    <2>4. /\ watchers' \in [Proc -> Watcher]
          /\ status' \in [Proc -> {"none", "running", "settled"}]
      BY <1>1, <1>18 DEF PushApply
    <2> QED BY <1>1, <1>18, <2>2, <2>3, <2>4 DEF PushApply, TypeOK
  <1>19. ASSUME NEW p \in Proc, StopCall(p) PROVE TypeOK'
    BY <1>1, <1>4, <1>19 DEF StopCall, TypeOK
  <1>20. ASSUME NEW p \in Proc, StopApply(p) PROVE TypeOK'
    <2>1. StoppedRow(rows[p]) \in Row
      BY <1>1, TerminalizeOnce, MarkDeliveredOnce DEF StoppedRow, WorkReason
    <2> QED BY <1>1, <1>20, <2>1 DEF StopApply, TypeOK
  <1> QED
    BY <1>6, <1>7, <1>8, <1>9, <1>10, <1>12, <1>13, <1>14, <1>15, <1>16, <1>17, <1>18,
       <1>19, <1>20 DEF Environment, Calls

\* The parts of the type invariant that the steps of a pass use.
LEMMA PassParts ==
    ASSUME TypeOK
    PROVE  /\ now \in Nat /\ alarm \in Nat \cup {None} /\ pass \in Pass
           /\ rows \in [Proc -> Row] /\ watchers \in [Proc -> Watcher]
           /\ status \in [Proc -> {"none", "running", "settled"}]
           /\ told \in [Proc -> Nat]
           /\ unread \in [Proc -> {"no", "skipped", "missed"}]
           /\ pass.at \in Nat /\ pass.due \in [Proc -> Watcher]
           /\ pass.closing \in [Proc -> WorkReason \cup {"none"}]
           /\ pass.owed \in SUBSET Proc /\ pass.start \in Nat
           /\ NoWatcher \in Watcher
           /\ [p \in Proc |-> NoWatcher] \in [Proc -> Watcher]
           /\ UnknownGeneration \in CurrentGeneration
  BY DEF TypeOK, Pass, NoWatcher, Watcher, UnknownGeneration, CurrentGeneration

LEMMA PostponedType ==
    ASSUME TypeOK, NEW w \in Watcher
    PROVE  /\ Postponed(w) \in Watcher
           /\ [Postponed(w) EXCEPT !.deadlineAt = pass.at + Renew] \in Watcher
  <1>1. pass.at + Poll \in Nat /\ pass.at + Renew \in Nat
    BY PassParts, WorkAssumption
  <1> QED BY <1>1 DEF Postponed, Watcher

LEMMA PollNextType ==
    ASSUME TypeOK, NEW p \in Proc
    PROVE  PollNext(p) \in Pass
  <1>1. [pass.due EXCEPT ![p] = NoWatcher] \in [Proc -> Watcher]
    BY PassParts
  <1> QED BY <1>1, PassParts DEF PollNext, Pass, PassPc

LEMMA SkipPollsType ==
    ASSUME TypeOK, SkipPolls
    PROVE  unread' \in [Proc -> {"no", "skipped", "missed"}]
  BY PassParts DEF SkipPolls

\* A poll is in flight for a process.
InFlight == pass.pc \in {"apply", "output"} => pass.cur \in Proc

LEMMA PollCatchType ==
    ASSUME TypeOK, NEW p \in Proc, NEW k \in Nat, PollCatch(p, k)
    PROVE  /\ watchers' \in [Proc -> Watcher] /\ pass' \in Pass
           /\ unread' \in [Proc -> {"no", "skipped", "missed"}]
           /\ gen' \in CurrentGeneration /\ nonce' \in Nat \cup {None}
           /\ used' \in [fails : Nat, losses : Nat, nonces : Nat]
  <1>1. watchers' \in [Proc -> Watcher]
    BY PassParts, PostponedType DEF PollCatch
  <1>2. pass' \in Pass
    <2>1. PollNext(p) \in Pass
      BY PollNextType
    <2>2. pass' = [PollNext(p) EXCEPT !.probed = TRUE]
      BY DEF PollCatch
    <2> QED BY <2>1, <2>2 DEF Pass
  <1>3. unread' \in [Proc -> {"no", "skipped", "missed"}]
    BY PassParts DEF PollCatch
  <1>4. /\ gen' \in CurrentGeneration /\ nonce' \in Nat \cup {None}
        /\ used' \in [fails : Nat, losses : Nat, nonces : Nat]
    <2>1. CASE pass.probed
      BY <2>1, SpendType DEF PollCatch, TypeOK
    <2>2. CASE ~pass.probed
      <3>1. PICK fault \in ProbeFault : ProbeAndRecord(fault, pass.at, k)
        BY <2>2 DEF PollCatch
      <3> QED BY <3>1, ProbeType, PassParts
    <2> QED BY <2>1, <2>2
  <1> QED BY <1>1, <1>2, <1>3, <1>4

\* The tick, up to the polls.
LEMMA TickType ==
    ASSUME TypeOK,
           \/ ResolveFails \/ TickAbsent \/ TickExpired \/ TickStart \/ QuotaFails
           \/ PollStart \/ EnsureFails \/ EnsureRuntime \/ \E p \in Proc : PollRead(p)
    PROVE  TypeOK'
  <1> USE DEF storeVars, envVars, callVars, history
  <1>1. CASE ResolveFails
    <2>1. Fired("sweepstart", FALSE, FALSE) \in Pass
      BY FiredType DEF PassPc
    <2>2. /\ used' \in [fails : Nat, losses : Nat, nonces : Nat]
          /\ unread' \in [Proc -> {"no", "skipped", "missed"}]
      BY <1>1, SpendType, SkipPollsType DEF ResolveFails
    <2> QED BY <1>1, <2>1, <2>2 DEF ResolveFails, TypeOK
  <1>2. CASE TickAbsent
    <2>1. Fired("sweepstart", TRUE, FALSE) \in Pass
      BY FiredType DEF PassPc
    <2>2. alarm' \in Nat \cup {None} /\ pass' \in Pass
      BY <1>2, <2>1, PassParts, ArmInTickType DEF TickAbsent
    <2>3. unread' \in [Proc -> {"no", "skipped", "missed"}]
      BY <1>2, SkipPollsType DEF TickAbsent
    <2> QED BY <1>2, <2>2, <2>3 DEF TickAbsent, TypeOK
  <1>3. CASE TickExpired
    <2>1. /\ rows' \in [Proc -> Row] /\ watchers' \in [Proc -> Watcher]
          /\ status' \in [Proc -> {"none", "running", "settled"}]
          /\ unread' \in [Proc -> {"no", "skipped", "missed"}]
      BY <1>3, DropBackupType DEF TickExpired
    <2>3. alarm' \in Nat \cup {None}
      BY <1>3, <2>1, PassParts, ArmTimesType, SoonestType DEF TickExpired
    <2>4. pass' \in Pass
      <3>1. Fired("sweepstart", TRUE, FALSE) \in Pass
        BY FiredType DEF PassPc
      <3>2. \E b \in BOOLEAN :
              pass' = [Fired("sweepstart", TRUE, FALSE) EXCEPT !.spent = FALSE, !.armed = b]
        BY <1>3 DEF TickExpired
      <3> QED BY <3>1, <3>2 DEF Pass
    <2> QED BY <1>3, <2>1, <2>3, <2>4, PassParts DEF TickExpired, TypeOK
  <1>4. CASE TickStart
    <2>1. Fired("quota", TRUE, TRUE) \in Pass
      BY FiredType DEF PassPc
    <2> QED BY <1>4, <2>1 DEF TickStart, TypeOK
  <1>5. CASE QuotaFails
    <2>1. [pass EXCEPT !.pc = "sweepstart"] \in Pass
      BY PassParts DEF Pass, PassPc
    <2>2. /\ used' \in [fails : Nat, losses : Nat, nonces : Nat]
          /\ unread' \in [Proc -> {"no", "skipped", "missed"}]
      BY <1>5, SpendType, SkipPollsType DEF QuotaFails
    <2> QED BY <1>5, <2>1, <2>2 DEF QuotaFails, TypeOK
  <1>6. CASE PollStart
    <2> DEFINE due == [p \in Proc |-> IF watchers[p].on /\ watchers[p].nextPollAt <= now
                                      THEN watchers[p] ELSE NoWatcher]
    <2>1. due \in [Proc -> Watcher]
      BY PassParts
    <2>2. \E pc \in {"ensure", "tickend"} :
            pass' = [pass EXCEPT !.at = now, !.due = due, !.pc = pc]
      BY <1>6 DEF PollStart
    <2> HIDE DEF due
    <2>3. pass' \in Pass
      BY <2>1, <2>2, PassParts DEF Pass, PassPc
    <2> QED BY <1>6, <2>3 DEF PollStart, TypeOK
  <1>7. CASE EnsureFails
    <2>1. pass' \in Pass
      BY <1>7, PassParts DEF EnsureFails, Pass, PassPc
    <2>2. watchers' \in [Proc -> Watcher]
      BY <1>7, PassParts, PostponedType DEF EnsureFails
    <2>3. /\ used' \in [fails : Nat, losses : Nat, nonces : Nat]
          /\ unread' \in [Proc -> {"no", "skipped", "missed"}]
      BY <1>7, SpendType, SkipPollsType DEF EnsureFails
    <2> QED BY <1>7, <2>1, <2>2, <2>3 DEF EnsureFails, TypeOK
  <1>8. CASE EnsureRuntime
    <2>1. [pass EXCEPT !.pc = "poll"] \in Pass
      BY PassParts DEF Pass, PassPc
    <2>2. CASE /\ pass' = [pass EXCEPT !.pc = "poll"]
               /\ UNCHANGED <<alarm, envVars, used>>
      BY <1>8, <2>1, <2>2 DEF EnsureRuntime, TypeOK
    <2>3. CASE /\ AcquireRuntime
               /\ ArmInTick({now + IdleTimeout}, [pass EXCEPT !.pc = "poll"])
      <3>1. now + IdleTimeout \in Nat
        BY PassParts, WorkAssumption
      <3>2. alarm' \in Nat \cup {None} /\ pass' \in Pass
        BY <1>8, <2>1, <2>3, <3>1, PassParts, ArmInTickType DEF EnsureRuntime
      <3>3. /\ gen' \in CurrentGeneration /\ nonce' \in Nat
            /\ used' \in [fails : Nat, losses : Nat, nonces : Nat]
            /\ real' \in [Proc -> {"none", "running", "exited", "gone"}]
            /\ compute' = "active"
        BY <2>3, AcquireType
      <3> QED BY <1>8, <3>2, <3>3 DEF EnsureRuntime, TypeOK
    <2> QED BY <1>8, <2>2, <2>3 DEF EnsureRuntime
  <1>9. ASSUME NEW p \in Proc, PollRead(p) PROVE TypeOK'
    <2>1. PICK seen \in {"running", "exited", "fail"} :
            pass' = [pass EXCEPT !.pc = "apply", !.cur = p, !.seen = seen]
      BY <1>9, PassParts DEF PollRead, Readable
    <2>2. pass' \in Pass
      BY <2>1, PassParts DEF Pass, PassPc
    <2>3. used' \in [fails : Nat, losses : Nat, nonces : Nat]
      BY <1>9, SpendType, OneType DEF PollRead, TypeOK, Readable
    <2> QED BY <1>9, <2>2, <2>3 DEF PollRead, TypeOK
  <1> QED BY <1>1, <1>2, <1>3, <1>4, <1>5, <1>6, <1>7, <1>8, <1>9

\* What a poll of a process leaves behind.
LEMMA PollType ==
    ASSUME TypeOK, InFlight,
           \/ PollRunning \/ PollFails \/ PollTimeout \/ PollExited
           \/ OutputFails \/ OutputOfMissing \/ OutputRead
    PROVE  TypeOK'
  <1> USE DEF storeVars, envVars, callVars, history
  <1>1. pass.cur \in Proc
    BY DEF InFlight, PollRunning, PollFails, PollTimeout, PollExited, OutputFails,
           OutputOfMissing, OutputRead
  <1>2. rows[pass.cur] \in Row /\ pass.due[pass.cur] \in Watcher
    BY <1>1, PassParts
  <1>3. /\ Stamped(pass.cur) \in Row
        /\ \A r \in WorkReason :
             /\ Terminalize(Stamped(pass.cur), r, pass.at) \in Row
             /\ MarkDelivered(Terminalize(Stamped(pass.cur), r, pass.at)) \in Row
    BY <1>2, PassParts, StampAliveKeeps, TerminalizeOnce, MarkDeliveredOnce DEF Stamped
  <1>4. PollNext(pass.cur) \in Pass
    BY <1>1, PollNextType
  <1>5. \A b \in BOOLEAN : One(b) \in Nat
    BY OneType
  <1>6. CASE PollRunning
    <2>1. watchers' \in [Proc -> Watcher]
      <3>1. PICK w \in Watcher : watchers' = [watchers EXCEPT ![pass.cur] = w]
        BY <1>2, <1>6, PostponedType DEF PollRunning
      <3> QED BY <3>1, PassParts
    <2>2. rows' \in [Proc -> Row] /\ unread' \in [Proc -> {"no", "skipped", "missed"}]
      BY <1>3, <1>6, PassParts DEF PollRunning
    <2>3. status' \in [Proc -> {"none", "running", "settled"}] /\ pass' \in Pass
      BY <1>4, <1>6, PassParts DEF PollRunning
    <2> QED BY <1>6, <2>1, <2>2, <2>3 DEF PollRunning, TypeOK
  <1>7. CASE PollFails
    <2>1. PollCatch(pass.cur, 0)
      BY <1>7 DEF PollFails
    <2> QED BY <1>1, <1>7, <2>1, PollCatchType DEF PollFails, TypeOK
  <1>8. CASE PollTimeout
    <2>1. rows' \in [Proc -> Row] /\ status' \in [Proc -> {"none", "running", "settled"}]
      <3>1. PICK row \in Row : rows' = [rows EXCEPT ![pass.cur] = row]
        BY <1>3, <1>8 DEF PollTimeout, WorkReason
      <3>2. status' = [status EXCEPT ![pass.cur] = "running"]
        BY <1>8 DEF PollTimeout
      <3> QED BY <3>1, <3>2, PassParts
    <2>2. \/ /\ watchers' = [watchers EXCEPT ![pass.cur] = NoWatcher]
             /\ pass' = PollNext(pass.cur)
             /\ UNCHANGED <<gen, nonce, used, unread>>
             /\ told' = told \/ Tell(pass.cur)
          \/ PollCatch(pass.cur, 1) /\ told' = told
      BY <1>8 DEF PollTimeout
    <2>3. told' \in [Proc -> Nat]
      BY <2>2, PassParts DEF Tell
    <2>4. /\ watchers' \in [Proc -> Watcher] /\ pass' \in Pass
          /\ unread' \in [Proc -> {"no", "skipped", "missed"}]
          /\ gen' \in CurrentGeneration /\ nonce' \in Nat \cup {None}
          /\ used' \in [fails : Nat, losses : Nat, nonces : Nat]
      BY <1>1, <1>4, <2>2, PassParts, PollCatchType DEF TypeOK
    <2> QED BY <1>8, <2>1, <2>3, <2>4 DEF PollTimeout, TypeOK
  <1>9. CASE PollExited
    <2>1. rows' \in [Proc -> Row] /\ unread' \in [Proc -> {"no", "skipped", "missed"}]
      BY <1>3, <1>9, PassParts DEF PollExited, WorkReason
    <2>2. status' \in [Proc -> {"none", "running", "settled"}]
      BY <1>9, PassParts DEF PollExited
    <2>3. pass' \in Pass
      BY <1>9, PassParts DEF PollExited, Pass, PassPc, IsOpen
    <2> QED BY <1>9, <2>1, <2>2, <2>3 DEF PollExited, TypeOK
  <1>10. CASE OutputFails
    <2>1. PICK b \in BOOLEAN : PollCatch(pass.cur, One(b))
      BY <1>10 DEF OutputFails
    <2> QED BY <1>1, <1>5, <1>10, <2>1, PollCatchType DEF OutputFails, TypeOK
  <1>11. CASE OutputOfMissing
    <2>1. /\ rows' \in [Proc -> Row]
          /\ status' \in [Proc -> {"none", "running", "settled"}]
      BY <1>11, PassParts, StopRunningRows DEF OutputOfMissing, TearDown
    <2>2. watchers' \in [Proc -> Watcher] /\ pass' \in Pass
      BY <1>11, PassParts, ReplacesType DEF OutputOfMissing, TearDown, ClearWatchers
    <2> QED BY <1>11, <2>1, <2>2, PassParts DEF OutputOfMissing, TearDown, TypeOK
  <1>12. CASE OutputRead
    <2>1. MarkDelivered(rows[pass.cur]) \in Row
      BY <1>2, MarkDeliveredOnce
    <2>2. rows' \in [Proc -> Row] /\ told' \in [Proc -> Nat]
      BY <1>12, <2>1, PassParts DEF OutputRead, Tell
    <2>3. watchers' \in [Proc -> Watcher] /\ pass' \in Pass
      BY <1>4, <1>12, PassParts DEF OutputRead
    <2> QED BY <1>12, <2>2, <2>3 DEF OutputRead, TypeOK
  <1> QED BY <1>6, <1>7, <1>8, <1>9, <1>10, <1>11, <1>12

\* The end of the tick, and the release of an idle environment.
LEMMA TickEndType ==
    ASSUME TypeOK,
           \/ TickArms \/ ReleaseBlocked \/ TickEndsUnarmed
           \/ ReleaseCheck \/ ReleaseStart
           \/ ReleasePreserves \/ ReleaseDiscards \/ ReleaseFails
    PROVE  TypeOK'
  <1> USE DEF storeVars, envVars, callVars, history
  <1>1. /\ [pass EXCEPT !.pc = "sweepstart"] \in Pass
        /\ [pass EXCEPT !.pc = "release"] \in Pass
    BY PassParts DEF Pass, PassPc
  <1>2. /\ now + IdleTimeout \in Nat /\ pass.at + IdleTimeout \in Nat
        /\ pass.at + RecoveryTtl \in Nat
    BY PassParts, WorkAssumption
  <1>3. CASE TickArms \/ ReleaseBlocked
    <2>1. PICK times \in SUBSET Nat : ArmInTick(times, [pass EXCEPT !.pc = "sweepstart"])
      BY <1>2, <1>3 DEF TickArms, ReleaseBlocked
    <2>2. alarm' \in Nat \cup {None} /\ pass' \in Pass
      BY <1>1, <1>3, <2>1, PassParts, ArmInTickType DEF TickArms, ReleaseBlocked
    <2> QED BY <1>3, <2>2 DEF TickArms, ReleaseBlocked, TypeOK
  <1>4. CASE TickEndsUnarmed
    <2>1. used' \in [fails : Nat, losses : Nat, nonces : Nat]
      BY <1>4, SpendType, OneType DEF TickEndsUnarmed
    <2> QED BY <1>1, <1>4, <2>1 DEF TickEndsUnarmed, TypeOK
  <1>5. CASE ReleaseCheck
    <2>1. used' \in [fails : Nat, losses : Nat, nonces : Nat]
      BY <1>5 DEF ReleaseCheck, TypeOK
    <2>2. pass' \in Pass
      BY <1>5, PassParts DEF ReleaseCheck, Pass, PassPc
    <2> QED BY <1>5, <2>1, <2>2 DEF ReleaseCheck, TypeOK
  <1>10. CASE ReleaseStart
    BY <1>1, <1>10 DEF ReleaseStart, TypeOK
  <1>6. Lose \in [Proc -> {"none", "running", "exited", "gone"}]
    BY DEF Lose, TypeOK
  <1>7. CASE ReleasePreserves
    <2>0. \A settled \in BOOLEAN :
            {pass.at + RecoveryTtl} \cup (IF settled THEN SweepTimes(rows) ELSE {}) \in SUBSET Nat
      BY <1>2, PassParts, LedgerAssumption DEF SweepTimes, Row
    <2>1. PICK settled \in BOOLEAN, times \in SUBSET Nat :
            /\ Spend(One(settled), 0) /\ StopRunning(settled, pass.at)
            /\ ArmInTick(times, [pass EXCEPT !.pc = "sweepstart"])
      BY <1>7, <2>0 DEF ReleasePreserves
    <2>2. /\ rows' \in [Proc -> Row]
          /\ status' \in [Proc -> {"none", "running", "settled"}]
          /\ used' \in [fails : Nat, losses : Nat, nonces : Nat]
      BY <2>1, PassParts, StopRunningRows, SpendType, OneType
    <2>3. alarm' \in Nat \cup {None} /\ pass' \in Pass
      BY <1>1, <1>7, <2>1, <2>2, PassParts, ArmInTickType DEF ReleasePreserves
    <2> QED BY <1>6, <1>7, <2>2, <2>3 DEF ReleasePreserves, TypeOK
  <1>8. CASE ReleaseDiscards
    <2>1. /\ rows' \in [Proc -> Row]
          /\ status' \in [Proc -> {"none", "running", "settled"}]
      BY <1>8, PassParts, StopRunningRows DEF ReleaseDiscards
    <2> QED BY <1>1, <1>6, <1>8, <2>1, PassParts DEF ReleaseDiscards, TypeOK
  <1>9. CASE ReleaseFails
    <2>1. used' \in [fails : Nat, losses : Nat, nonces : Nat]
      BY <1>9, SpendType DEF ReleaseFails
    <2>2. alarm' \in Nat \cup {None} /\ pass' \in Pass
      BY <1>1, <1>2, <1>9, PassParts, ArmInTickType DEF ReleaseFails
    <2> QED BY <1>9, <2>1, <2>2 DEF ReleaseFails, TypeOK
  <1> QED BY <1>3, <1>4, <1>5, <1>7, <1>8, <1>9, <1>10

\* The sweep, the fallback, and a restart.
LEMMA SweepType ==
    ASSUME TypeOK,
           \/ SweepStart \/ PassEnds \/ Crash
           \/ \E p \in Proc : \/ SweepCloses(p) \/ SweepClosesUntold(p) \/ SweepLate(p)
                              \/ SweepRetries(p) \/ SweepKeepsOwed(p)
    PROVE  TypeOK'
  <1> USE DEF storeVars, envVars, callVars, history
  <1>1. CASE SweepStart
    <2> DEFINE verdict(reap, p) ==
                 ClassifyWork(rows[p], IF reap THEN gen ELSE UnknownGeneration, now)
               closing(reap) == [p \in Proc |-> IF verdict(reap, p) = "alive" THEN "none"
                                                ELSE verdict(reap, p)]
               owed == {p \in Proc : IsOwed(rows[p])}
    <2>1. \A reap \in BOOLEAN : closing(reap) \in [Proc -> WorkReason \cup {"none"}]
      BY ClassifyWorkType DEF WorkReason
    <2>2. PICK reap \in BOOLEAN, pc \in {"rearm", "sweep"} :
            pass' = [pass EXCEPT !.reap = reap, !.at = now, !.owed = owed,
                                 !.closing = closing(reap), !.pc = pc]
      BY <1>1 DEF SweepStart
    <2>3. owed \in SUBSET Proc /\ closing(reap) \in [Proc -> WorkReason \cup {"none"}]
      BY <2>1
    <2> HIDE DEF closing, owed
    <2>4. pass' \in Pass
      BY <2>2, <2>3, PassParts DEF Pass, PassPc
    <2> QED BY <1>1, <2>4 DEF SweepStart, TypeOK
  <1>2. ASSUME NEW p \in Proc PROVE Classified(p) \in Pass /\ Retried(p) \in Pass
    BY PassParts DEF Classified, Retried, Pass
  <1>3. ASSUME NEW p \in Proc, SweepCloses(p) PROVE TypeOK'
    <2>1. pass.closing[p] \in WorkReason
      BY <1>3, PassParts DEF SweepCloses, ToClose
    <2>2. MarkDelivered(Terminalize(rows[p], pass.closing[p], pass.at)) \in Row
      BY <2>1, PassParts, TerminalizeOnce, MarkDeliveredOnce
    <2>3. rows' \in [Proc -> Row] /\ told' \in [Proc -> Nat]
      BY <1>3, <2>2, PassParts DEF SweepCloses, Tell
    <2>4. watchers' \in [Proc -> Watcher]
      <3>1. PICK w \in Watcher : watchers' = [watchers EXCEPT ![p] = w]
        BY <1>3, PassParts DEF SweepCloses
      <3> QED BY <3>1, PassParts
    <2>5. /\ real' \in [Proc -> {"none", "running", "exited", "gone"}]
          /\ status' \in [Proc -> {"none", "running", "settled"}]
          /\ used' \in [fails : Nat, losses : Nat, nonces : Nat]
      BY <1>3, SpendType, OneType DEF SweepCloses, ReapProcess, TypeOK
    <2> QED BY <1>2, <1>3, <2>3, <2>4, <2>5 DEF SweepCloses, TypeOK
  <1>4. ASSUME NEW p \in Proc, SweepClosesUntold(p) PROVE TypeOK'
    <2>1. pass.closing[p] \in WorkReason
      BY <1>4, PassParts DEF SweepClosesUntold, ToClose
    <2>2. Terminalize(rows[p], pass.closing[p], pass.at) \in Row
      BY <2>1, PassParts, TerminalizeOnce
    <2>3. rows' \in [Proc -> Row] /\ used' \in [fails : Nat, losses : Nat, nonces : Nat]
      BY <1>4, <2>2, PassParts, SpendType DEF SweepClosesUntold
    <2> QED BY <1>2, <1>4, <2>3 DEF SweepClosesUntold, TypeOK
  <1>5. ASSUME NEW p \in Proc, SweepLate(p) PROVE TypeOK'
    BY <1>2, <1>5 DEF SweepLate, TypeOK
  <1>6. ASSUME NEW p \in Proc, SweepRetries(p) PROVE TypeOK'
    <2>1. MarkDelivered(rows[p]) \in Row
      BY PassParts, MarkDeliveredOnce
    <2>2. rows' \in [Proc -> Row] /\ told' \in [Proc -> Nat]
      BY <1>6, <2>1, PassParts DEF SweepRetries, Tell
    <2> QED BY <1>2, <1>6, <2>2 DEF SweepRetries, TypeOK
  <1>7. ASSUME NEW p \in Proc, SweepKeepsOwed(p) PROVE TypeOK'
    <2>1. used' \in [fails : Nat, losses : Nat, nonces : Nat]
      BY <1>7, SpendType, OneType DEF SweepKeepsOwed
    <2> QED BY <1>2, <1>7, <2>1 DEF SweepKeepsOwed, TypeOK
  <1>8. CASE PassEnds
    <2>1. \A p \in Proc : Kept(p) \in Row
      BY PassParts, PruneKeepsUnsettled, LedgerAssumption DEF Kept
    <2>2. rows' \in [Proc -> Row] /\ told' \in [Proc -> Nat]
      BY <1>8, <2>1, PassParts DEF PassEnds
    <2>3. WatcherFloor \subseteq Nat
      <3> DEFINE polls == {watchers[p].nextPollAt : p \in Watched}
      <3>1. polls \subseteq Nat
        BY PassParts DEF Watched, Watcher
      <3>2. Watched # {} => Soonest(polls) \in Nat
        BY <3>1, SoonestIsLeast
      <3> HIDE DEF polls
      <3>3. WatcherFloor \subseteq {now + Poll, Soonest(polls)} /\ (Watched = {} => WatcherFloor = {})
        BY DEF WatcherFloor, polls
      <3>4. now + Poll \in Nat
        BY PassParts, WorkAssumption
      <3> QED BY <3>2, <3>3, <3>4
    <2>4. FallbackTimes \subseteq Nat
      BY <2>3, PassParts, WorkHorizonType DEF FallbackTimes
    <2>5. alarm' \in Nat \cup {None}
      BY <1>8, <2>4, PassParts, SoonestType DEF PassEnds, AlarmAfter
    <2> QED BY <1>8, <2>2, <2>5, IdlePassType DEF PassEnds, TypeOK
  <1>9. CASE Crash
    <2>1. /\ reg' \in [Proc -> {"none", "probed", "done"}]
          /\ push' \in [Proc -> {"idle", "service", "noservice", "done"}]
          /\ stop' \in [Proc -> {"idle", "stopped", "failed", "done"}]
      BY <1>9 DEF Crash, TypeOK
    <2>2. used' \in [fails : Nat, losses : Nat, nonces : Nat]
      BY <1>9, SpendType DEF Crash
    <2> QED BY <1>9, <2>1, <2>2, IdlePassType DEF Crash, TypeOK
  <1> QED BY <1>1, <1>3, <1>4, <1>5, <1>6, <1>7, <1>8, <1>9

-------------------------------------------------------------------------------
(* The inductive invariant.                                                *)

\* The row of each process agrees with the messages sent about it.
LedgerInv ==
    \A p \in Proc :
      /\ rows[p].state = "absent" => rows[p] = NoRow /\ told[p] = 0
      /\ IsOpen(rows[p]) => ~rows[p].delivered
      /\ IsOpen(rows[p]) \/ IsOwed(rows[p]) => told[p] = 0
      /\ IsSettled(rows[p]) =>
           told[p] = 1 \/ (told[p] = 0 /\ rows[p].reason = "process_stopped")

\* Only a registered process has a row or a watcher, in the stores or in the
\* snapshot of the pass.
RegisteredInv ==
    \A p \in Proc :
      rows[p].state # "absent" \/ watchers[p].on \/ pass.due[p].on => reg[p] = "done"

\* The poll in flight is of a registered process; while it reads the output, the
\* row is not open, and is owed when this poll closed it.
PollInv ==
    /\ pass.pc \in {"apply", "output"} => pass.cur \in Proc /\ reg[pass.cur] = "done"
    /\ pass.pc = "output" =>
         /\ ~IsOpen(rows[pass.cur])
         /\ pass.closed => IsOwed(rows[pass.cur])

\* The rows the sweep read as owed and has not retried yet are owed still.
SweepInv == pass.pc = "sweep" => \A p \in pass.owed : IsOwed(rows[p])

IInv == TypeOK /\ LedgerInv /\ RegisteredInv /\ PollInv /\ SweepInv

-------------------------------------------------------------------------------
(* What a step may do to one row and to the messages about it.             *)

Quiet(p) ==
    /\ rows'[p].state = rows[p].state /\ rows'[p].delivered = rows[p].delivered
    /\ rows'[p].reason = rows[p].reason /\ told'[p] = told[p]
    /\ rows[p].state = "absent" => rows'[p] = rows[p]
    /\ reg'[p] = "done" <=> reg[p] = "done"

Opened(p) ==
    /\ rows[p].state = "absent" /\ reg[p] # "done" /\ reg'[p] = "done"
    /\ IsOpen(rows'[p]) /\ ~rows'[p].delivered /\ rows'[p].reason = "none"
    /\ told'[p] = told[p]

Closed(p, reason) ==
    /\ IsOpen(rows[p]) /\ rows'[p].reason = reason /\ reg'[p] = reg[p]
    /\ \/ IsOwed(rows'[p]) /\ told'[p] = told[p]
       \/ IsSettled(rows'[p]) /\ told'[p] = told[p] + 1
       \/ IsSettled(rows'[p]) /\ told'[p] = told[p] /\ reason = "process_stopped"

ToldOwed(p) ==
    /\ IsOwed(rows[p]) /\ IsSettled(rows'[p]) /\ reg'[p] = reg[p]
    /\ rows'[p].reason = rows[p].reason /\ told'[p] = told[p] + 1

Pruned(p) == IsSettled(rows[p]) /\ rows'[p] = NoRow /\ told'[p] = 0 /\ reg'[p] = reg[p]

\* What any actor may do, and what only the pass does.
CallMove(p) == Quiet(p) \/ Opened(p) \/ \E reason \in WorkReason : Closed(p, reason)

LedgerMove(p) == CallMove(p) \/ ToldOwed(p) \/ Pruned(p)

\* These moves keep the rows and the messages in agreement.
LEMMA MovesKeepLedger ==
    ASSUME TypeOK, LedgerInv, \A p \in Proc : LedgerMove(p)
    PROVE  LedgerInv'
  <1> SUFFICES ASSUME NEW p \in Proc
               PROVE  /\ rows'[p].state = "absent" => rows'[p] = NoRow /\ told'[p] = 0
                      /\ IsOpen(rows'[p]) => ~rows'[p].delivered
                      /\ IsOpen(rows'[p]) \/ IsOwed(rows'[p]) => told'[p] = 0
                      /\ IsSettled(rows'[p]) =>
                           \/ told'[p] = 1
                           \/ told'[p] = 0 /\ rows'[p].reason = "process_stopped"
    BY DEF LedgerInv
  <1> USE DEF IsOpen, IsOwed, IsSettled
  <1>1. told[p] \in Nat
    BY DEF TypeOK
  <1>2. CASE Quiet(p)
    BY <1>2 DEF LedgerInv, Quiet
  <1>3. CASE Opened(p)
    BY <1>3 DEF LedgerInv, Opened
  <1>4. ASSUME NEW reason \in WorkReason, Closed(p, reason)
        PROVE  /\ rows'[p].state = "closed"
               /\ ~rows'[p].delivered => told'[p] = 0
               /\ rows'[p].delivered =>
                    told'[p] = 1 \/ (told'[p] = 0 /\ rows'[p].reason = "process_stopped")
    BY <1>1, <1>4 DEF LedgerInv, Closed
  <1>5. CASE ToldOwed(p)
    BY <1>1, <1>5 DEF LedgerInv, ToldOwed
  <1>6. CASE Pruned(p)
    BY <1>6 DEF Pruned, NoRow
  <1> QED BY <1>2, <1>3, <1>4, <1>5, <1>6 DEF LedgerMove, CallMove

\* A step that leaves the rows and the messages alone.
LEMMA FrameIsQuiet ==
    ASSUME UNCHANGED <<rows, told>>, NEW p \in Proc, reg'[p] = "done" <=> reg[p] = "done"
    PROVE  CallMove(p)
  BY DEF CallMove, Quiet

\* An open row that was closed: owed, or stamped with a message, or stopped.
LEMMA ClosingMoves ==
    ASSUME TypeOK, LedgerInv, NEW p \in Proc, IsOpen(rows[p]),
           NEW reason \in WorkReason, NEW t \in Nat, UNCHANGED reg,
           \/ rows'[p] = Terminalize(rows[p], reason, t) /\ told'[p] = told[p]
           \/ /\ rows'[p] = MarkDelivered(Terminalize(rows[p], reason, t))
              /\ told'[p] = told[p] + 1 \/ (told'[p] = told[p] /\ reason = "process_stopped")
    PROVE  CallMove(p)
  <1>1. rows[p] \in Row /\ ~rows[p].delivered
    BY PassParts DEF LedgerInv
  <1>2. Closed(p, reason)
    BY <1>1, CloseOpenRow DEF Closed
  <1> QED BY <1>2 DEF CallMove

\* The loss of the environment closes open rows, as asked for.
LEMMA StopRunningMoves ==
    ASSUME TypeOK, LedgerInv, NEW deliver \in BOOLEAN, NEW t \in Nat,
           StopRunning(deliver, t), UNCHANGED <<told, reg>>
    PROVE  \A p \in Proc : CallMove(p)
  <1> SUFFICES ASSUME NEW p \in Proc PROVE CallMove(p)
    OBVIOUS
  <1>1. CASE rows'[p] = rows[p]
    BY <1>1 DEF CallMove, Quiet
  <1>2. "process_stopped" \in WorkReason
    BY DEF WorkReason
  <1>3. CASE rows'[p] # rows[p]
    BY <1>2, <1>3, StopRunningRows, ClosingMoves
  <1> QED BY <1>1, <1>3

\* The clock, the container and the tools make call moves.
LEMMA CallsMove ==
    ASSUME TypeOK, LedgerInv, RegisteredInv, Tick \/ Environment \/ Calls
    PROVE  \A p \in Proc : CallMove(p)
  <1> USE DEF storeVars, envVars, callVars, history
  <1>1. /\ reg \in [Proc -> {"none", "probed", "done"}]
        /\ rows \in [Proc -> Row] /\ now \in Nat /\ told \in [Proc -> Nat]
    BY DEF TypeOK
  <1>2. CASE Tick \/ Wipe \/ Vanish \/ ShutdownCall
    <2>1. UNCHANGED <<rows, told, reg>>
      BY <1>2 DEF Tick, Wipe, Vanish, LoseContainer, ShutdownCall
    <2> QED BY <2>1, FrameIsQuiet
  <1>10. CASE Acquire
    <2>1. UNCHANGED <<told, reg>> /\ (UNCHANGED rows \/ StopRunning(TRUE, now))
      BY <1>10 DEF Acquire, DropBackup
    <2>2. CASE UNCHANGED rows
      BY <2>1, <2>2, FrameIsQuiet
    <2>3. CASE StopRunning(TRUE, now)
      BY <1>1, <2>1, <2>3, StopRunningMoves
    <2> QED BY <2>1, <2>2, <2>3
  <1>3. ASSUME NEW p \in Proc, ProcExit(p) \/ ReadOutput(p) \/ PushReceive(p) \/ StopCall(p)
        PROVE  \A q \in Proc : CallMove(q)
    <2>1. UNCHANGED <<rows, told, reg>>
      BY <1>3 DEF ProcExit, ReadOutput, PushReceive, StopCall
    <2> QED BY <2>1, FrameIsQuiet
  <1>4. ASSUME NEW p \in Proc, BackgroundProbe(p) PROVE \A q \in Proc : CallMove(q)
    <2>1. UNCHANGED <<rows, told>> /\ reg[p] = "none" /\ reg' = [reg EXCEPT ![p] = "probed"]
      BY <1>4 DEF BackgroundProbe
    <2>2. \A q \in Proc : reg'[q] = "done" <=> reg[q] = "done"
      BY <1>1, <2>1
    <2> QED BY <2>1, <2>2, FrameIsQuiet
  <1>5. CASE ShutdownApply
    BY <1>1, <1>5, StopRunningMoves DEF ShutdownApply, TearDown
  <1>6. ASSUME NEW p \in Proc, ReadOutputOfMissing(p) PROVE \A q \in Proc : CallMove(q)
    BY <1>1, <1>6, StopRunningMoves DEF ReadOutputOfMissing, TearDown
  <1>7. ASSUME NEW p \in Proc, Register(p) PROVE \A q \in Proc : CallMove(q)
    <2> DEFINE generation == IF gen.kind = "known" THEN gen.value ELSE UNKNOWN_GENERATION
               new == RegisterRow(rows[p], ProcessWorkRow(generation, now))
    <2>1. generation \in Nat
      BY DEF TypeOK, CurrentGeneration, UNKNOWN_GENERATION
    <2>2. rows[p] = NoRow /\ rows[p].state = "absent"
      BY <1>1, <1>7 DEF Register, RegisteredInv, LedgerInv, Row
    <2>3. IsOpen(new) /\ ~new.delivered /\ new.reason = "none"
      BY <1>1, <2>1, <2>2, RegisterType DEF IsOpen
    <2>4. /\ rows' = [rows EXCEPT ![p] = new] /\ reg' = [reg EXCEPT ![p] = "done"]
          /\ reg[p] = "probed" /\ told' = told
      BY <1>7 DEF Register
    <2> HIDE DEF new
    <2>5. Opened(p)
      BY <1>1, <2>2, <2>3, <2>4 DEF Opened
    <2>6. \A q \in Proc \ {p} : Quiet(q)
      BY <1>1, <2>4 DEF Quiet
    <2> QED BY <2>5, <2>6 DEF CallMove
  <1>8. ASSUME NEW p \in Proc, PushApply(p) PROVE \A q \in Proc : CallMove(q)
    <2>1. \A q \in Proc \ {p} : Quiet(q)
      BY <1>1, <1>8 DEF PushApply, Tell, Quiet
    <2>2. CASE rows' = rows /\ told' = told
      BY <1>8, <2>2, FrameIsQuiet DEF PushApply
    <2>3. CASE IsOpen(rows[p]) /\ rows' # rows
      <3>1. rows[p].state # "absent"
        BY <2>3 DEF IsOpen
      <3>2. \/ /\ rows'[p] = Terminalize(rows[p], "process_exit", now)
               /\ told'[p] = told[p]
            \/ /\ rows'[p] = MarkDelivered(Terminalize(rows[p], "process_exit", now))
               /\ told'[p] = told[p] + 1
        BY <1>1, <1>8, <2>3, <3>1 DEF PushApply, Tell
      <3>3. UNCHANGED reg
        BY <1>8 DEF PushApply
      <3>4. CallMove(p)
        BY <1>1, <2>3, <3>2, <3>3, ClosingMoves DEF WorkReason
      <3> QED BY <2>1, <3>4 DEF CallMove
    <2>4. ~IsOpen(rows[p]) => rows' = rows /\ told' = told
      BY <1>8 DEF PushApply
    <2>5. rows' = rows /\ IsOpen(rows[p]) => FALSE
      <3> SUFFICES ASSUME rows' = rows, IsOpen(rows[p]) PROVE FALSE
        OBVIOUS
      <3>1. \/ rows'[p] = Terminalize(rows[p], "process_exit", now)
            \/ rows'[p] = MarkDelivered(Terminalize(rows[p], "process_exit", now))
        BY <1>1, <1>8 DEF PushApply
      <3>2. ~rows[p].delivered
        BY DEF LedgerInv
      <3> QED BY <1>1, <3>1, <3>2, CloseOpenRow DEF WorkReason, IsOpen, IsOwed, IsSettled
    <2> QED BY <2>2, <2>3, <2>4, <2>5
  <1>9. ASSUME NEW p \in Proc, StopApply(p) PROVE \A q \in Proc : CallMove(q)
    <2>1. rows' = [rows EXCEPT ![p] = StoppedRow(rows[p])] /\ UNCHANGED <<told, reg>>
      BY <1>9 DEF StopApply
    <2>2. \A q \in Proc \ {p} : Quiet(q)
      BY <1>1, <2>1 DEF Quiet
    <2>3. ASSUME ~IsOpen(rows[p]) PROVE CallMove(p)
      BY <1>1, <2>1, <2>3 DEF StoppedRow, CallMove, Quiet
    <2>4. ASSUME IsOpen(rows[p]) PROVE CallMove(p)
      BY <1>1, <2>1, <2>4, ClosingMoves DEF StoppedRow, WorkReason
    <2> QED BY <2>2, <2>3, <2>4 DEF CallMove
  <1> QED
    BY <1>2, <1>3, <1>4, <1>5, <1>6, <1>7, <1>8, <1>9, <1>10 DEF Environment, Calls

\* What a poll makes of the row of its process, after the stamp.
LEMMA PolledRow ==
    ASSUME TypeOK, LedgerInv, NEW p \in Proc, NEW reason \in WorkReason
    PROVE  LET over == Terminalize(Stamped(p), reason, pass.at)
           IN  /\ Stamped(p).state = rows[p].state /\ Stamped(p).delivered = rows[p].delivered
               /\ Stamped(p).reason = rows[p].reason
               /\ ~IsOpen(rows[p]) => Stamped(p) = rows[p] /\ over = rows[p]
               /\ IsOpen(rows[p]) => /\ IsOwed(over) /\ IsSettled(MarkDelivered(over))
                                     /\ over.reason = reason
                                     /\ MarkDelivered(over).reason = reason
               /\ ~IsOpen(over)
  <1>1. rows[p] \in Row /\ pass.at \in Nat /\ (IsOpen(rows[p]) => ~rows[p].delivered)
    BY PassParts DEF LedgerInv
  <1>2. /\ Stamped(p) \in Row
        /\ Stamped(p).state = rows[p].state /\ Stamped(p).delivered = rows[p].delivered
        /\ Stamped(p).reason = rows[p].reason
        /\ ~IsOpen(rows[p]) => Stamped(p) = rows[p]
    BY <1>1, StampAliveKeeps DEF Stamped
  <1>3. IsOpen(Stamped(p)) <=> IsOpen(rows[p])
    BY <1>2 DEF IsOpen
  <1>4. CASE IsOpen(rows[p])
    BY <1>1, <1>2, <1>3, <1>4, CloseOpenRow, TerminalizeOnce
  <1>5. CASE ~IsOpen(rows[p])
    BY <1>1, <1>2, <1>3, <1>5, TerminalizeOnce
  <1> QED BY <1>4, <1>5

\* Telling about a row that is owed, or that is gone.
LEMMA TellingMoves ==
    ASSUME TypeOK, LedgerInv, NEW p \in Proc, UNCHANGED reg,
           ~IsOpen(rows[p]), ~rows[p].delivered,
           rows' = [rows EXCEPT ![p] = MarkDelivered(rows[p])], Tell(p)
    PROVE  \A q \in Proc : LedgerMove(q)
  <1>1. rows \in [Proc -> Row] /\ told \in [Proc -> Nat]
    BY PassParts
  <1>2. \A q \in Proc \ {p} : Quiet(q)
    BY <1>1 DEF Quiet, Tell
  <1>3. CASE rows[p].state = "absent"
    <2>1. MarkDelivered(rows[p]) = rows[p]
      BY <1>1, <1>3, MarkDeliveredOnce DEF IsOwed
    <2> QED BY <1>1, <1>2, <1>3, <2>1 DEF Quiet, Tell, LedgerMove, CallMove
  <1>4. CASE rows[p].state # "absent"
    <2>1. IsOwed(rows[p])
      BY <1>1, <1>4 DEF IsOwed, IsOpen, Row
    <2>2. ToldOwed(p)
      BY <1>1, <1>4, <2>1, MarkDeliveredOnce DEF ToldOwed, Tell
    <2> QED BY <1>2, <2>2 DEF LedgerMove, CallMove
  <1> QED BY <1>3, <1>4

\* The steps of a pass, and a restart, make legal moves.
LEMMA PassMoves ==
    ASSUME IInv, PassStep \/ Crash
    PROVE  \A p \in Proc : LedgerMove(p)
  <1> USE DEF storeVars, envVars, callVars, history
  <1>1. /\ TypeOK /\ LedgerInv
        /\ reg \in [Proc -> {"none", "probed", "done"}]
        /\ rows \in [Proc -> Row] /\ now \in Nat /\ told \in [Proc -> Nat]
        /\ pass.closing \in [Proc -> WorkReason \cup {"none"}] /\ pass.at \in Nat
    BY PassParts DEF IInv, TypeOK
  <1>2. ASSUME \A p \in Proc : CallMove(p) PROVE \A p \in Proc : LedgerMove(p)
    BY <1>2 DEF LedgerMove
  <1>3. CASE \/ ResolveFails \/ TickAbsent \/ TickStart \/ QuotaFails \/ PollStart
             \/ EnsureFails \/ EnsureRuntime \/ PollFails \/ OutputFails
             \/ TickArms \/ TickEndsUnarmed
             \/ ReleaseCheck \/ ReleaseBlocked \/ ReleaseStart \/ ReleaseFails \/ SweepStart
             \/ \E p \in Proc : PollRead(p) \/ SweepLate(p) \/ SweepKeepsOwed(p)
    <2>1. UNCHANGED <<rows, told, reg>>
      BY <1>3 DEF ResolveFails, TickAbsent, TickStart, QuotaFails, PollStart, EnsureFails,
           EnsureRuntime, PollFails, OutputFails, TickArms, TickEndsUnarmed, ReleaseCheck,
           ReleaseBlocked, ReleaseStart, ReleaseFails, SweepStart, PollRead, SweepLate, SweepKeepsOwed
    <2> QED BY <1>2, <2>1, FrameIsQuiet
  <1>4. CASE Crash
    <2>1. UNCHANGED <<rows, told>>
      BY <1>4 DEF Crash
    <2>2. \A p \in Proc : reg'[p] = "done" <=> reg[p] = "done"
      BY <1>1, <1>4 DEF Crash
    <2> QED BY <1>2, <2>1, <2>2, FrameIsQuiet
  <1>5. CASE TickExpired \/ OutputOfMissing \/ ReleaseDiscards
    BY <1>1, <1>2, <1>5, StopRunningMoves
       DEF TickExpired, DropBackup, OutputOfMissing, ReleaseDiscards, TearDown
  <1>6. CASE ReleasePreserves
    <2>1. PICK settled \in BOOLEAN : StopRunning(settled, pass.at)
      BY <1>6 DEF ReleasePreserves
    <2>2. UNCHANGED <<told, reg>>
      BY <1>6 DEF ReleasePreserves
    <2> QED BY <1>1, <1>2, <2>1, <2>2, StopRunningMoves
  <1>7. CASE PollRunning
    <2>1. pass.cur \in Proc
      BY <1>7 DEF IInv, PollInv, PollRunning
    <2>2. rows' = [rows EXCEPT ![pass.cur] = Stamped(pass.cur)] /\ UNCHANGED <<told, reg>>
      BY <1>7 DEF PollRunning
    <2>3. "process_exit" \in WorkReason
      BY DEF WorkReason
    <2>4. \A p \in Proc : Quiet(p)
      <3> SUFFICES ASSUME NEW p \in Proc PROVE Quiet(p)
        OBVIOUS
      <3>1. CASE p # pass.cur
        BY <1>1, <2>2, <3>1 DEF Quiet
      <3>2. CASE p = pass.cur
        BY <1>1, <2>1, <2>2, <2>3, <3>2, PolledRow DEF Quiet, IsOpen
      <3> QED BY <3>1, <3>2
    <2> QED BY <2>4 DEF LedgerMove, CallMove
  <1>8. CASE PollExited
    <2> DEFINE over == Terminalize(Stamped(pass.cur), "process_exit", pass.at)
    <2>1. pass.cur \in Proc /\ "process_exit" \in WorkReason
      BY <1>8 DEF IInv, PollInv, PollExited, WorkReason
    <2>2. rows' = [rows EXCEPT ![pass.cur] = over] /\ UNCHANGED <<told, reg>>
      BY <1>8 DEF PollExited
    <2>3. /\ ~IsOpen(rows[pass.cur]) => over = rows[pass.cur]
          /\ IsOpen(rows[pass.cur]) => IsOwed(over) /\ over.reason = "process_exit"
      BY <1>1, <2>1, PolledRow
    <2> HIDE DEF over
    <2>4. \A p \in Proc \ {pass.cur} : Quiet(p)
      BY <1>1, <2>2 DEF Quiet
    <2>5. ASSUME IsOpen(rows[pass.cur]) PROVE Closed(pass.cur, "process_exit")
      BY <1>1, <2>1, <2>2, <2>3, <2>5 DEF Closed
    <2>6. ASSUME ~IsOpen(rows[pass.cur]) PROVE Quiet(pass.cur)
      BY <1>1, <2>1, <2>2, <2>3, <2>6 DEF Quiet
    <2> QED BY <2>1, <2>4, <2>5, <2>6 DEF LedgerMove, CallMove
  <1>9. CASE PollTimeout
    <2> DEFINE p == pass.cur
               over == Terminalize(Stamped(p), "watch_timeout", pass.at)
    <2>1. p \in Proc /\ "watch_timeout" \in WorkReason
      BY <1>9 DEF IInv, PollInv, PollTimeout, WorkReason
    <2>2. /\ ~IsOpen(rows[p]) => over = rows[p]
          /\ IsOpen(rows[p]) => /\ IsOwed(over) /\ over.reason = "watch_timeout"
                                /\ IsSettled(MarkDelivered(over))
                                /\ MarkDelivered(over).reason = "watch_timeout"
      BY <1>1, <2>1, PolledRow
    <2>3. /\ UNCHANGED reg
          /\ \/ rows' = [rows EXCEPT ![p] = over] /\ told' = told
             \/ /\ ~AlreadyTold(over, IsOpen(rows[p]))
                /\ rows' = [rows EXCEPT ![p] = MarkDelivered(over)] /\ Tell(p)
      BY <1>9 DEF PollTimeout
    <2> HIDE DEF over, p
    <2>4. \A q \in Proc \ {p} : Quiet(q)
      BY <1>1, <2>3 DEF Quiet, Tell
    <2>5. ASSUME IsOpen(rows[p]) PROVE Closed(p, "watch_timeout")
      BY <1>1, <2>1, <2>2, <2>3, <2>5 DEF Closed, Tell, IsOpen
    <2>6. CASE IsOpen(rows[p])
      BY <2>1, <2>4, <2>5, <2>6 DEF LedgerMove, CallMove
    <2>7. CASE ~IsOpen(rows[p]) /\ rows' = [rows EXCEPT ![p] = over] /\ told' = told
      <3>1. Quiet(p)
        BY <1>1, <2>1, <2>2, <2>3, <2>7 DEF Quiet
      <3> QED BY <2>4, <3>1 DEF LedgerMove, CallMove
    <2>8. CASE /\ ~IsOpen(rows[p]) /\ ~AlreadyTold(over, IsOpen(rows[p]))
               /\ rows' = [rows EXCEPT ![p] = MarkDelivered(over)] /\ Tell(p)
      BY <1>1, <2>1, <2>2, <2>3, <2>8, TellingMoves DEF AlreadyTold
    <2> QED BY <2>3, <2>6, <2>7, <2>8
  <1>10. CASE OutputRead
    <2> DEFINE p == pass.cur
    <2>1. p \in Proc /\ ~IsOpen(rows[p]) /\ (pass.closed => IsOwed(rows[p]))
      BY <1>10 DEF IInv, PollInv, OutputRead
    <2>2. CASE AlreadyTold(rows[p], pass.closed)
      <3>1. UNCHANGED <<rows, told, reg>>
        BY <1>10, <2>2 DEF OutputRead
      <3> QED BY <1>2, <3>1, FrameIsQuiet
    <2>3. CASE ~AlreadyTold(rows[p], pass.closed)
      <3>1. /\ rows' = [rows EXCEPT ![p] = MarkDelivered(rows[p])]
            /\ Tell(p) /\ UNCHANGED reg
        BY <1>10, <2>3 DEF OutputRead
      <3>2. ~rows[p].delivered
        BY <2>1, <2>3 DEF AlreadyTold, IsOwed
      <3> QED BY <1>1, <2>1, <3>1, <3>2, TellingMoves
    <2> QED BY <2>2, <2>3
  <1>11. ASSUME NEW p \in Proc, SweepCloses(p) \/ SweepClosesUntold(p)
         PROVE  \A q \in Proc : LedgerMove(q)
    <2> DEFINE over == Terminalize(rows[p], pass.closing[p], pass.at)
    <2>1. IsOpen(rows[p]) /\ pass.closing[p] \in WorkReason
      BY <1>1, <1>11 DEF SweepCloses, SweepClosesUntold, ToClose
    <2>2. /\ UNCHANGED reg
          /\ \/ rows' = [rows EXCEPT ![p] = over] /\ told' = told
             \/ rows' = [rows EXCEPT ![p] = MarkDelivered(over)] /\ Tell(p)
      BY <1>11 DEF SweepCloses, SweepClosesUntold
    <2>3. \A q \in Proc \ {p} : Quiet(q)
      BY <1>1, <2>2 DEF Quiet, Tell
    <2>4. \/ rows'[p] = over /\ told'[p] = told[p]
          \/ rows'[p] = MarkDelivered(over) /\ told'[p] = told[p] + 1
      BY <1>1, <2>1, <2>2 DEF Tell, IsOpen
    <2>5. UNCHANGED reg
      BY <2>2
    <2> HIDE DEF over
    <2>6. CallMove(p)
      BY <1>1, <2>1, <2>4, <2>5, ClosingMoves DEF over
    <2> QED BY <2>3, <2>6 DEF LedgerMove, CallMove
  <1>12. ASSUME NEW p \in Proc, SweepRetries(p) PROVE \A q \in Proc : LedgerMove(q)
    <2>1. IsOwed(rows[p])
      BY <1>12 DEF IInv, SweepInv, SweepRetries
    <2>2. ~IsOpen(rows[p]) /\ ~rows[p].delivered
      BY <2>1 DEF IsOwed, IsOpen
    <2>3. rows' = [rows EXCEPT ![p] = MarkDelivered(rows[p])] /\ Tell(p) /\ UNCHANGED reg
      BY <1>12 DEF SweepRetries
    <2> QED BY <1>1, <2>2, <2>3, TellingMoves
  <1>13. CASE PassEnds
    <2> SUFFICES ASSUME NEW p \in Proc PROVE LedgerMove(p)
      OBVIOUS
    <2>1. Kept(p) = rows[p] \/ (IsSettled(rows[p]) /\ Kept(p) = NoRow)
      BY <1>1, LedgerAssumption, PruneKeepsUnsettled DEF Kept
    <2>2. /\ rows'[p] = Kept(p) /\ UNCHANGED reg
          /\ told'[p] = IF Kept(p).state = "absent" THEN 0 ELSE told[p]
      BY <1>13 DEF PassEnds
    <2>3. CASE Kept(p) = rows[p]
      <3>1. rows[p].state = "absent" => told[p] = 0
        BY <1>1 DEF LedgerInv
      <3> QED BY <2>2, <2>3, <3>1 DEF LedgerMove, CallMove, Quiet
    <2>4. CASE IsSettled(rows[p]) /\ Kept(p) = NoRow
      BY <2>2, <2>4 DEF LedgerMove, Pruned, NoRow
    <2> QED BY <2>1, <2>3, <2>4
  <1> QED
    BY <1>3, <1>4, <1>5, <1>6, <1>7, <1>8, <1>9, <1>10, <1>11, <1>12, <1>13 DEF PassStep

-------------------------------------------------------------------------------
(* The control invariants.                                                 *)

\* A registration is never undone, and a row appears with it.
LEMMA MovesRegister ==
    ASSUME RegisteredInv, NEW p \in Proc, LedgerMove(p)
    PROVE  /\ reg[p] = "done" => reg'[p] = "done"
           /\ rows'[p].state # "absent" => reg'[p] = "done"
  <1>1. CASE Quiet(p)
    BY <1>1 DEF Quiet, RegisteredInv
  <1>2. CASE Opened(p)
    BY <1>2 DEF Opened
  <1>3. ASSUME reg'[p] = reg[p], rows[p].state # "absent" PROVE reg'[p] = "done"
    BY <1>3 DEF RegisteredInv
  <1>4. CASE ToldOwed(p) \/ \E reason \in WorkReason : Closed(p, reason)
    BY <1>3, <1>4 DEF ToldOwed, Closed, IsOpen, IsOwed
  <1>5. CASE Pruned(p)
    BY <1>3, <1>5 DEF Pruned, IsSettled
  <1> QED BY <1>1, <1>2, <1>4, <1>5 DEF LedgerMove, CallMove

\* The watchers and the snapshot, too, are of registered processes, when each
\* comes from the row, the watcher or the snapshot it had.
LEMMA RegisteredStep ==
    ASSUME RegisteredInv, \A p \in Proc : LedgerMove(p),
           \A p \in Proc : watchers'[p].on \/ pass'.due[p].on =>
                             \/ watchers[p].on \/ pass.due[p].on
                             \/ reg[p] = "done" \/ reg'[p] = "done"
    PROVE  RegisteredInv'
  <1> SUFFICES ASSUME NEW p \in Proc,
                      rows'[p].state # "absent" \/ watchers'[p].on \/ pass'.due[p].on
               PROVE  reg'[p] = "done"
    BY DEF RegisteredInv
  <1>1. /\ reg[p] = "done" => reg'[p] = "done"
        /\ rows'[p].state # "absent" => reg'[p] = "done"
    BY MovesRegister
  <1> QED BY <1>1 DEF RegisteredInv

\* What the tools do to the rows spoils neither the poll nor the sweep in flight.
LEMMA FlightStep ==
    ASSUME IInv, \A p \in Proc : CallMove(p),
           pass'.pc = pass.pc, pass'.cur = pass.cur, pass'.closed = pass.closed,
           pass'.owed = pass.owed
    PROVE  PollInv' /\ SweepInv'
  <1>1. \A p \in Proc : /\ IsOwed(rows[p]) => IsOwed(rows'[p])
                        /\ reg[p] = "done" => reg'[p] = "done"
                        /\ ~IsOpen(rows[p]) /\ reg[p] = "done" => ~IsOpen(rows'[p])
    <2> SUFFICES ASSUME NEW p \in Proc
                 PROVE  /\ IsOwed(rows[p]) => IsOwed(rows'[p])
                        /\ reg[p] = "done" => reg'[p] = "done"
                        /\ ~IsOpen(rows[p]) /\ reg[p] = "done" => ~IsOpen(rows'[p])
      OBVIOUS
    <2>1. CASE Quiet(p)
      BY <2>1 DEF Quiet, IsOwed, IsOpen
    <2>2. CASE Opened(p)
      BY <2>2 DEF Opened, IsOwed
    <2>3. ASSUME NEW reason \in WorkReason, Closed(p, reason)
          PROVE  IsOpen(rows[p]) /\ ~IsOwed(rows[p]) /\ reg'[p] = reg[p]
      BY <2>3 DEF Closed, IsOwed, IsOpen
    <2> QED BY <2>1, <2>2, <2>3 DEF CallMove
  <1>2. PollInv'
    <2>1. pass.pc \in {"apply", "output"} => pass.cur \in Proc /\ reg[pass.cur] = "done"
      BY DEF IInv, PollInv
    <2>2. pass.pc = "output" => /\ ~IsOpen(rows[pass.cur])
                                /\ pass.closed => IsOwed(rows[pass.cur])
      BY DEF IInv, PollInv
    <2> QED BY <1>1, <2>1, <2>2 DEF PollInv
  <1>3. SweepInv'
    <2>1. pass.owed \subseteq Proc /\ (pass.pc = "sweep" => \A p \in pass.owed : IsOwed(rows[p]))
      BY PassParts DEF IInv, SweepInv
    <2> QED BY <1>1, <2>1 DEF SweepInv
  <1> QED BY <1>2, <1>3

\* The clock, the container and the tools keep the control invariants.
LEMMA CallsControl ==
    ASSUME IInv, Tick \/ Environment \/ Calls
    PROVE  RegisteredInv' /\ PollInv' /\ SweepInv'
  <1> USE DEF storeVars, envVars, callVars, history
  <1>1. /\ TypeOK /\ LedgerInv /\ RegisteredInv /\ pass \in Pass
        /\ reg \in [Proc -> {"none", "probed", "done"}]
        /\ watchers \in [Proc -> Watcher]
    BY DEF IInv, TypeOK
  <1>2. \A p \in Proc : CallMove(p)
    BY <1>1, CallsMove
  <1>3. pass' = pass \/ pass' = [pass EXCEPT !.spent = FALSE]
    BY DEF Environment, Calls, Tick, Wipe, Vanish, LoseContainer, ProcExit, Acquire,
       ShutdownCall, ShutdownApply, BackgroundProbe, Register, ReadOutput,
       ReadOutputOfMissing, PushReceive, PushApply, StopCall, StopApply, Replaces
  <1>4. /\ pass'.pc = pass.pc /\ pass'.cur = pass.cur /\ pass'.closed = pass.closed
        /\ pass'.owed = pass.owed /\ pass'.due = pass.due
    BY <1>1, <1>3 DEF Pass
  <1>5. PollInv' /\ SweepInv'
    BY <1>2, <1>4, FlightStep
  <1>6. \/ watchers' = watchers
        \/ watchers' = [p \in Proc |-> NoWatcher]
        \/ \E p \in Proc : watchers' = [watchers EXCEPT ![p] = NoWatcher]
        \/ \E p \in Proc : /\ watchers' = [watchers EXCEPT ![p] = NewWatcher(now)]
                           /\ reg' = [reg EXCEPT ![p] = "done"]
    BY DEF Environment, Calls, Tick, Wipe, Vanish, LoseContainer, ProcExit, Acquire,
       ShutdownCall, ShutdownApply, BackgroundProbe, Register, ReadOutput,
       ReadOutputOfMissing, PushReceive, PushApply, StopCall, StopApply,
       TearDown, DropBackup, ClearWatchers
  <1>7. ~NoWatcher.on
    BY DEF NoWatcher
  <1>8. \A p \in Proc : watchers'[p].on => watchers[p].on \/ reg'[p] = "done"
    BY <1>1, <1>6, <1>7
  <1>9. RegisteredInv'
    BY <1>1, <1>2, <1>4, <1>8, RegisteredStep DEF LedgerMove
  <1> QED BY <1>5, <1>9

\* A pass that fires holds nothing in flight.
LEMMA FiredIsIdle ==
    ASSUME TypeOK, NEW pc \in PassPc, NEW svc \in BOOLEAN, NEW live \in BOOLEAN,
           NEW b \in BOOLEAN, NEW c \in BOOLEAN,
           \/ pass' = Fired(pc, svc, live)
           \/ pass' = [Fired(pc, svc, live) EXCEPT !.spent = b, !.armed = c]
    PROVE  /\ pass'.pc = pc /\ \A p \in Proc : ~pass'.due[p].on
  <1>1. Fired(pc, svc, live) \in Pass
    BY FiredType
  <1>2. Fired(pc, svc, live).pc = pc /\ \A p \in Proc : ~Fired(pc, svc, live).due[p].on
    BY DEF Fired, IdlePass, NoWatcher
  <1> QED BY <1>1, <1>2 DEF Pass

\* An arm in the tick touches nothing but the alarm and its count.
LEMMA ArmInTickKeeps ==
    ASSUME NEW p \in Pass, NEW times, ArmInTick(times, p)
    PROVE  pass'.pc = p.pc /\ pass'.due = p.due
  BY DEF ArmInTick, Pass

\* Nothing is in flight outside of a poll and a sweep.
LEMMA NothingInFlight ==
    ASSUME pass'.pc \notin {"apply", "output", "sweep"}
    PROVE  PollInv' /\ SweepInv'
  BY DEF PollInv, SweepInv

\* The poll in flight ends: no new watcher, nothing in flight.
LEMMA PollNextControl ==
    ASSUME TypeOK, NEW p \in Proc,
           pass' = PollNext(p) \/ pass' = [PollNext(p) EXCEPT !.probed = TRUE]
    PROVE  /\ pass'.pc \in {"poll", "tickend"}
           /\ \A q \in Proc : pass'.due[q].on => pass.due[q].on
  <1>1. pass \in Pass /\ pass.due \in [Proc -> Watcher]
    BY PassParts
  <1>2. /\ PollNext(p).pc \in {"poll", "tickend"}
        /\ PollNext(p).due = [pass.due EXCEPT ![p] = NoWatcher]
    BY <1>1 DEF PollNext, Pass
  <1>3. pass'.pc = PollNext(p).pc /\ pass'.due = PollNext(p).due
    BY PollNextType DEF Pass
  <1> QED BY <1>1, <1>2, <1>3 DEF NoWatcher

LEMMA PostponedOn ==
    ASSUME NEW w \in Watcher
    PROVE  Postponed(w).on = w.on /\ [Postponed(w) EXCEPT !.deadlineAt = pass.at + Renew].on = w.on
  BY DEF Postponed, Watcher

\* The tick keeps the watchers and its snapshot among the registered.
LEMMA TickControl ==
    ASSUME IInv,
           \/ ResolveFails \/ TickAbsent \/ TickExpired \/ TickStart \/ QuotaFails
           \/ PollStart \/ EnsureFails \/ EnsureRuntime
           \/ TickArms \/ TickEndsUnarmed \/ ReleaseCheck \/ ReleaseBlocked \/ ReleaseStart
           \/ ReleasePreserves \/ ReleaseDiscards \/ ReleaseFails
    PROVE  /\ pass'.pc \notin {"apply", "output", "sweep"}
           /\ \A p \in Proc : watchers'[p].on \/ pass'.due[p].on =>
                                watchers[p].on \/ pass.due[p].on
  <1> USE DEF storeVars, envVars, callVars, history
  <1>1. /\ TypeOK /\ pass \in Pass /\ watchers \in [Proc -> Watcher]
        /\ pass.due \in [Proc -> Watcher] /\ ~NoWatcher.on
    BY PassParts DEF IInv, NoWatcher
  <1>2. CASE ResolveFails
    <2>1. pass' = Fired("sweepstart", FALSE, FALSE) /\ UNCHANGED watchers
      BY <1>2 DEF ResolveFails
    <2> QED BY <1>1, <2>1, FiredIsIdle DEF PassPc
  <1>3. CASE TickAbsent
    <2>1. ArmInTick({}, Fired("sweepstart", TRUE, FALSE)) /\ UNCHANGED watchers
      BY <1>3 DEF TickAbsent
    <2>2. pass' = Fired("sweepstart", TRUE, FALSE)
          \/ pass' = [Fired("sweepstart", TRUE, FALSE) EXCEPT !.spent = FALSE, !.armed = TRUE]
      BY <2>1 DEF ArmInTick
    <2> QED BY <1>1, <2>1, <2>2, FiredIsIdle DEF PassPc
  <1>4. CASE TickExpired
    <2>1. /\ \E c \in BOOLEAN :
               pass' = [Fired("sweepstart", TRUE, FALSE) EXCEPT !.spent = FALSE, !.armed = c]
          /\ watchers' = [p \in Proc |-> NoWatcher]
      BY <1>4 DEF TickExpired, DropBackup, ClearWatchers
    <2> QED BY <1>1, <2>1, FiredIsIdle DEF PassPc
  <1>5. CASE TickStart
    <2>1. pass' = Fired("quota", TRUE, TRUE) /\ UNCHANGED watchers
      BY <1>5 DEF TickStart
    <2> QED BY <1>1, <2>1, FiredIsIdle DEF PassPc
  <1>6. CASE QuotaFails \/ TickEndsUnarmed \/ ReleaseCheck \/ ReleaseStart \/ ReleaseDiscards
    BY <1>1, <1>6
       DEF QuotaFails, TickEndsUnarmed, ReleaseCheck, ReleaseStart, ReleaseDiscards, Pass
  <1>7. CASE PollStart
    BY <1>1, <1>7 DEF PollStart, Pass
  <1>8. CASE EnsureFails
    <2>1. /\ watchers' = [p \in Proc |-> IF pass.due[p].on THEN Postponed(pass.due[p])
                                         ELSE watchers[p]]
          /\ pass' = [pass EXCEPT !.pc = "tickend", !.due = [p \in Proc |-> NoWatcher]]
      BY <1>8 DEF EnsureFails
    <2> QED BY <1>1, <2>1 DEF Pass
  <1>9. ASSUME NEW pc \in {"poll", "sweepstart"}, NEW times, UNCHANGED watchers,
               ArmInTick(times, [pass EXCEPT !.pc = pc])
        PROVE  pass'.pc = pc /\ \A p \in Proc : pass'.due[p].on => pass.due[p].on
    <2>1. /\ [pass EXCEPT !.pc = pc] \in Pass
          /\ [pass EXCEPT !.pc = pc].pc = pc /\ [pass EXCEPT !.pc = pc].due = pass.due
      BY <1>1 DEF Pass, PassPc
    <2> QED BY <1>9, <2>1, ArmInTickKeeps
  <1>10. CASE EnsureRuntime
    <2>1. CASE pass' = [pass EXCEPT !.pc = "poll"]
      BY <1>1, <1>10, <2>1 DEF EnsureRuntime, Pass
    <2>2. CASE ArmInTick({now + IdleTimeout}, [pass EXCEPT !.pc = "poll"])
      BY <1>9, <1>10, <2>2 DEF EnsureRuntime
    <2> QED BY <1>10, <2>1, <2>2 DEF EnsureRuntime
  <1>11. CASE TickArms \/ ReleaseBlocked \/ ReleasePreserves \/ ReleaseFails
    BY <1>9, <1>11 DEF TickArms, ReleaseBlocked, ReleasePreserves, ReleaseFails
  <1> QED BY <1>2, <1>3, <1>4, <1>5, <1>6, <1>7, <1>8, <1>10, <1>11

\* So do the polls.
LEMMA PollControl ==
    ASSUME IInv,
           \/ PollRunning \/ PollFails \/ PollTimeout \/ OutputFails \/ OutputRead
    PROVE  /\ pass'.pc \notin {"apply", "output", "sweep"}
           /\ \A p \in Proc : watchers'[p].on \/ pass'.due[p].on =>
                                \/ watchers[p].on \/ pass.due[p].on \/ reg[p] = "done"
  <1> USE DEF storeVars, envVars, callVars, history
  <1> DEFINE p == pass.cur
             w == pass.due[p]
  <1>1. /\ TypeOK /\ watchers \in [Proc -> Watcher] /\ ~NoWatcher.on
    BY PassParts DEF IInv, NoWatcher
  <1>2. p \in Proc /\ reg[p] = "done" /\ w \in Watcher
    BY <1>1, PassParts DEF IInv, PollInv, PollRunning, PollFails, PollTimeout, OutputFails,
       OutputRead
  <1>3. \/ pass' = PollNext(p) \/ pass' = [PollNext(p) EXCEPT !.probed = TRUE]
    BY DEF PollRunning, PollFails, PollTimeout, OutputFails, OutputRead, PollCatch
  <1>4. \E new : watchers' = [watchers EXCEPT ![p] = new]
    BY DEF PollRunning, PollFails, PollTimeout, OutputFails, OutputRead, PollCatch
  <1> HIDE DEF p, w
  <1>5. /\ pass'.pc \in {"poll", "tickend"}
        /\ \A q \in Proc : pass'.due[q].on => pass.due[q].on
    BY <1>1, <1>2, <1>3, PollNextControl
  <1> QED BY <1>1, <1>2, <1>4, <1>5

\* The sweep works through the rows it read.
LEMMA SweepControl ==
    ASSUME IInv, NEW p \in Proc,
           \/ SweepCloses(p) \/ SweepClosesUntold(p) \/ SweepLate(p)
           \/ SweepRetries(p) \/ SweepKeepsOwed(p)
    PROVE  /\ PollInv' /\ SweepInv'
           /\ \A q \in Proc : watchers'[q].on \/ pass'.due[q].on =>
                                watchers[q].on \/ pass.due[q].on
  <1> USE DEF storeVars, envVars, callVars, history
  <1>1. /\ TypeOK /\ pass \in Pass /\ watchers \in [Proc -> Watcher] /\ ~NoWatcher.on
        /\ rows \in [Proc -> Row] /\ pass.owed \subseteq Proc
    BY PassParts DEF IInv, NoWatcher
  <1>2. pass.pc = "sweep" /\ \A q \in pass.owed : IsOwed(rows[q])
    BY DEF IInv, SweepInv, SweepCloses, SweepClosesUntold, SweepLate, SweepRetries,
       SweepKeepsOwed
  <1>3. CASE SweepCloses(p) \/ SweepClosesUntold(p) \/ SweepLate(p)
    <2>1. pass' = Classified(p)
      BY <1>3 DEF SweepCloses, SweepClosesUntold, SweepLate
    <2>2. pass'.pc = "sweep" /\ pass'.owed = pass.owed /\ pass'.due = pass.due
      BY <1>1, <1>2, <2>1 DEF Classified, Pass
    <2>3. \A q \in pass.owed : rows'[q] = rows[q]
      <3>1. rows' = rows \/ (IsOpen(rows[p]) /\ \E new : rows' = [rows EXCEPT ![p] = new])
        BY <1>3 DEF SweepCloses, SweepClosesUntold, SweepLate
      <3>2. IsOpen(rows[p]) => p \notin pass.owed
        BY <1>2 DEF IsOpen, IsOwed
      <3> QED BY <1>1, <3>1, <3>2
    <2>4. watchers' = watchers \/ \E new : /\ watchers' = [watchers EXCEPT ![p] = new]
                                           /\ new \in {NoWatcher, watchers[p]}
      BY <1>3 DEF SweepCloses, SweepClosesUntold, SweepLate
    <2>5. PollInv' /\ SweepInv'
      BY <1>2, <2>2, <2>3 DEF PollInv, SweepInv
    <2>6. \A q \in Proc : watchers'[q].on => watchers[q].on
      BY <1>1, <2>4
    <2> QED BY <2>2, <2>5, <2>6
  <1>4. CASE SweepRetries(p) \/ SweepKeepsOwed(p)
    <2>1. pass' = Retried(p) /\ UNCHANGED watchers
      BY <1>4 DEF SweepRetries, SweepKeepsOwed
    <2>2. pass'.pc = "sweep" /\ pass'.owed = pass.owed \ {p} /\ pass'.due = pass.due
      BY <1>1, <1>2, <2>1 DEF Retried, Pass
    <2>3. \A q \in pass.owed \ {p} : rows'[q] = rows[q]
      BY <1>1, <1>4 DEF SweepRetries, SweepKeepsOwed
    <2> QED BY <1>2, <2>1, <2>2, <2>3 DEF PollInv, SweepInv
  <1> QED BY <1>3, <1>4

\* A pass, and a restart, keep the control invariants.
LEMMA PassControl ==
    ASSUME IInv, PassStep \/ Crash
    PROVE  RegisteredInv' /\ PollInv' /\ SweepInv'
  <1> USE DEF storeVars, envVars, callVars, history
  <1>1. /\ TypeOK /\ LedgerInv /\ RegisteredInv /\ pass \in Pass
        /\ reg \in [Proc -> {"none", "probed", "done"}]
        /\ rows \in [Proc -> Row] /\ watchers \in [Proc -> Watcher] /\ ~NoWatcher.on
    BY PassParts DEF IInv, TypeOK, NoWatcher
  <1>2. \A p \in Proc : LedgerMove(p)
    BY PassMoves
  <1>3. CASE \/ ResolveFails \/ TickAbsent \/ TickExpired \/ TickStart \/ QuotaFails
             \/ PollStart \/ EnsureFails \/ EnsureRuntime \/ TickArms \/ TickEndsUnarmed
             \/ ReleaseCheck \/ ReleaseBlocked \/ ReleaseStart
             \/ ReleasePreserves \/ ReleaseDiscards \/ ReleaseFails
    BY <1>1, <1>2, <1>3, TickControl, RegisteredStep, NothingInFlight
  <1>4. CASE PollRunning \/ PollFails \/ PollTimeout \/ OutputFails \/ OutputRead
    BY <1>1, <1>2, <1>4, PollControl, RegisteredStep, NothingInFlight
  <1>5. ASSUME NEW p \in Proc,
               \/ SweepCloses(p) \/ SweepClosesUntold(p) \/ SweepLate(p)
               \/ SweepRetries(p) \/ SweepKeepsOwed(p)
        PROVE  RegisteredInv' /\ PollInv' /\ SweepInv'
    BY <1>1, <1>2, <1>5, SweepControl, RegisteredStep
  <1>6. CASE Crash \/ PassEnds
    <2>1. pass' = IdlePass /\ UNCHANGED watchers
      BY <1>6 DEF Crash, PassEnds
    <2>2. pass'.pc = "idle" /\ \A p \in Proc : ~pass'.due[p].on
      BY <2>1 DEF IdlePass, NoWatcher
    <2> QED BY <1>1, <1>2, <2>1, <2>2, RegisteredStep, NothingInFlight
  <1>7. CASE SweepStart
    <2>1. UNCHANGED <<rows, watchers>>
      BY <1>7 DEF SweepStart
    <2>2. /\ pass'.pc \in {"rearm", "sweep"} /\ pass'.due = pass.due
          /\ pass'.owed = {p \in Proc : IsOwed(rows[p])}
      BY <1>1, <1>7 DEF SweepStart, Pass
    <2>3. RegisteredInv'
      BY <1>1, <1>2, <2>1, <2>2, RegisteredStep
    <2> QED BY <2>1, <2>2, <2>3 DEF PollInv, SweepInv
  <1>8. ASSUME NEW p \in Proc, PollRead(p)
        PROVE  RegisteredInv' /\ PollInv' /\ SweepInv'
    <2>1. UNCHANGED <<rows, watchers, reg>> /\ pass.due[p].on
      BY <1>8 DEF PollRead
    <2>2. pass'.pc = "apply" /\ pass'.cur = p /\ pass'.due = pass.due
      BY <1>1, <1>8 DEF PollRead, Pass
    <2>3. RegisteredInv'
      BY <1>1, <1>2, <2>1, <2>2, RegisteredStep
    <2>4. reg[p] = "done"
      BY <1>1, <2>1 DEF RegisteredInv
    <2> QED BY <2>1, <2>2, <2>3, <2>4 DEF PollInv, SweepInv
  <1>9. CASE PollExited
    <2> DEFINE p == pass.cur
               over == Terminalize(Stamped(p), "process_exit", pass.at)
    <2>1. p \in Proc /\ reg[p] = "done" /\ "process_exit" \in WorkReason
      BY <1>9 DEF IInv, PollInv, PollExited, WorkReason
    <2>2. rows' = [rows EXCEPT ![p] = over] /\ UNCHANGED <<watchers, reg>>
      BY <1>9 DEF PollExited
    <2>3. /\ pass'.pc = "output" /\ pass'.cur = p /\ pass'.due = pass.due
          /\ pass'.closed = IsOpen(rows[p])
      BY <1>1, <1>9 DEF PollExited, Pass
    <2>4. ~IsOpen(over) /\ (IsOpen(rows[p]) => IsOwed(over))
      BY <1>1, <2>1, PolledRow
    <2> HIDE DEF over, p
    <2>5. ~IsOpen(rows'[p]) /\ (IsOpen(rows[p]) => IsOwed(rows'[p]))
      BY <1>1, <2>1, <2>2, <2>4
    <2>6. RegisteredInv'
      BY <1>1, <1>2, <2>2, <2>3, RegisteredStep
    <2> QED BY <2>1, <2>2, <2>3, <2>5, <2>6 DEF PollInv, SweepInv
  <1>10. CASE OutputOfMissing
    <2>1. /\ StopRunning(TRUE, now) /\ now \in Nat /\ UNCHANGED <<told, reg>>
          /\ watchers' = [p \in Proc |-> NoWatcher]
          /\ pass' = pass \/ pass' = [pass EXCEPT !.spent = FALSE]
      BY <1>1, <1>10 DEF OutputOfMissing, TearDown, ClearWatchers, Replaces, TypeOK
    <2>2. /\ pass'.pc = pass.pc /\ pass'.cur = pass.cur /\ pass'.closed = pass.closed
          /\ pass'.owed = pass.owed /\ pass'.due = pass.due
      BY <1>1, <2>1 DEF Pass
    <2>3. \A p \in Proc : CallMove(p)
      BY <1>1, <2>1, StopRunningMoves
    <2>4. RegisteredInv'
      BY <1>1, <1>2, <2>1, <2>2, RegisteredStep
    <2> QED BY <2>2, <2>3, <2>4, FlightStep
  <1> QED BY <1>3, <1>4, <1>5, <1>6, <1>7, <1>8, <1>9, <1>10 DEF PassStep

-------------------------------------------------------------------------------
(* The invariant.                                                          *)

LEMMA InitInvariant == Init => IInv
  <1> SUFFICES ASSUME Init PROVE IInv
    OBVIOUS
  <1>1. NoRow \in Row /\ NoWatcher \in Watcher /\ ~NoWatcher.on
    BY NoRowType DEF NoWatcher, Watcher
  <1>2. UnknownGeneration \in CurrentGeneration
    BY DEF UnknownGeneration, CurrentGeneration
  <1>3. TypeOK
    BY <1>1, <1>2, IdlePassType DEF Init, TypeOK
  <1>4. LedgerInv
    BY DEF Init, LedgerInv, NoRow, IsOpen, IsOwed, IsSettled
  <1>5. RegisteredInv
    BY <1>1 DEF Init, RegisteredInv, NoRow, IdlePass
  <1>6. PollInv /\ SweepInv
    BY DEF Init, PollInv, SweepInv, IdlePass
  <1> QED BY <1>3, <1>4, <1>5, <1>6 DEF IInv

LEMMA NextMoves ==
    ASSUME IInv, [Next]_vars
    PROVE  \A p \in Proc : LedgerMove(p)
  <1>1. CASE Tick \/ Environment \/ Calls
    BY <1>1, CallsMove DEF IInv, LedgerMove
  <1>2. CASE PassStep \/ Crash
    BY <1>2, PassMoves
  <1>3. CASE UNCHANGED vars
    BY <1>3, FrameIsQuiet DEF vars, LedgerMove
  <1> QED BY <1>1, <1>2, <1>3 DEF Next

LEMMA NextType == ASSUME IInv, Next PROVE TypeOK'
  <1>1. TypeOK /\ InFlight
    BY DEF IInv, PollInv, InFlight
  <1>2. CASE Tick \/ Environment \/ Calls
    BY <1>1, <1>2, CallsType
  <1>3. CASE PassStep \/ Crash
    BY <1>1, <1>3, TickType, PollType, TickEndType, SweepType DEF PassStep
  <1> QED BY <1>2, <1>3 DEF Next

LEMMA NextInvariant == IInv /\ [Next]_vars => IInv'
  <1> SUFFICES ASSUME IInv, [Next]_vars PROVE IInv'
    OBVIOUS
  <1>1. CASE Next
    <2>1. LedgerInv'
      BY NextMoves, MovesKeepLedger DEF IInv
    <2>2. RegisteredInv' /\ PollInv' /\ SweepInv'
      BY <1>1, CallsControl, PassControl DEF Next
    <2> QED BY <1>1, <2>1, <2>2, NextType DEF IInv
  <1>2. CASE UNCHANGED vars
    BY <1>2 DEF vars, IInv, TypeOK, LedgerInv, RegisteredInv, PollInv, SweepInv
  <1> QED BY <1>1, <1>2

\* The invariant holds throughout: rows agree with messages, watchers with
\* registrations, and the poll and the sweep in flight with the rows they read.
THEOREM Invariant == Spec => []IInv
  BY InitInvariant, NextInvariant, PTL DEF Spec

\* Every variable keeps its type, for any set of processes and any bounds.
THEOREM TypeCorrect == Spec => []TypeOK
  <1>1. IInv => TypeOK
    BY DEF IInv
  <1> QED BY <1>1, Invariant, PTL

\* Whatever the order of the poll, the callback, the sweep, its retry, a stop and
\* a teardown (pollWatcher, reportProcessCompletion, runWorkLedgerSweep, execStop,
\* stopRunningProcesses), no row is told twice.
THEOREM ToldAtMostOnce == Spec => []AtMostOnceTold
  <1>1. IInv => AtMostOnceTold
    <2> SUFFICES ASSUME IInv, NEW p \in Proc PROVE told[p] <= 1
      BY DEF AtMostOnceTold
    <2>1. rows[p] \in Row
      BY PassParts DEF IInv
    <2>2. rows[p].state = "absent" \/ IsOpen(rows[p]) \/ IsOwed(rows[p]) \/ IsSettled(rows[p])
      BY <2>1 DEF Row, IsOpen, IsOwed, IsSettled
    <2> QED BY <2>2 DEF IInv, LedgerInv
  <1> QED BY <1>1, Invariant, PTL

\* delivered_at is stamped if and only if the model was told or asked for the
\* stop itself: no stamp without a message, no message without a stamp.
THEOREM HonestReceipt == Spec => []ReceiptIsHonest
  <1>1. IInv => ReceiptIsHonest
    BY DEF IInv, LedgerInv, ReceiptIsHonest
  <1> QED BY <1>1, Invariant, PTL

-------------------------------------------------------------------------------
(* The ledger implements the contract.                                     *)

\* The phase of each kind of row, now and after a step.
LEMMA PromisePhases ==
    ASSUME NEW p \in Proc
    PROVE  /\ PromiseOf[p] = [phase |-> PromisePhase(p), reason |-> rows[p].reason,
                              sent |-> told[p]]
           /\ rows[p].state = "absent" =>
                PromisePhase(p) = IF reg[p] = "done" THEN "forgotten" ELSE "unmade"
           /\ IsOpen(rows[p]) => PromisePhase(p) = "open"
           /\ IsOwed(rows[p]) => PromisePhase(p) = "owed"
           /\ IsSettled(rows[p]) => PromisePhase(p) = IF told[p] = 0 THEN "silent" ELSE "told"
  BY DEF PromiseOf, PromisePhase, IsOpen, IsOwed, IsSettled

LEMMA NextPhases ==
    ASSUME NEW p \in Proc
    PROVE  /\ PromiseOf'[p] = [phase |-> PromisePhase(p)', reason |-> rows'[p].reason,
                               sent |-> told'[p]]
           /\ rows'[p].state = "absent" =>
                PromisePhase(p)' = IF reg'[p] = "done" THEN "forgotten" ELSE "unmade"
           /\ IsOpen(rows'[p]) => PromisePhase(p)' = "open"
           /\ IsOwed(rows'[p]) => PromisePhase(p)' = "owed"
           /\ IsSettled(rows'[p]) => PromisePhase(p)' = IF told'[p] = 0 THEN "silent" ELSE "told"
  BY DEF PromiseOf, PromisePhase, IsOpen, IsOwed, IsSettled

LEMMA NextPromiseType == TypeOK' => PromiseOf' \in [Proc -> Contract!Promise]
  <1> SUFFICES ASSUME TypeOK', NEW p \in Proc PROVE PromiseOf'[p] \in Contract!Promise
    BY DEF PromiseOf
  <1>1. rows'[p] \in Row /\ told'[p] \in Nat
    BY DEF TypeOK
  <1>2. \/ rows'[p].state = "absent" \/ IsOpen(rows'[p])
        \/ IsOwed(rows'[p]) \/ IsSettled(rows'[p])
    BY <1>1 DEF Row, IsOpen, IsOwed, IsSettled
  <1>3. PromisePhase(p)' \in Contract!Phase
    BY <1>2, NextPhases DEF Contract!Phase
  <1>4. rows'[p].reason \in WorkReason \cup {"none"}
    BY <1>1 DEF Row
  <1>5. ASSUME NEW phase \in Contract!Phase, NEW reason \in WorkReason \cup {"none"},
               NEW sent \in Nat
        PROVE  [phase |-> phase, reason |-> reason, sent |-> sent] \in Contract!Promise
    BY DEF Contract!Promise
  <1> QED BY <1>1, <1>3, <1>4, <1>5, NextPhases

\* Each move of the ledger is a move of the contract, or none.
LEMMA MovesAreContractual ==
    ASSUME IInv, IInv', NEW p \in Proc, LedgerMove(p)
    PROVE  PromiseOf'[p] = PromiseOf[p] \/ Contract!Moves(PromiseOf[p], PromiseOf'[p])
  <1> DEFINE was == PromiseOf[p]
             is  == PromiseOf'[p]
  <1>1. /\ was = [phase |-> PromisePhase(p), reason |-> rows[p].reason, sent |-> told[p]]
        /\ is = [phase |-> PromisePhase(p)', reason |-> rows'[p].reason, sent |-> told'[p]]
    BY PromisePhases, NextPhases
  <1>2. /\ rows[p] \in Row /\ told[p] \in Nat /\ TypeOK
        /\ rows[p].state # "absent" => reg[p] = "done"
        /\ rows[p].state = "absent" => rows[p] = NoRow /\ told[p] = 0
        /\ IsOpen(rows[p]) \/ IsOwed(rows[p]) => told[p] = 0
    BY DEF IInv, TypeOK, LedgerInv, RegisteredInv
  <1> HIDE DEF was, is
  <1>3. CASE Quiet(p)
    <2>1. PromisePhase(p)' = PromisePhase(p)
      BY <1>3 DEF Quiet, PromisePhase, IsOpen, IsOwed, IsSettled
    <2>2. is = was
      BY <1>1, <1>3, <2>1 DEF Quiet
    <2> QED BY <2>2 DEF was, is
  <1>4. CASE Opened(p)
    <2>1. was = Contract!Unmade
      BY <1>1, <1>2, <1>4, PromisePhases DEF Opened, NoRow, Contract!Unmade
    <2>2. is = [phase |-> "open", reason |-> "none", sent |-> 0]
      BY <1>1, NextPhases, <1>2, <1>4 DEF Opened
    <2>3. Contract!Opens(was, is)
      BY <2>1, <2>2 DEF Contract!Opens, Contract!Unmade
    <2> QED BY <2>3 DEF was, is, Contract!Moves
  <1>5. ASSUME NEW reason \in WorkReason, Closed(p, reason) PROVE Contract!Moves(was, is)
    <2>1. was.phase = "open" /\ told[p] = 0 /\ was.sent = 0
          /\ was = [phase |-> "open", reason |-> rows[p].reason, sent |-> 0]
      BY <1>1, <1>2, <1>5, PromisePhases DEF Closed
    <2>2. CASE IsOwed(rows'[p]) /\ told'[p] = told[p]
      <3>1. is = [phase |-> "owed", reason |-> reason, sent |-> 0]
        BY <1>1, NextPhases, <1>5, <2>1, <2>2 DEF Closed
      <3>2. Contract!Closes(was, is)
        BY <2>1, <3>1 DEF Contract!Closes
      <3> QED BY <3>2 DEF Contract!Moves
    <2>3. CASE IsSettled(rows'[p]) /\ told'[p] = told[p] + 1
      <3>1. is = [phase |-> "told", reason |-> reason, sent |-> 1]
        BY <1>1, NextPhases, <1>5, <2>1, <2>3 DEF Closed
      <3>2. Contract!ClosesTelling(was, is)
        BY <2>1, <3>1 DEF Contract!ClosesTelling
      <3> QED BY <3>2 DEF Contract!Moves
    <2>4. CASE IsSettled(rows'[p]) /\ told'[p] = told[p] /\ reason = "process_stopped"
      <3>1. is = [phase |-> "silent", reason |-> "process_stopped", sent |-> 0]
        BY <1>1, NextPhases, <1>5, <2>1, <2>4 DEF Closed
      <3>2. Contract!ClosesSilently(was, is)
        BY <2>1, <3>1 DEF Contract!ClosesSilently
      <3> QED BY <3>2 DEF Contract!Moves
    <2> QED BY <1>5, <2>2, <2>3, <2>4 DEF Closed
  <1>6. CASE ToldOwed(p)
    <2>1. was = [phase |-> "owed", reason |-> rows[p].reason, sent |-> 0] /\ told[p] = 0
      BY <1>1, <1>2, <1>6, PromisePhases DEF ToldOwed
    <2>2. is = [phase |-> "told", reason |-> rows[p].reason, sent |-> 1]
      BY <1>1, NextPhases, <1>6, <2>1 DEF ToldOwed
    <2>3. Contract!Tells(was, is)
      BY <2>1, <2>2 DEF Contract!Tells
    <2> QED BY <2>3 DEF was, is, Contract!Moves
  <1>7. CASE Pruned(p)
    <2>1. was.phase \in {"told", "silent"}
      BY <1>1, <1>7, PromisePhases DEF Pruned
    <2>2. reg'[p] = "done"
      BY <1>2, <1>7 DEF Pruned, IsSettled
    <2>3. is = [phase |-> "forgotten", reason |-> "none", sent |-> 0]
      BY <1>1, NextPhases, <1>7, <2>2 DEF Pruned, NoRow
    <2>4. Contract!Forgets(was, is)
      BY <2>1, <2>3 DEF Contract!Forgets, Contract!Unmade
    <2> QED BY <2>4 DEF was, is, Contract!Moves
  <1> QED BY <1>3, <1>4, <1>5, <1>6, <1>7 DEF LedgerMove, CallMove, was, is

LEMMA NextContractual == IInv /\ [Next]_vars => [Contract!Next]_PromiseOf
  <1> SUFFICES ASSUME IInv, [Next]_vars PROVE Contract!Next
    OBVIOUS
  <1>1. IInv'
    BY NextInvariant
  <1>2. PromiseOf' \in [Proc -> Contract!Promise]
    BY <1>1, NextPromiseType DEF IInv
  <1>3. \A p \in Proc : \/ PromiseOf'[p] = PromiseOf[p]
                        \/ Contract!Moves(PromiseOf[p], PromiseOf'[p])
    BY <1>1, NextMoves, MovesAreContractual
  <1> QED BY <1>2, <1>3 DEF Contract!Next

\* Every behaviour of the poll, the tools, the callback, the sweep and the
\* container is one of the contract: one end, one reason and one message for each
\* background process, silence only for a requested stop, and no owed message is
\* dropped or pruned.
THEOREM ContractKept == Spec => KeepsContract
  <1>1. Init => Contract!Init
    <2> SUFFICES ASSUME Init PROVE PromiseOf = [p \in Proc |-> Contract!Unmade]
      BY DEF Contract!Init
    <2>1. ASSUME NEW p \in Proc PROVE PromiseOf[p] = Contract!Unmade
      BY PromisePhases DEF Init, NoRow, Contract!Unmade
    <2> QED BY <2>1 DEF PromiseOf
  <1> QED BY <1>1, Invariant, NextContractual, PTL DEF Spec, KeepsContract, Contract!Spec
===============================================================================
