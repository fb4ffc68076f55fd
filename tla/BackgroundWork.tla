---------------------------- MODULE BackgroundWork ----------------------------
(***************************************************************************)
(* The background processes of one thread: from the tool call that puts a  *)
(* process in the background to the one message that tells the model how   *)
(* it ended.                                                               *)
(*                                                                         *)
(* Who takes part, all inside one Durable Object (events interleave only   *)
(* where the code awaits I/O, so an action runs from one await to the      *)
(* next):                                                                  *)
(*   - the alarm pass, runSandboxEviction: resolve the compute service,    *)
(*     tick (refresh the quota lease, poll the due watchers, arm, release  *)
(*     an idle container), sweep the work ledger, re-arm as a fallback;    *)
(*   - the tools of the model and of the user: exec, exec_output,          *)
(*     exec_stop or a cancelled turn, exec_shutdown;                       *)
(*   - the exit callback that the sandbox pushes, reportProcessCompletion; *)
(*   - the container, which runs, exits, is wiped or vanishes by itself.   *)
(*                                                                         *)
(* Bounds, all of them guards: MaxTime, MaxStart (no call acquires or      *)
(* probes later, no backup expires more than RecoveryTtl later), MaxFails  *)
(* (injected failures and crashes), MaxLosses (containers lost or torn     *)
(* down), Lateness (how late an alarm may fire), PassTicks (how long one   *)
(* pass, or the probe of a call, may take), Scope (which events happen).   *)
(***************************************************************************)
EXTENDS WorkLedger

CONSTANTS
    Proc,         \* the processes of the thread
    Poll,         \* monitorPollIntervalMs: a watcher's poll interval
    Renew,        \* DEFAULT_WATCH_TIMEOUT_MS: a watch's renewable deadline
    IdleTimeout,  \* config.idleTimeoutMs
    RecoveryTtl,  \* config.recoveryTtlMs
    Scope,        \* the kinds of event in this instance, a subset of Events
    MaxTime, MaxStart, MaxFails, MaxLosses, Lateness, PassTicks

Events == {"output", "push", "stop", "shutdown", "release", "wipe", "vanish", "crash"}

ASSUME WorkAssumption ==
    /\ None \notin Proc
    /\ {Poll, Renew, IdleTimeout, RecoveryTtl, Lateness} \subseteq Nat \ {0}
    /\ {MaxTime, MaxStart, MaxFails, MaxLosses, PassTicks} \subseteq Nat
    /\ Scope \subseteq Events

VARIABLES
    now,       \* the clock
    alarm,     \* the thread's one schedule row: when it fires, or None
    rows,      \* background_work: the ledger row of each process
    watchers,  \* the watcher row of each process
    status,    \* the compute store's idea of each process
    compute,   \* the compute store's status: absent, active, releasing, recoverable
    gen,       \* getGenerationView: what the store knows of the nonce
    nonce,     \* the container's nonce: 0 when it has none, None without container
    real,      \* what each process really does in the container
    pass,      \* the alarm pass in progress, with what it read before its awaits
    reg,       \* the backgrounding call of each process
    push,      \* the exit callback of each process
    stop,      \* the stop of each process: what the backend answered
    shut,      \* an exec_shutdown between the backend's destroy and its effects
    used,      \* the bounded resources spent: failures, losses, nonces
    told,      \* history: messages sent about the row the ledger holds
    unread     \* history: why a process was not read since its last stamp

storeVars == <<rows, watchers, status>>
envVars   == <<compute, gen, nonce, real>>
callVars  == <<reg, push, stop, shut>>
history   == <<told, unread>>
vars == <<now, alarm, rows, watchers, status, compute, gen, nonce, real, pass,
          reg, push, stop, shut, used, told, unread>>

-------------------------------------------------------------------------------
Watcher == [on : BOOLEAN, createdAt : Nat, deadlineAt : Nat, nextPollAt : Nat]

NoWatcher == [on |-> FALSE, createdAt |-> 0, deadlineAt |-> 0, nextPollAt |-> 0]

\* What execWatch and backgroundResult insert.
NewWatcher(t) ==
    [on |-> TRUE, createdAt |-> t, deadlineAt |-> t + Renew, nextPollAt |-> t + Poll]

Watched == {p \in Proc : watchers[p].on}

PassPc == {"idle", "quota", "ensure", "poll", "apply", "output", "tickend",
           "disposing", "release", "sweepstart", "sweep", "rearm"}

\* The alarm pass.  start: when it fired; at: the clock last sampled; svc: the
\* callback's own compute service resolved; live: its tick found an environment;
\* reap: the sweep's service resolved; due: the
\* watchers still to poll, as read; cur, seen, closed: the poll in flight, what
\* the backend answered and whether this poll closed the row; probed: the nonce
\* was probed; armed: the tick armed the alarm; spent: the schedule row is the
\* one that fired; closing: the rows the sweep classified as over, with the
\* reason; owed: the owed rows the sweep read.
Pass == [pc : PassPc, start : Nat, at : Nat, svc : BOOLEAN, live : BOOLEAN, reap : BOOLEAN,
         due : [Proc -> Watcher], cur : Proc \cup {None},
         seen : {"none", "running", "exited", "fail"}, closed : BOOLEAN,
         probed : BOOLEAN, armed : BOOLEAN, spent : BOOLEAN,
         closing : [Proc -> WorkReason \cup {"none"}], owed : SUBSET Proc]

IdlePass == [pc |-> "idle", start |-> 0, at |-> 0, svc |-> FALSE, live |-> FALSE, reap |-> FALSE,
             due |-> [p \in Proc |-> NoWatcher], cur |-> None,
             seen |-> "none", closed |-> FALSE,
             probed |-> FALSE, armed |-> FALSE, spent |-> FALSE,
             closing |-> [p \in Proc |-> "none"], owed |-> {}]

Init ==
    /\ now = 0 /\ alarm = None
    /\ rows = [p \in Proc |-> NoRow]
    /\ watchers = [p \in Proc |-> NoWatcher]
    /\ status = [p \in Proc |-> "none"]
    /\ compute = "absent" /\ gen = UnknownGeneration
    /\ nonce = None
    /\ real = [p \in Proc |-> "none"]
    /\ pass = IdlePass
    /\ reg = [p \in Proc |-> "none"]
    /\ push = [p \in Proc |-> "idle"]
    /\ stop = [p \in Proc |-> "idle"]
    /\ shut = FALSE
    /\ used = [fails |-> 0, losses |-> 0, nonces |-> 0]
    /\ told = [p \in Proc |-> 0]
    /\ unread = [p \in Proc |-> "no"]

-------------------------------------------------------------------------------
(* What several actions share.                                             *)

\* Spend k failures and n nonces of the bounded resources.
Spend(k, n) ==
    /\ used.fails + k <= MaxFails
    /\ used' = [used EXCEPT !.fails = @ + k, !.nonces = @ + n]

One(b) == IF b THEN 1 ELSE 0

\* armAlarm: one min-fold of the watchers' polls, the ledger's horizon and the
\* times a caller adds; nothing to wake for leaves the alarm as it is.
ArmTimes(times) ==
    times \cup {watchers'[p].nextPollAt : p \in {q \in Proc : watchers'[q].on}}
          \cup WorkHorizonTimes(rows', now)

Arm(times) ==
    alarm' = IF ArmTimes(times) = {} THEN alarm ELSE Soonest(ArmTimes(times))

\* An arm inside the pass's tick also moves alarmArmCount.
ArmInTick(times, p) ==
    /\ Arm(times)
    /\ pass' = IF ArmTimes(times) = {} THEN p
               ELSE [p EXCEPT !.armed = TRUE, !.spent = FALSE]

\* An arm or a cancel from outside the pass replaces the schedule row too.
Replaces == pass' = [pass EXCEPT !.spent = FALSE]

\* setGeneration: an absence keeps its first sighting, and only a known nonce
\* ends it.
SetGeneration(view) ==
    IF view.kind # "known" /\ gen.kind = "absent" THEN gen ELSE view

\* probeAndRecordGeneration, with restoreGenerationAfterWipe: ask the container
\* for its nonce and record the answer; a container that answers without one is
\* given a new nonce.  fault is what goes wrong beyond the container's state; k
\* failures came before.
ProbeFault == {"none", "unreadable", "unwritable"}

ProbeAndRecord(fault, t, k) ==
    LET unreadable == nonce = None \/ fault = "unreadable"
        found      == ~unreadable /\ nonce # 0
        restore    == ~unreadable /\ nonce = 0 /\ compute = "active"
        restored   == restore /\ fault # "unwritable"
        fresh      == used.nonces + 1
    IN  /\ gen' = CASE unreadable -> SetGeneration(UnknownGeneration)
                    [] found      -> KnownGeneration(nonce)
                    [] restored   -> KnownGeneration(fresh)
                    [] restore /\ ~restored -> SetGeneration([kind |-> "absent", value |-> t])
                    [] OTHER      -> gen
        /\ nonce' = IF restored THEN fresh ELSE nonce
        /\ Spend(k + One(fault # "none"), One(restored))

\* stopRunningProcesses: settle every process the store believes running, and
\* close its row as of t; deliver says whether a reminder of the caller covers it.
StopRunning(deliver, t) ==
    LET running == {p \in Proc : status[p] = "running"}
        stopped(p) == Terminalize(rows[p], "process_stopped", t)
    IN  /\ status' = [p \in Proc |-> IF p \in running THEN "settled" ELSE status[p]]
        /\ rows' = [p \in Proc |->
                      IF p \notin running THEN rows[p]
                      ELSE IF deliver /\ IsOpen(rows[p]) THEN MarkDelivered(stopped(p))
                      ELSE stopped(p)]

ClearWatchers == watchers' = [p \in Proc |-> NoWatcher]

\* A tick ends without having polled, or the watchers go with an expired backup.
SkipPolls == unread' = [p \in Proc |-> IF unread[p] = "no" THEN "skipped" ELSE unread[p]]

\* cleanupExpiredRecovery: a backup past its expiry is dropped.  (When that is, is
\* left open up to a bound.)
Expires == compute = "recoverable" /\ now <= MaxStart + RecoveryTtl

DropBackup == StopRunning(TRUE, now) /\ ClearWatchers /\ SkipPolls

\* The container answers, and knows the process.  The Cloudflare backend throws
\* process_missing for one it does not know.
Readable(p) == nonce # None /\ real[p] \in {"running", "exited"}

\* What the loss of a container does to the processes in it.
Lose == [p \in Proc |-> IF real[p] \in {"running", "exited"} THEN "gone" ELSE real[p]]

\* markRuntimeMissing, and the end of execShutdown: the environment is absent.
TearDown ==
    /\ StopRunning(TRUE, now)
    /\ ClearWatchers
    /\ compute' = "absent" /\ gen' = UnknownGeneration
    /\ alarm' = None

\* A card about p reaches the injection buffer.  A row that was pruned has no
\* card left to count.
Tell(p) ==
    told' = IF rows[p].state = "absent" THEN told ELSE [told EXCEPT ![p] = @ + 1]

-------------------------------------------------------------------------------
(* The clock and the container.                                            *)

\* An alarm is never later than Lateness; a pass takes PassTicks at most, and the
\* probe of a call is over by MaxStart + PassTicks.
Tick ==
    /\ now < MaxTime
    /\ \A p \in Proc : reg[p] = "probed" => now < MaxStart + PassTicks
    /\ IF pass.pc = "idle" THEN alarm # None => now < alarm + Lateness
       ELSE now < pass.start + PassTicks
    /\ now' = now + 1
    /\ UNCHANGED <<alarm, storeVars, envVars, pass, callVars, used, history>>

\* A process ends by itself.
ProcExit(p) ==
    /\ real[p] = "running"
    /\ real' = [real EXCEPT ![p] = "exited"]
    /\ UNCHANGED <<now, alarm, storeVars, compute, gen, nonce, pass, callVars, used, history>>

\* The container runs out of memory: the provider hands back a working one, on
\* the same reference, with an empty filesystem; or it vanishes for good.
LoseContainer(n) ==
    /\ nonce # None /\ nonce # n
    /\ used.losses < MaxLosses
    /\ used' = [used EXCEPT !.losses = @ + 1]
    /\ nonce' = n
    /\ real' = Lose
    /\ UNCHANGED <<now, alarm, storeVars, compute, gen, pass, callVars, history>>

Wipe == "wipe" \in Scope /\ LoseContainer(0)

Vanish == "vanish" \in Scope /\ LoseContainer(None)

-------------------------------------------------------------------------------
(* The calls of the model, of the user and of the sandbox.                 *)

\* readOrAcquireRuntime on a thread without an environment: a new container, and
\* a new nonce, recorded and written.  (Acquisition is one step here.)
AcquireRuntime ==
    /\ compute \in {"absent", "recoverable"}
    /\ Spend(0, 1)
    /\ nonce' = used.nonces + 1
    /\ gen' = KnownGeneration(used.nonces + 1)
    /\ compute' = "active"
    /\ real' = Lose

\* An exec that needs the environment; an expired backup is not restored.
Acquire ==
    /\ now <= MaxStart
    /\ AcquireRuntime
    /\ UNCHANGED <<now, callVars, told>>
    /\ \/ UNCHANGED <<storeVars, unread>>
       \/ Expires /\ DropBackup
    /\ Arm({now + IdleTimeout}) /\ Replaces

\* waitForForegroundOrBackground gives up waiting for a process, or a sweep of
\* autoWatchRunningProcesses finds one left without a watcher: the nonce is
\* probed, and the registration is what follows that await.
BackgroundProbe(p) ==
    /\ compute = "active" /\ reg[p] = "none" /\ now <= MaxStart
    /\ \/ /\ real[p] = "none" /\ nonce # None
          /\ real' = [real EXCEPT ![p] = "running"]
          /\ status' = [status EXCEPT ![p] = "running"]
       \/ /\ real[p] # "none" /\ status[p] = "running"
          /\ UNCHANGED <<real, status>>
    /\ reg' = [reg EXCEPT ![p] = "probed"]
    /\ \E fault \in ProbeFault : ProbeAndRecord(fault, now, 0)
    /\ UNCHANGED <<now, alarm, rows, watchers, compute, pass, push, stop, shut, history>>

\* The rest of backgroundResult and execWatch: watcher, row, alarm; then the
\* model is promised a message.
Register(p) ==
    /\ reg[p] = "probed"
    /\ reg' = [reg EXCEPT ![p] = "done"]
    /\ watchers' = [watchers EXCEPT ![p] = NewWatcher(now)]
    /\ rows' = [rows EXCEPT ![p] = RegisterRow(@, ProcessWorkRow(
                   IF gen.kind = "known" THEN gen.value ELSE UNKNOWN_GENERATION, now))]
    /\ unread' = [unread EXCEPT ![p] = "no"]
    /\ UNCHANGED <<now, status, envVars, push, stop, shut, used, told>>
    /\ Arm({now + IdleTimeout}) /\ Replaces

\* exec_output and the dock's output view: execStatus reads a running process
\* from the container and settles it in the compute store; the ledger and the
\* watcher are left alone.
ReadOutput(p) ==
    /\ "output" \in Scope
    /\ compute = "active" /\ status[p] = "running" /\ reg[p] = "done"
    /\ nonce # None /\ real[p] = "exited"
    /\ status' = [status EXCEPT ![p] = "settled"]
    /\ UNCHANGED <<now, alarm, rows, watchers, envVars, pass, callVars, used, history>>

\* The same read finds the environment gone.
ReadOutputOfMissing(p) ==
    /\ "output" \in Scope
    /\ compute = "active" /\ status[p] = "running" /\ reg[p] = "done"
    /\ nonce = None
    /\ TearDown /\ Replaces
    /\ UNCHANGED <<now, nonce, real, callVars, used, history>>

\* reportProcessCompletion finds the row open and resolves the compute service;
\* the callback is sent once.
PushReceive(p) ==
    /\ "push" \in Scope
    /\ push[p] = "idle" /\ real[p] = "exited"
    /\ IsOpen(rows[p])
    /\ \E facts \in {"service", "noservice"} :
         /\ push' = [push EXCEPT ![p] = facts]
         /\ Spend(One(facts = "noservice"), 0)
    /\ UNCHANGED <<now, alarm, storeVars, envVars, pass, reg, stop, shut, history>>

\* Its continuation: terminalize, deliver and stamp without an await; then
\* recordPushedExit, when the service resolved.
PushApply(p) ==
    /\ push[p] \in {"service", "noservice"}
    /\ push' = [push EXCEPT ![p] = "done"]
    /\ \/ /\ ~IsOpen(rows[p])
          /\ UNCHANGED <<rows, watchers, status, told, used>>
       \/ /\ IsOpen(rows[p]) /\ Spend(1, 0)
          /\ rows' = [rows EXCEPT ![p] = Terminalize(@, "process_exit", now)]
          /\ UNCHANGED <<watchers, status, told>>
       \/ /\ IsOpen(rows[p]) /\ Tell(p)
          /\ rows' = [rows EXCEPT ![p] = MarkDelivered(Terminalize(@, "process_exit", now))]
          /\ IF push[p] = "service"
             THEN /\ watchers' = [watchers EXCEPT ![p] = NoWatcher]
                  /\ status' = [status EXCEPT ![p] = "settled"]
             ELSE UNCHANGED <<watchers, status>>
          /\ UNCHANGED used
    /\ UNCHANGED <<now, alarm, envVars, pass, reg, stop, shut, unread>>

\* exec_stop, or one process of a cancelled turn: the backend's stopProcess.
StopCall(p) ==
    /\ "stop" \in Scope
    /\ compute = "active" /\ reg[p] = "done" /\ stop[p] = "idle"
    /\ \/ /\ Readable(p)
          /\ real' = [real EXCEPT ![p] = "exited"]
          /\ stop' = [stop EXCEPT ![p] = "stopped"]
          /\ UNCHANGED used
       \/ /\ status[p] = "running"
          /\ stop' = [stop EXCEPT ![p] = "failed"]
          /\ Spend(1, 0)
          /\ UNCHANGED real
    /\ UNCHANGED <<now, alarm, storeVars, compute, gen, nonce, pass, reg, push, shut, history>>

\* Variant: a stop stamps the delivery of a row that another writer closed.
StampedStoppedRow(row) == MarkDelivered(Terminalize(row, "process_stopped", now))

\* A stop closes the row without a message, and says so by stamping the delivery
\* of a row it closed itself.
StoppedRow(row) ==
    IF IsOpen(row) THEN MarkDelivered(Terminalize(row, "process_stopped", now)) ELSE row

\* The continuation of the stop.
StopApply(p) ==
    /\ stop[p] \in {"stopped", "failed"}
    /\ stop' = [stop EXCEPT ![p] = "done"]
    /\ status' = [status EXCEPT ![p] = IF stop[p] = "stopped" THEN "settled" ELSE @]
    /\ rows' = [rows EXCEPT ![p] = StoppedRow(@)]
    /\ watchers' = [watchers EXCEPT ![p] = NoWatcher]
    /\ UNCHANGED <<now, alarm, envVars, pass, reg, push, shut, used, history>>

\* execShutdown: the backend destroys the environment, or its backup; the local
\* effects follow that await, and the last of them cancels the alarm.
ShutdownCall ==
    /\ "shutdown" \in Scope
    /\ compute \in {"active", "recoverable"} /\ ~shut /\ used.losses < MaxLosses
    /\ used' = [used EXCEPT !.losses = @ + 1]
    /\ shut' = TRUE
    /\ nonce' = None /\ real' = Lose
    /\ UNCHANGED <<now, alarm, storeVars, compute, gen, pass, reg, push, stop, history>>

ShutdownApply ==
    /\ shut /\ shut' = FALSE
    /\ TearDown /\ Replaces
    /\ UNCHANGED <<now, nonce, real, reg, push, stop, used, history>>

-------------------------------------------------------------------------------
(* The alarm pass: resolve -> tick -> sweep -> fallback.                   *)

\* The schedule row is due.  Nothing is read before resolveComputeService
\* answers, so the pass begins with its answer.
Fires == pass.pc = "idle" /\ alarm # None /\ alarm <= now

Fired(pc, svc, live) ==
    [IdlePass EXCEPT !.pc = pc, !.start = now, !.svc = svc, !.live = live, !.spent = TRUE]

\* resolveComputeService fails: no tick.
ResolveFails ==
    /\ Fires
    /\ Spend(1, 0)
    /\ pass' = Fired("sweepstart", FALSE, FALSE)
    /\ SkipPolls
    /\ UNCHANGED <<now, alarm, storeVars, envVars, callVars, told>>

\* runComputeTick without an environment: arm for the rest and be done; a
\* backup past its expiry is dropped first.
TickAbsent ==
    /\ Fires /\ compute \in {"absent", "recoverable"}
    /\ SkipPolls
    /\ UNCHANGED <<now, storeVars, envVars, callVars, used, told>>
    /\ ArmInTick({}, Fired("sweepstart", TRUE, FALSE))

TickExpired ==
    /\ Fires /\ Expires /\ DropBackup
    /\ compute' = "absent" /\ gen' = UnknownGeneration
    /\ LET woken == ArmTimes({})
       IN  /\ alarm' = Soonest(woken)
           /\ pass' = [Fired("sweepstart", TRUE, FALSE)
                         EXCEPT !.spent = FALSE, !.armed = woken # {}]
    /\ UNCHANGED <<now, nonce, real, callVars, used, told>>

TickStart ==
    /\ Fires /\ compute = "active"
    /\ pass' = Fired("quota", TRUE, TRUE)
    /\ UNCHANGED <<now, alarm, storeVars, envVars, callVars, used, history>>

\* The unguarded quota.refresh() of a live environment throws out of the tick.
QuotaFails ==
    /\ pass.pc = "quota" /\ compute = "active"
    /\ Spend(1, 0)
    /\ pass' = [pass EXCEPT !.pc = "sweepstart"]
    /\ SkipPolls
    /\ UNCHANGED <<now, alarm, storeVars, envVars, callVars, told>>

\* pollDueWatchers reads the watchers that are due.
PollStart ==
    /\ pass.pc = "quota"
    /\ LET due == [p \in Proc |-> IF watchers[p].on /\ watchers[p].nextPollAt <= now
                                  THEN watchers[p] ELSE NoWatcher]
       IN  pass' = [pass EXCEPT !.at = now, !.due = due,
                      !.pc = IF \E p \in Proc : due[p].on THEN "ensure" ELSE "tickend"]
    /\ UNCHANGED <<now, alarm, storeVars, envVars, callVars, used, history>>

\* The due watchers of the snapshot, their poll postponed.
Postponed(w) == [w EXCEPT !.nextPollAt = pass.at + Poll]

\* ensureRuntime throws: every due watcher is written back, postponed.
EnsureFails ==
    /\ pass.pc = "ensure"
    /\ Spend(1, 0)
    /\ watchers' = [p \in Proc |-> IF pass.due[p].on THEN Postponed(pass.due[p]) ELSE watchers[p]]
    /\ pass' = [pass EXCEPT !.pc = "tickend", !.due = [p \in Proc |-> NoWatcher]]
    /\ SkipPolls
    /\ UNCHANGED <<now, alarm, rows, status, envVars, callVars, told>>

\* ensureRuntime answers with the live environment, or acquires one when it was
\* torn down since the tick began.
EnsureRuntime ==
    /\ pass.pc = "ensure"
    /\ UNCHANGED <<now, storeVars, callVars, history>>
    /\ \/ /\ compute = "active"
          /\ pass' = [pass EXCEPT !.pc = "poll"]
          /\ UNCHANGED <<alarm, envVars, used>>
       \/ /\ AcquireRuntime
          /\ ArmInTick({now + IdleTimeout}, [pass EXCEPT !.pc = "poll"])

\* pollProcessStatus: the container answers, or the read fails.
PollRead(p) ==
    /\ pass.pc = "poll" /\ pass.due[p].on
    /\ \/ /\ Readable(p)
          /\ pass' = [pass EXCEPT !.pc = "apply", !.cur = p, !.seen = real[p]]
          /\ UNCHANGED used
       \/ /\ pass' = [pass EXCEPT !.pc = "apply", !.cur = p, !.seen = "fail"]
          /\ Spend(One(Readable(p)), 0)
    /\ UNCHANGED <<now, alarm, storeVars, envVars, callVars, history>>

\* The poll in flight is over: on to the next due watcher.
PollNext(p) ==
    LET due == [pass.due EXCEPT ![p] = NoWatcher]
    IN  [pass EXCEPT !.due = due, !.cur = None, !.seen = "none", !.closed = FALSE,
                     !.pc = IF \E q \in Proc : due[q].on THEN "poll" ELSE "tickend"]

\* classifyWatcher on a process that is still running.
WatcherVerdict(w) ==
    IF pass.at >= w.createdAt + WatchMax THEN "timeout"
    ELSE IF pass.at >= w.deadlineAt THEN "renew"
    ELSE "pending"

\* Variant: the read does not stamp.
Unstamped(p) == rows[p]

\* A successful read stamps the row and writes the store's status.
Stamped(p) == StampAlive(rows[p], pass.at)

\* Pending and renewed watches go back, postponed.
PollRunning ==
    /\ pass.pc = "apply" /\ pass.seen = "running"
    /\ LET p == pass.cur
           w == pass.due[p]
       IN  /\ WatcherVerdict(w) # "timeout"
           /\ rows' = [rows EXCEPT ![p] = Stamped(p)]
           /\ status' = [status EXCEPT ![p] = "running"]
           /\ watchers' = [watchers EXCEPT ![p] =
                 IF WatcherVerdict(w) = "renew"
                 THEN [Postponed(w) EXCEPT !.deadlineAt = pass.at + Renew] ELSE Postponed(w)]
           /\ unread' = [unread EXCEPT ![p] = "no"]
           /\ pass' = PollNext(p)
    /\ UNCHANGED <<now, alarm, envVars, callVars, used, told>>

\* The catch of pollDueWatchers after k failures: probe the nonce once per tick,
\* and write the watcher of the snapshot back, postponed.
PollCatch(p, k) ==
    /\ watchers' = [watchers EXCEPT ![p] = Postponed(pass.due[p])]
    /\ pass' = [PollNext(p) EXCEPT !.probed = TRUE]
    /\ unread' = [unread EXCEPT ![p] = "missed"]
    /\ IF pass.probed THEN Spend(k, 0) /\ UNCHANGED <<gen, nonce>>
       ELSE \E fault \in ProbeFault : ProbeAndRecord(fault, pass.at, k)

PollFails ==
    /\ pass.pc = "apply" /\ pass.seen = "fail"
    /\ PollCatch(pass.cur, 0)
    /\ UNCHANGED <<now, alarm, rows, status, compute, real, callVars, told>>

\* Variant: the poll speaks without asking.
NeverTold(row, closed) == FALSE

\* alreadyTold: another writer closed the row and told the model.
AlreadyTold(row, closed) == ~closed /\ row.delivered

\* The absolute timeout passed: close the row, tell the model, drop the watcher.
PollTimeout ==
    /\ pass.pc = "apply" /\ pass.seen = "running"
    /\ WatcherVerdict(pass.due[pass.cur]) = "timeout"
    /\ LET p    == pass.cur
           over == Terminalize(Stamped(p), "watch_timeout", pass.at)
           told_already == AlreadyTold(over, IsOpen(rows[p]))
       IN  /\ status' = [status EXCEPT ![p] = "running"]
           /\ \/ /\ told_already
                 /\ rows' = [rows EXCEPT ![p] = over]
                 /\ watchers' = [watchers EXCEPT ![p] = NoWatcher]
                 /\ pass' = PollNext(p)
                 /\ UNCHANGED <<gen, nonce, used, told, unread>>
              \/ /\ ~told_already
                 /\ rows' = [rows EXCEPT ![p] = MarkDelivered(over)]
                 /\ Tell(p)
                 /\ watchers' = [watchers EXCEPT ![p] = NoWatcher]
                 /\ pass' = PollNext(p)
                 /\ UNCHANGED <<gen, nonce, used, unread>>
              \/ /\ ~told_already
                 /\ rows' = [rows EXCEPT ![p] = over]
                 /\ PollCatch(p, 1)
                 /\ UNCHANGED told
    /\ UNCHANGED <<now, alarm, compute, real, callVars>>

\* The process is over: stamp, settle, close the row; then fetch its output.
PollExited ==
    /\ pass.pc = "apply" /\ pass.seen = "exited"
    /\ LET p == pass.cur
       IN  /\ rows' = [rows EXCEPT ![p] = Terminalize(Stamped(p), "process_exit", pass.at)]
           /\ status' = [status EXCEPT ![p] = "settled"]
           /\ unread' = [unread EXCEPT ![p] = "no"]
           /\ pass' = [pass EXCEPT !.pc = "output", !.closed = IsOpen(rows[p])]
    /\ UNCHANGED <<now, alarm, watchers, envVars, callVars, used, told>>

\* refreshProcessOutput throws, as it must when the container lost the process, or
\* the delivery does: the row stays owed.
OutputFails ==
    /\ pass.pc = "output"
    /\ LET lost == compute = "active" /\ nonce # None /\ ~Readable(pass.cur)
       IN  PollCatch(pass.cur, One(~lost))
    /\ UNCHANGED <<now, alarm, rows, status, compute, real, callVars, told>>

\* refreshProcessOutput finds the environment missing; the poll goes on.
OutputOfMissing ==
    /\ pass.pc = "output" /\ compute = "active" /\ nonce = None
    /\ TearDown /\ Replaces
    /\ UNCHANGED <<now, nonce, real, callVars, used, history>>

\* The output is in: tell the model, unless it was told, and drop the watcher.
OutputRead ==
    /\ pass.pc = "output" /\ (compute = "active" => Readable(pass.cur))
    /\ LET p == pass.cur
       IN  /\ IF AlreadyTold(rows[p], pass.closed) THEN UNCHANGED <<rows, told>>
              ELSE Tell(p) /\ rows' = [rows EXCEPT ![p] = MarkDelivered(@)]
           /\ watchers' = [watchers EXCEPT ![p] = NoWatcher]
           /\ pass' = PollNext(p)
    /\ UNCHANGED <<now, alarm, status, envVars, callVars, used, unread>>

\* The end of the tick: something is still watched, or releaseIfIdle decides
\* that the environment is in use; either way the tick arms.
TickArms ==
    /\ pass.pc = "tickend"
    /\ UNCHANGED <<now, storeVars, envVars, callVars, used, history>>
    /\ \/ /\ Watched # {}
          /\ ArmInTick({}, [pass EXCEPT !.pc = "sweepstart"])
       \/ /\ Watched = {} /\ compute = "active"
          /\ ArmInTick({now + IdleTimeout}, [pass EXCEPT !.pc = "sweepstart"])

\* releaseIfIdle returns without arming: nothing to release, or its
\* quota.refresh() throws.
TickEndsUnarmed ==
    /\ pass.pc = "tickend" /\ Watched = {}
    /\ Spend(One(compute = "active"), 0)
    /\ pass' = [pass EXCEPT !.pc = "sweepstart"]
    /\ UNCHANGED <<now, alarm, storeVars, envVars, callVars, history>>

\* releaseIfIdle finds nothing watched and the environment idle, and awaits what
\* blocks a release and what becomes of the files.  (How long the environment
\* has been idle is left open.)
ReleaseCheck ==
    /\ "release" \in Scope
    /\ pass.pc = "tickend" /\ Watched = {} /\ compute = "active"
    /\ used.losses < MaxLosses
    /\ used' = [used EXCEPT !.losses = @ + 1]
    /\ pass' = [pass EXCEPT !.pc = "disposing", !.at = now]
    /\ UNCHANGED <<now, alarm, storeVars, envVars, callVars, history>>

\* A subagent at work blocks the release.
ReleaseBlocked ==
    /\ pass.pc = "disposing"
    /\ UNCHANGED <<now, storeVars, envVars, callVars, used, history>>
    /\ ArmInTick({pass.at + IdleTimeout}, [pass EXCEPT !.pc = "sweepstart"])

\* Both awaits are over, and the release begins: what was found before them is not
\* looked at again.
ReleaseStart ==
    /\ pass.pc = "disposing"
    /\ compute' = "releasing"
    /\ pass' = [pass EXCEPT !.pc = "release"]
    /\ UNCHANGED <<now, alarm, storeVars, gen, nonce, real, callVars, used, history>>

\* The files are preserved: the processes are stopped and the model is owed the
\* news.  When a step before that throws, settleDestroyedRuntime arms first and
\* then stops them as told.
ReleasePreserves ==
    /\ pass.pc = "release"
    /\ compute' = "recoverable" /\ nonce' = None /\ real' = Lose
    /\ UNCHANGED <<now, watchers, gen, callVars, history>>
    /\ \E settled \in BOOLEAN :
         /\ Spend(One(settled), 0) /\ StopRunning(settled, pass.at)
         /\ ArmInTick({pass.at + RecoveryTtl} \cup (IF settled THEN SweepTimes(rows) ELSE {}),
                      [pass EXCEPT !.pc = "sweepstart"])

\* The environment is discarded: nothing arms.
ReleaseDiscards ==
    /\ pass.pc = "release"
    /\ StopRunning(TRUE, pass.at)
    /\ compute' = "absent" /\ nonce' = None /\ real' = Lose /\ gen' = UnknownGeneration
    /\ pass' = [pass EXCEPT !.pc = "sweepstart"]
    /\ UNCHANGED <<now, alarm, watchers, callVars, used, history>>

\* The release failed: the container is presumed alive.
ReleaseFails ==
    /\ pass.pc = "release"
    /\ UNCHANGED <<now, storeVars, gen, nonce, real, callVars, history>>
    /\ Spend(1, 0)
    /\ compute' = "active"
    /\ ArmInTick({pass.at + IdleTimeout}, [pass EXCEPT !.pc = "sweepstart"])

\* runWorkLedgerSweep reads the open and the owed rows, the store's generation
\* and the clock, and classifies the rows as read.  It resolves a service of its
\* own when the callback has none; without one the generation is unknown.
SweepStart ==
    /\ pass.pc = "sweepstart"
    /\ \E reap \in BOOLEAN :
         /\ pass.svc => reap
         /\ LET view == IF reap THEN gen ELSE UnknownGeneration
                verdict(p) == ClassifyWork(rows[p], view, now)
                owed == {p \in Proc : IsOwed(rows[p])}
            IN  pass' = [pass EXCEPT
                  !.reap = reap, !.at = now, !.owed = owed,
                  !.closing = [p \in Proc |-> IF verdict(p) = "alive" THEN "none" ELSE verdict(p)],
                  !.pc = IF owed = {} /\ \A p \in Proc : ~IsOpen(rows[p]) THEN "rearm" ELSE "sweep"]
    /\ UNCHANGED <<now, alarm, storeVars, envVars, callVars, used, history>>

ToClose == {p \in Proc : pass.closing[p] # "none"}

\* Variant: a wrong sentinel for a row that was handled.
ClassifiedAlive(p) == [pass EXCEPT !.closing = [@ EXCEPT ![p] = "alive"]]

Classified(p) == [pass EXCEPT !.closing = [@ EXCEPT ![p] = "none"]]

\* stopProcessDirect, when the reaper kills a silent process: the store and the
\* container agree that it runs, or the backend's error is swallowed.
Kills(p) ==
    /\ pass.reap /\ pass.closing[p] = "no_liveness"
    /\ compute = "active" /\ status[p] = "running"

ReapProcess(p) ==
    \/ /\ Kills(p) /\ Readable(p)
       /\ real' = [real EXCEPT ![p] = "exited"]
       /\ status' = [status EXCEPT ![p] = "settled"]
       /\ UNCHANGED used
    \/ /\ Spend(One(Kills(p) /\ Readable(p)), 0)
       /\ UNCHANGED <<real, status>>

\* terminalizeWork: close the row, deliver, stamp, tear down.  A row that closed
\* since it was read is left alone.
SweepCloses(p) ==
    /\ pass.pc = "sweep" /\ p \in ToClose /\ IsOpen(rows[p])
    /\ rows' = [rows EXCEPT ![p] =
                  MarkDelivered(Terminalize(@, pass.closing[p], pass.at))]
    /\ Tell(p)
    /\ watchers' = [watchers EXCEPT ![p] = IF pass.reap THEN NoWatcher ELSE @]
    /\ ReapProcess(p)
    /\ pass' = Classified(p)
    /\ UNCHANGED <<now, alarm, compute, gen, nonce, callVars, unread>>

\* The delivery throws: the row is closed, owed, and nothing is torn down.
SweepClosesUntold(p) ==
    /\ pass.pc = "sweep" /\ p \in ToClose /\ IsOpen(rows[p])
    /\ Spend(1, 0)
    /\ rows' = [rows EXCEPT ![p] = Terminalize(@, pass.closing[p], pass.at)]
    /\ pass' = Classified(p)
    /\ UNCHANGED <<now, alarm, watchers, status, envVars, callVars, history>>

SweepLate(p) ==
    /\ pass.pc = "sweep" /\ p \in ToClose /\ ~IsOpen(rows[p])
    /\ pass' = Classified(p)
    /\ UNCHANGED <<now, alarm, storeVars, envVars, callVars, used, history>>

\* Variant: the retry yields whether or not a watcher is left.
AlwaysSpokenFor(p) == pass.reap

\* A live watcher still owes the row its message.
SpokenFor(p) == pass.reap /\ watchers[p].on

Retried(p) == [pass EXCEPT !.owed = @ \ {p}]

\* The retry of an owed row: deliver and stamp, no teardown.
SweepRetries(p) ==
    /\ pass.pc = "sweep" /\ ToClose = {} /\ p \in pass.owed
    /\ ~SpokenFor(p)
    /\ Tell(p)
    /\ rows' = [rows EXCEPT ![p] = MarkDelivered(@)]
    /\ pass' = Retried(p)
    /\ UNCHANGED <<now, alarm, watchers, status, envVars, callVars, used, unread>>

\* The row is skipped, or its delivery throws again.
SweepKeepsOwed(p) ==
    /\ pass.pc = "sweep" /\ ToClose = {} /\ p \in pass.owed
    /\ Spend(One(~SpokenFor(p)), 0)
    /\ pass' = Retried(p)
    /\ UNCHANGED <<now, alarm, storeVars, envVars, callVars, history>>

\* Variant: the watchers' next poll as it is.
WatcherHorizon ==
    IF ~pass.svc \/ Watched = {} THEN {}
    ELSE {Soonest({watchers[p].nextPollAt : p \in Watched})}

\* The watchers' next poll, floored: a poll that stayed in the past waits for
\* one more interval.
WatcherFloor ==
    LET next == Soonest({watchers[p].nextPollAt : p \in Watched})
    IN  IF ~pass.svc \/ Watched = {} THEN {}
        ELSE {IF next <= now THEN now + Poll ELSE next}

\* prune, at the end of a sweep that had rows to look at.
Kept(p) ==
    IF pass.pc = "sweep" THEN PruneRow(rows[p], pass.at - Retention) ELSE rows[p]

\* Variant: the fallback forgets the ledger.
WatcherTimes == WatcherFloor

\* The fallback folds the watchers and the ledger.
FallbackTimes == WatcherFloor \cup WorkHorizonTimes(rows, now)

\* The fallback arms when the tick did not; then the pass is over, and so is
\* the schedule row that fired.
AlarmAfter ==
    IF ~pass.armed /\ FallbackTimes # {} THEN Soonest(FallbackTimes)
    ELSE IF pass.spent THEN None
    ELSE alarm

PassEnds ==
    /\ \/ pass.pc = "rearm"
       \/ pass.pc = "sweep" /\ ToClose = {} /\ pass.owed = {}
    /\ rows' = [p \in Proc |-> Kept(p)]
    /\ told' = [p \in Proc |-> IF Kept(p).state = "absent" THEN 0 ELSE told[p]]
    /\ alarm' = AlarmAfter
    /\ pass' = IdlePass
    /\ UNCHANGED <<now, watchers, status, envVars, callVars, used, unread>>

\* The Durable Object restarts: what was between two awaits is lost; the stores
\* and the schedule row remain.
Crash ==
    /\ "crash" \in Scope
    /\ \/ pass.pc \notin {"idle", "release"}
       \/ \E p \in Proc : reg[p] = "probed" \/ push[p] \in {"service", "noservice"}
                          \/ stop[p] \in {"stopped", "failed"}
    /\ pass.pc # "release"
    /\ Spend(1, 0)
    /\ pass' = IdlePass
    /\ reg' = [p \in Proc |-> IF reg[p] = "probed" THEN "none" ELSE reg[p]]
    /\ push' = [p \in Proc |-> IF push[p] \in {"service", "noservice"} THEN "done" ELSE push[p]]
    /\ stop' = [p \in Proc |-> IF stop[p] \in {"stopped", "failed"} THEN "done" ELSE stop[p]]
    /\ shut' = FALSE
    /\ UNCHANGED <<now, alarm, storeVars, envVars, history>>

-------------------------------------------------------------------------------
Environment ==
    \/ Wipe \/ Vanish
    \/ \E p \in Proc : ProcExit(p)

Calls ==
    \/ Acquire \/ ShutdownCall \/ ShutdownApply
    \/ \E p \in Proc :
         \/ BackgroundProbe(p) \/ Register(p)
         \/ ReadOutput(p) \/ ReadOutputOfMissing(p)
         \/ PushReceive(p) \/ PushApply(p)
         \/ StopCall(p) \/ StopApply(p)

PassStep ==
    \/ ResolveFails \/ TickAbsent \/ TickExpired \/ TickStart
    \/ QuotaFails \/ PollStart \/ EnsureFails \/ EnsureRuntime
    \/ PollRunning \/ PollFails \/ PollTimeout \/ PollExited
    \/ OutputFails \/ OutputOfMissing \/ OutputRead
    \/ TickArms \/ TickEndsUnarmed
    \/ ReleaseCheck \/ ReleaseBlocked \/ ReleaseStart
    \/ ReleasePreserves \/ ReleaseDiscards \/ ReleaseFails
    \/ SweepStart \/ PassEnds
    \/ \E p \in Proc :
         \/ PollRead(p) \/ SweepCloses(p) \/ SweepClosesUntold(p) \/ SweepLate(p)
         \/ SweepRetries(p) \/ SweepKeepsOwed(p)

Next == Tick \/ Environment \/ Calls \/ PassStep \/ Crash

Spec == Init /\ [][Next]_vars

\* The platform runs an alarm that is due and finishes a pass, and a call that
\* put a process in the background registers it; and time passes,
\* however many passes an alarm set for the present causes (strong fairness: the
\* clock of the model waits while a pass is at its PassTicks).
FairSpec == Spec /\ SF_vars(Tick) /\ WF_vars(PassStep) /\ WF_vars(\E p \in Proc : Register(p))

-------------------------------------------------------------------------------
\* Every variable stays within its type.
TypeOK ==
    /\ now \in Nat /\ alarm \in Nat \cup {None}
    /\ rows \in [Proc -> Row] /\ watchers \in [Proc -> Watcher]
    /\ status \in [Proc -> {"none", "running", "settled"}]
    /\ compute \in {"absent", "active", "releasing", "recoverable"}
    /\ gen \in CurrentGeneration /\ nonce \in Nat \cup {None}
    /\ real \in [Proc -> {"none", "running", "exited", "gone"}]
    /\ pass \in Pass
    /\ reg \in [Proc -> {"none", "probed", "done"}]
    /\ push \in [Proc -> {"idle", "service", "noservice", "done"}]
    /\ stop \in [Proc -> {"idle", "stopped", "failed", "done"}]
    /\ shut \in BOOLEAN
    /\ used \in [fails : Nat, losses : Nat, nonces : Nat]
    /\ told \in [Proc -> Nat] /\ unread \in [Proc -> {"no", "skipped", "missed"}]

\* The model is told at most once how a process ended, whichever of the poll,
\* the exit callback, the sweep and its retry, a stop and a teardown get there,
\* and in whatever order they resume from their awaits.
AtMostOnceTold == \A p \in Proc : told[p] <= 1

\* delivered_at is honest in both directions: a stamped row was told to the
\* model or was stopped on request, and a row that is open or owed was not told
\* yet, so a retry never repeats a message and a message is never lost.
ReceiptIsHonest ==
    \A p \in Proc :
      /\ IsSettled(rows[p]) => told[p] = 1 \/ rows[p].reason = "process_stopped"
      /\ IsOpen(rows[p]) \/ IsOwed(rows[p]) => told[p] = 0

\* The row of a process with the messages sent about it, as WorkContract sees it.
PromisePhase(p) ==
    CASE rows[p].state = "absent" -> IF reg[p] = "done" THEN "forgotten" ELSE "unmade"
      [] IsOpen(rows[p]) -> "open"
      [] IsOwed(rows[p]) -> "owed"
      [] IsSettled(rows[p]) -> IF told[p] = 0 THEN "silent" ELSE "told"

PromiseOf ==
    [p \in Proc |-> [phase |-> PromisePhase(p), reason |-> rows[p].reason, sent |-> told[p]]]

Contract == INSTANCE WorkContract WITH
    Work <- Proc, Reasons <- WorkReason, Requested <- "process_stopped",
    promise <- PromiseOf

\* Every step of the writers of the ledger is a legal move of the contract: one
\* terminal, one reason, one message, and no owed message silenced or pruned.
KeepsContract == Contract!Spec

\* Between passes the alarm covers the ledger: it fires before any open row can
\* time out or go stale, and some alarm is set while a message is owed.
AlarmCoversWork ==
    pass.pc = "idle" =>
      \A p \in Proc :
        /\ IsOpen(rows[p]) =>
             /\ alarm # None
             /\ alarm <= rows[p].deadlineAt
             /\ alarm <= rows[p].lastAlive + StaleAfter
        /\ IsOwed(rows[p]) => alarm # None

Faulted(p) == rows[p].reason # "no_liveness" /\ rows'[p].reason = "no_liveness"

\* The reaper never faults a process for silence when the poll of the same pass
\* read it, late as the pass may be.
NoFaultOnReadable == [][\A p \in Proc : Faulted(p) => unread[p] # "no"]_vars

\* think-thread-agent.ts:5073-5077: a horizon that is past costs one extra wake.
\* A pass whose tick found an environment and that leaves an alarm in its own past
\* leaves nothing behind that would do so again, so the next pass is the last of
\* the burst.  A tick without an environment polls no watcher and arms for all of
\* them, so a watcher left behind by a release has no such bound and is not part of
\* the claim; without a compute service nothing arms for a watcher.
NoHotLoop ==
    [][PassEnds /\ alarm' # None /\ alarm' < pass.start =>
         \A p \in Proc :
           /\ watchers[p].on /\ pass.live => watchers[p].nextPollAt > alarm'
           /\ IsOpen(rows[p]) => Soonest(SweepTimes([q \in {p} |-> rows[q]])) > alarm']_vars

Unsettled(p) == IsOpen(rows[p]) \/ IsOwed(rows[p])

\* A message is owed, and the retry leaves it to a watcher that cannot read its
\* process any more.
Mute(p) == IsOwed(rows[p]) /\ watchers[p].on /\ real[p] = "gone"

\* A background process that the model was promised news of is settled in the
\* end, whatever fails: its row is closed and its message sent.  The one other
\* end is a message left for good to a watcher that outlived its process.
WorkIsSettled == \A p \in Proc : Unsettled(p) ~> (~Unsettled(p) \/ []Mute(p))

-------------------------------------------------------------------------------
(* What comments of the repository say, and the code does not do.           *)

\* think-thread-agent.ts:5152-5160: the fallback never strands open work.
OpenWorkHasAlarm ==
    pass.pc = "idle" /\ (\E p \in Proc : IsOpen(rows[p])) => alarm # None
===============================================================================
