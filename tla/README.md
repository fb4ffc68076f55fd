# Nadi: verification of the agent runtime

Nadi runs one agent per chat thread inside a Cloudflare Durable Object (DO). A
thread may own a sandbox container, put processes of it in the background, and
must later tell the model, exactly once, how each of them ended, through DO
restarts, late alarms, lost containers and calls that interleave at every
`await`. Messages reach the thread while its turn runs, threads share a cap on
live containers, a cron tick starts threads of its own, and the secrets of a
workspace lie in a key-value store without transactions. This directory holds
TLA+ models of that runtime, the TLC configurations that check them and the
proofs that hold for every instance.

Paths below are relative to the repository: `TS` is
`src/compute/thread-service.ts`, `AG` is `src/agent/think-thread-agent.ts`, `QU`
is `src/agent/queued-user-messages.ts`, `KW` is `src/secrets/kv-writer.ts`.

## 1. Inventory

| Component | State it keeps | Operations | What makes it hard |
|---|---|---|---|
| Work ledger (`agent/work-ledger.ts`, `work-ledger-store.ts`) | SQLite table `background_work`, one row per process or subagent: terminal, `delivered_at`, `last_alive`, deadline, generation | register, stampAlive, terminalize, markDelivered, prune, classify, horizons | four writers that interleave; a message owed after a failure |
| Alarm pass (`AG` runSandboxEviction) | none of its own; reads rows and watchers before its awaits | resolve, tick, sweep, fallback arm | stale reads, order of tick and sweep, who re-arms |
| Watchers and polling (`compute/watchers.ts`, `TS`) | SQLite table of watchers with `nextPollAt`, `deadlineAt` | execWatch, poll, renew, time out, delete | the poll writes back what it read; postponed for ever |
| Compute service of a thread (`TS`, `thread-store.ts`) | environment state, process statuses, generation view | acquire, exec, output, stop, shutdown, tick, release, expire, markRuntimeMissing | release against a call, acquisition deadline and latch |
| Generation nonce (`compute/generation.ts`) | a file in the container, its view in the store | write, probe, restore after a wipe | a wipe on the same reference; one unreadable probe |
| Exit callback (`AG` reportProcessCompletion) | none | receive, resolve, terminalize, deliver, record | races the poll and the sweep |
| Alarm scheduling (`agent/compute-tools.ts`) | one schedule row per thread | cancel-then-set, cancel | an arm replaces a nearer one |
| Subagents (`agent/subagent*.ts`) | runs, ledger rows of kind subagent | start, finish, cancel, reap | a finish against the reaper |
| Container quota (`compute/container-ledger.ts`, `container-quota.ts`) | D1 leases of a workspace | admit, refresh, release, reclaim | conditional insert, expiry, two reclaimers |
| Injection buffer and router, queued user messages (`agent/injection-*.ts`, `queued-user-messages.ts`) | queues in SQLite | enqueue, steer, drain, cancel | a turn that ends while a message is steered into it |
| Automata (`automata/*.ts`) | D1 rows of schedules and runs | fire due, claim, reschedule | overlapping crons, a crash between claim and fire |
| Secrets (`secrets/*.ts`, `scripts/backfill-secret-index.mjs`) | per workspace a key record, an index of names, a sealed value per name | first write, set, delete, list, get, backfill | no transaction and no compare-and-swap; any call dies or is overlapped between two records |
| Thread knowledge (`thread-knowledge/*.ts`) | search projection and cursor | project, repair, delete | lost and reordered events |
| Notifications, user hub, presence | D1 rows, sockets | notify, read, fan out | a read racing a notification |
| Pure algorithms (compaction, context budget, output slicing, schedule) | none | - | boundaries |
| Files, settings, HTTP routes, D1 repositories, providers and OAuth, MCP, voice, web client, GitHub, storage, observability | see `PROJECT.json` | - | mostly I/O; candidates are named there |

Interaction: the tools call the compute service and register rows in the
ledger; the compute service arms the thread's one alarm through a callback of
the agent (`sandboxHostDeps`, `AG:4570`) that folds the ledger's horizon; the
alarm runs the pass; the pass, the callback of the sandbox, the stops and the
teardowns all write the ledger; whoever closes a row delivers into the
injection buffer, which wakes the model. All of this runs in one DO: code is
atomic between two awaits of I/O, and anything may interleave there.

What makes each correct, in one line each: a background process is announced
once and never lost (ledger, watchers, callback); some alarm always covers what
is still to be done, and never spins (pass, scheduling); a live process is not
faulted (watchers, nonce); at most one live container per thread and never one
destroyed under a call (compute service); the workspace cap holds (quota); a
user message is answered once and in order (queues); a due automaton fires once
(automata); no write that dies makes secrets
unreachable, and the next one repairs the listing (secrets); the projection converges to the transcript (knowledge).

## 2. Modules

| Module | Role |
|---|---|
| `WorkLedger` | the row, the SQL statements on one row and the pure classification and horizons: operators, no state |
| `WorkContract` | abstract specification: what the ledger promises about each process |
| `BackgroundWork` | one thread: pass, tools, callback, container, alarm; EXTENDS `WorkLedger`, refines `WorkContract` |
| `ComputeLifecycle` | the environment of one thread with every await of acquisition, release, discard, shutdown and expiry, and what becomes of the work in it |
| `ContainerQuota` | the lease table of a workspace, the gate of each thread, the reclaim call between two threads |
| `AutomataFiring` | overlapping cron ticks, manual runs, updates and thread events over the two automata tables |
| `ThreadInbox` | queued messages, steers and completions around one turn: the waiting batch, the injection buffer, the kicks; refines `QueueContract` |
| `QueueContract` | abstract specification: the messages queued while a turn runs are one batch, run or taken apart as a whole |
| `WorkspaceSecrets` | the key, the index and the values of a workspace, concurrent calls of the writer, the backfill |
| `MC*` | instances of these for TLC (model values, symmetry, the constraint of a run) |
| `WorkLedgerLemmas`, `BackgroundWorkProofs`, `AlarmProofs`, `ComputeLifecycleProofs`, `ContainerQuotaProofs`, `AutomataFiringProofs`, `ThreadInboxProofs`, `WorkspaceSecretsProofs` | lemmas, inductive invariants and theorems |

The modules meet where the code does: `ContainerQuota` abstracts an environment
to absent, active or releasing, the statuses `ComputeLifecycle` writes, and the
slot it frees on a failed acquisition is the `AcqFailed` of that module;
`BackgroundWork` uses both as one step; a message that `BackgroundWork` counts
as told is a completion `ThreadInbox` carries into the transcript;
`AutomataFiring` starts the turns of its threads as single steps. They are not
composed into one specification: each pair shares one interface of few values,
and the product of their interleavings adds nothing a property speaks of.

### How BackgroundWork corresponds to the code

State. `rows` is `background_work`; `watchers` the watcher table; `status` the
compute store's process status (`settled` stands for every status that is not
`running`); `compute` its state row; `gen` its `getGenerationView`; `alarm` the
schedule row. `nonce` and `real` are the container itself. `pass`, `reg`,
`push`, `stop`, `shut` are calls suspended at an await, with what they read
before it. `told` and `unread` are history variables for the properties, and no
guard reads them. `used` counts the bounded events.

Steps. An action runs from one await of I/O to the next. A pass is the path
`quota -> ensure -> poll -> apply -> output -> tickend -> disposing -> release ->
sweepstart -> sweep -> rearm`, any prefix of which may be cut by an exception:
`ResolveFails`, `QuotaFails`, `EnsureFails`, `PollFails`, `OutputFails`,
`ReleaseFails`, `SweepClosesUntold`, `SweepKeepsOwed`. The snapshot of due
watchers (`pass.due`) and the classification of the sweep (`pass.closing`,
`pass.owed`) are kept from the read to the use, since other actors act in
between. `Terminalize` only closes an open row, as its `WHERE` clause does, and
its result (`pass.closed`) decides who speaks (`AlreadyTold`).

Times are in poll intervals; durations (`StaleAfter`, `Renew`, `WatchMax`, ...)
are constants, so their ratios are free in the proofs.

Abstractions, and why they are sound for the properties here:

- Acquisition, a nonce probe, a teardown (stop the processes, clear the
  watchers, cancel the alarm), the expiry of a backup and an arm are one step
  each. The awaits inside acquisition, release, shutdown and expiry are the
  subject of `ComputeLifecycle`; those inside a probe, a teardown's cancel and
  an arm are not modelled (section 6).
- Delivering a message and stamping its row are one step: no I/O is awaited in
  between (`Tell` is an insert into the DO's own SQLite).
- `SweepStart` reads the rows, the clock and the generation in one step. Rows
  closed by others afterwards are met by `SweepLate`.
- The reaper kills a silent process inside the same step (`ReapProcess`); the
  kill may fail, and the failure is swallowed as in the code.
- A DO restart is not modelled while the backend is releasing an environment.
- The checks of a release (nothing watched, idle for long enough) precede two
  awaits, and are not repeated after them: `ReleaseCheck`, then `ReleaseBlocked`
  or `ReleaseStart`, with registrations, stops and callbacks in between. How long
  the environment has been idle, and when a backup expires (`Expires`), is left
  open. Nobody acquires while the backend releases; `ComputeLifecycle` has that.
- `execWatch` is reached through the auto-watch of running processes, which is
  the second disjunct of `BackgroundProbe`. The limit of 8 watchers, the
  sprites work hold, and `clearFinished` (a display stamp) are left out.
- Backends answer as Cloudflare's does: reading an unknown process throws. A
  deployment without compute is a pass with `svc = FALSE` and `reap = FALSE`.
- A subagent attached to its parent's environment, and rows of kind subagent,
  are left out (section 6).

### ComputeLifecycle

`store` is the status row of the compute store (`status`, `recoveryRef`, whether
`recoveryExpiresAt` passed), `declared` the clean bit of `confirm_work_saved`,
`box` the files of the container at the provider. `acq` holds the acquisition in
flight of each service instance: the latch of `ensureRuntime` is a field of the
instance, a turn shares one, and a route, the alarm and a probe have their own.
`user` are the calls that need a runtime, `task` the three that take the
container away (idle tick, reclaim, shutdown). Work is a number: `made` so far,
`saved` once pushed, `forgone` once somebody openly gave it up (a shutdown, an
expired backup, a container the provider lost).

The Cloudflare backend is followed: one id stands for the thread, and whoever
uses it with no container gets an empty one, which is how work is lost in
silence. `AcqCreates ... AcqFailed` are `readOrAcquireRuntime`; `GiveUp` is the
deadline, after which the acquisition goes on; `TickStart ... TailFails` are the
idle branch of `runComputeTick`, `releaseIfIdle` and `settleDestroyedRuntime`;
`Reclaim*` is `releaseIfReclaimable`; `ShutdownStart ... GivenUp` `execShutdown`
and `cleanupExpiredRecovery`; `Confirm*` is the tool.

Some overlaps are excluded by nothing in the code, and each of them can lose
work. `Overlap` and `Torn` name them, `disturbed` latches when the first occurs,
and the claims hold up to then. The list is what a reader should take away, so
it is minimal: with any one of its five disjuncts dropped TLC finds
`WorkSurvives` or `BitIsHonest` violated. They are: two tasks that take the
container at once; one that takes it while a call is under way; one while an
acquisition is in flight (`TS:2494` looks for one in flight, but on the instance
it was called on, so the alarm can expire the backup another instance is
restoring); two acquisitions on two instances; a declaration while a command
runs. `Torn` is a restart between the destroy and the record of its backup.

### ContainerQuota

Each statement on D1 is a step: `tryAdmit` is `Prune`, `Insert` and, where the
platform gives no change count, `Confirm`; `refresh` is `UpdateRow`, `HoldsSlot`
and `tryAdmit` again; `admit` continues with `ListCandidates`, `Ask`, `ToldYes`
or `ToldNo`, `DropCandidate`. `rpc[<<a, t>>]` is the call that runs in `t` for
`a`; a call that timed out goes on in its target (`ToldNo` leaves it there), and
a restart of either side breaks it. Only differences of times are compared, so a
row keeps the time it has left and an operation the age of the instant it read:
time is unbounded, with no clock to cut. `last_used_at` and `expires_at` are
always written one TTL apart, so the LRU order is that of the time left. The
assumption `MaxDelay < Ttl` says that no statement is a whole TTL (minutes) late
after its operation read the clock.

### AutomataFiring

`automata` and `runs` are the two tables, `job[w]` what one invocation holds (a
cron tick or a manual run), `edit[u]` what an update in progress has read before
its awaits; nothing keeps several of one automaton from overlapping. A patch may
hold a schedule, a time zone (which only recomputes the due instant) and the
switch.
A tick is `Reap`, `List`, then per item `Look` (unfinished run and grace),
`SkipRow` or `Claim`, `Begin`, perhaps `FailRun`, and `Advance`; the partial
unique index is the guard of `Claim`. `Drop` is a statement that throws, `Crash`
an invocation that dies between any two. A schedule is a multiple of a period, a
single instant, or one that does not parse; times of day, zones and weekdays are
the cron library's. "ended" stands for completed and waiting_for_approval.
`begun` marks a run whose turn was submitted, whatever the caller was told.
Two history variables name what nothing prevents, where both sides write what
they read: `crossed`, the automata whose update overlapped a tick that held them
(`OneLiveRun` and `DueFitsSchedule` do not speak of those), and `clashed`, those
with two updates that overlapped (`DueFitsSchedule` does not speak of those
either; section 5).

### ThreadInbox

A step is the code from one await to the next. `subs` is the submission ledger
of the agent SDK, `turn` its active turn: both, with the drain loop (`ClaimSub`,
`StartTurn`) and the order in which a turn releases the queue before
`onChatResponse` runs (`TurnEnds`, then `Flush`), are external and modelled from
what this code relies on. `rpc[c]` is a queue call (`serializeQueuedRpc` runs one
at a time): `ListSubs`, `Pick`, `Merge` and `SubmitBatch` are
`submitQueuedUserMessage`, `Inspect` and `Check` the cancel and rebuild. `buffer`
is `pending_injections`; `Deliver`, `KickSubmit`, `KickDelete` are
`deliverInjection` and `_kickInjectionTurn`, `StepPeek ... StepDelete` the drain
of `beforeStep`. `hand` is what a queue call would lose if it died, and
`dropped` what was lost so. An entry is handed over once (the deduplication of a
repeated key is not modelled), an item has no attachments, and the submission of
`beginAutomatonRun` is left out.

### WorkspaceSecrets

`dek` is the record of the workspace's key, `index` its `secret-index`, `sealed[n]`
the record of a secret, of which only the key it was sealed with is kept: it
opens under no other (`Readable`, the `get` of `kv-store.ts`). Keys are numbered
as they are generated. `calls[c]` is a call of `KVWorkspaceSecretsWriter` and the
await it is at; a `save` is `ensureWorkspaceDek` followed by `set`, as every
settings form does it, a `set` alone is what the token refreshes and rollbacks
do. `EnsureKey`, `SeedIndex`, `WriteKey` are the first write; `LoadKey`, `Probe`,
`ProbeKey`, `WriteValue` the set; `LookUp`, `RemoveValue` the delete; `ReadIndex`,
`ReadIndexKey`, `WriteIndex` the read-modify-write of `writeIndex`. `readIndex`
makes two reads when there is no index, and each is a step. `Dies` is a store
that throws or an isolate that ends. `BackfillLists` and `BackfillEnds` are a run
of the script on one workspace, with everything else in between. A workspace
starts empty or, `legacy`, with a key and values from before the index.

`TypeOK` says of the calls also that one past its read of the key has a key in
hand: a missing key must end the call there. `raced` latches when a first write generates a key while another is past its
own read of the key; `solo` holds while no other call overlapped this one;
`refused` are the kinds of calls that threw `index_missing`. The properties read
these, no guard does. The store is taken to be strongly consistent, as
celld's single writer is; Cloudflare's KV may serve a read up to a minute old,
where more can be lost than here.

## 3. Runs

All bounds are guards or constants with a name: `MaxTime`, `MaxStart` (no call
starts later), `MaxFails` (injected failures and crashes), `MaxLosses`,
`Lateness` of an alarm, `PassTicks` of a pass, `Scope` (which events happen);
`MaxFaults`, `MaxManual`, `MaxEdits`, `MaxChats`, `MaxWork`, `MaxCalls`,
`MaxDeaths`. `Expires` cuts the instants at which a backup may expire at
`MaxStart + RecoveryTtl`.

| Run | Bounds | What it shows |
|---|---|---|
| `work_core` | 1 process, every event, 1 failure or crash, 1 loss, time 6 (1.8M states) | types, at-most-once, honest receipts, refinement of `WorkContract`. The time is past the watch maximum, staleness and retention, so every reason, the retry and the prune occur. |
| `work_alarm` | 1 process, alarms 2 late, passes 1 long, 2 failures, stop, wipe, release, crash, calls until 2, time 7 (4.7M states) | `AlarmCoversWork`, `NoFaultOnReadable`, `NoHotLoop`, where a late alarm and a slow pass together exceed `StaleAfter`: a sweep before the tick would fault a healthy process, so the order matters here. A release, too, may be overlapped by a registration. |
| `work_live` | 1 process, 1 failure or crash, a wipe or a release, a callback, output, calls until 1, passes 1 long, time 8, fair (1.1M states) | every promise is settled in the end, or left to a watcher that outlived its process (`Mute`) |
| `said_never_stranded` | 1 process, no failure | expected to fail: section 5 |
| `compute` | 2 calls, 2 instances, 2 pieces of work, 2 failures, 2 crashes or losses (590K states) | up to the first overlap of section 2, work is where the next call finds it and the clean bit is honest. Two pieces tell a backup from the files written after it; two failures reach a rollback that fails again. |
| `quota` | 2 threads, 1 slot, TTL 2, statements up to 1 late (2.1M states) | the cap, the prune before the insert, the own row, and what each thread is told. Two threads contend in every way the statements allow: both insert, each reclaims the other. |
| `quota_live` | 2 threads, 1 slot, TTL 1, fair (580K states) | a leaked row stops refusing others |
| `automata` | 1 automaton, 2 invocations, three schedules, 2 updates at once, time 2, any two of a fault, a manual run, an update and an archived automaton (1.6M states) | one turn per due instant, one unfinished run, a due instant of the schedule's own, final runs. Automata share no row, and a third tick can only repeat what the second found. |
| `automata_live` | 1 automaton, 2 invocations, a cron, time 3, 1 fault, fair (730K states) | no due instant holds the schedule up for good |
| `inbox` | 2 queued messages, a steer, 2 queue calls, a direct turn, 2 faults (2.9M states) | one waiting batch, no message lost, doubled or run after its cancel, no active turn aborted, the buffer is drained by somebody, refinement of `QueueContract`. Two messages are the least that merge and are rebuilt. |
| `inbox_live` | a queued message, a steer, a completion, fair, no faults (490K states) | everything handed over reaches the transcript or is cancelled |
| `secrets` | 2 names, 2 callers, 4 calls of any kind, 1 death, the backfill at any time, new and legacy workspaces (2.2M states) | no stranded workspace, values lost to overlapping first writes only, no refused set, nothing touched without an index, and a call alone repairs what was left. Two calls race in every way; two more before or after them leave and clear ghosts. |

`MaxTime` stops the clock only after every row must be settled: in `work_live` a
process starts by time 1, its watch budget is 3 and the failure delays by a
poll or a retry interval; a row still unsettled at time 8 would be a real
failure to settle, and the mutant of that run shows that one is caught. In
`automata_live` the claim is made of the due instants that go stale before the
clock stops (`1 .. MaxNow - Grace - 1`). Deadlock is not checked where a bounded
instance does stop (the time, the work and the failures are spent, nothing is
queued, watched or due).

Shutdown and the loss of a container for good are not in `work_alarm` and
`work_live`: with them the properties fail in the code. A shutdown, or a read
that finds the environment gone, cancels the alarm whatever the ledger holds
(`said_never_stranded`; the same cancel strands an owed row when a restart
follows before the fallback). A stop is not in `work_live`: nothing bounds how
long the backend takes to answer it, and its row may be left open until then.

The runs of `BackgroundWork` have one process. Processes meet only in the pass,
the container and a teardown that stops all of them; that the receipt of one is
honest when another is torn down is proved for any number (section 4).

`inbox_live` has no faults because `EverythingArrives` says nothing of a thread
that died: after one, what is buffered waits for the next message
(`InjectionKept` shows that it is still there).

**Fairness.**

- `BackgroundWork`: `WF(PassStep)`: the platform runs an alarm that is due at
  least once, and the event loop resumes an await that settled; `WF(Register)`:
  the same for the call that puts a process in the background (it follows the
  probe, whose I/O has a timeout); `SF(Tick)`: time passes even though an alarm
  set for the present may run passes between ticks. Nothing is assumed of the
  process (it may run for ever), the callback (it may never come) or the
  failures.
- `ContainerQuota`: `WF` of the statements and calls in flight of each thread
  (D1 answers or throws, a call ends or times out) and `SF(Tick)`. Nobody has
  to start a call.
- `AutomataFiring`: `WF(StartTick)` (cron fires every minute), `WF(Works)` (an
  invocation runs to its end unless it dies) and `WF(Clock)`. Nothing is assumed
  of the threads or the users.
- `ThreadInbox`: `WF` of the continuations of a queue call, of the kicks, of the
  claim and the start of a submission (the SDK's drain loop), of the persist
  and the delete of a step, of the end of a turn and of the flush. Nothing is
  assumed of the users or of another step of the turn.

**Mutants.** Each property of a passing run has a variant of one definition of
the code (named `Variant:` in the modules) that breaks it: an `UPDATE` without
the guard on the terminal, a poll that does not ask whether the model was told,
a fallback that forgets the ledger, a prune that keeps a row expiring now, a
count that includes the own row, a rollback to active whatever failed, an index
on unfinished runs only, an overlap check that ignores a queued run, a merge
without the second look, a kick that empties the whole buffer, a first write that puts the
key before the index, a delete that stops where there is no value.

## 4. Proofs

`tlapm` checks every step of the eight proof modules from the named assumptions
on the constants alone (`LedgerAssumption`, `WorkAssumption`,
`LifecycleConstants`, `QuotaConstants`, `SchedulesAssumption`,
`TimesAssumption`, `BoundsAssumption`, `KindsAssumption`, `CallsAssumption`):
any set of processes, threads, automata, invocations, messages, names and
callers, any positive intervals, any bounds.

| Module | Theorem | Statement |
|---|---|---|
| `BackgroundWorkProofs` | `TypeCorrect`, `Invariant` | `Spec => []TypeOK`; `Spec => []IInv`, the inductive strengthening |
| | `ToldAtMostOnce` | `Spec => []AtMostOnceTold` |
| | `HonestReceipt` | `Spec => []ReceiptIsHonest` |
| | `ContractKept` | `Spec => Contract!Spec` under the mapping `PromiseOf` |
| `AlarmProofs` | `TeardownAloneUncovers` | `Spec => OnlyTeardownUncovers`, an action property: only a teardown takes away a wake that a row needs |
| | `ArmsAndFallbackRepair` | `Spec => ArmsRepair`, an action property: the next arm, or the fallback of a pass that did not arm, gives it back |
| | `AlwaysCovered`, `AlarmCovers` | `NoTeardown` gives `Spec => []Covered` and `Spec => []AlarmCoversWork` |
| | `NoSecondExtraWake` | `Spec => NoHotLoop`, of every pass whose tick found an environment, teardowns included |
| | `NoFaultWhileReadable` | `NoTeardown` and `PassIsShort` give `Spec => NoFaultOnReadable` |
| `ComputeLifecycleProofs` | `TypeCorrect`, `Inductive` | `Spec => []TypeOK`; `Spec => []IInv` |
| | `WorkNeverLost` | `Spec => []WorkSurvives` |
| | `CleanBitIsHonest` | `Spec => []BitIsHonest` |
| `ContainerQuotaProofs` | `TypeCorrect` | `Spec => []TypeOK` |
| | `CapNeverExceeded` | `Spec => []CapHolds` |
| | `InsertCountsEveryRow` | `Spec => []PrunedBeforeInsert` |
| | `OwnRowAlwaysRenewed`, `AdmissionIsARow` | the two action properties |
| `AutomataFiringProofs` | `TypeCorrect`, `Inductive` | `Spec => []TypeOK`; `Spec => []IInv` |
| | `DueStartsOneTurn` | `Spec => []OneTurnPerDue` |
| | `OneUnfinishedRun` | `Spec => []OneLiveRun` |
| | `DueBelongsToSchedule` | `Spec => []DueFitsSchedule` |
| | `RunsStayFinal` | the action property `RunsAreFinal` |
| `ThreadInboxProofs` | `TypeCorrect`, `Inductive` | `Spec => []TypeOK`; `Spec => []IInv` |
| | `OneBatchWaits` | `Spec => []OneWaiting` |
| | `QueuedNeverLost`, `WithdrawnNeverRuns` | `Spec => []QueuedKept`; `Spec => []WithdrawnStaysOut` |
| | `InjectionNeverLost`, `BufferAlwaysDrained` | `Spec => []InjectionKept`; `Spec => []BufferIsDrained` |
| | `ActiveTurnNeverAborted` | the action property `ActiveTurnIsSafe` |
| | `QueueContractKept` | `Spec => KeepsQueueContract`, the refinement of `QueueContract` |
| | `EachMessageInOnePlace` | `Spec => []EachInOnePlace` |
| `WorkspaceSecretsProofs` | `TypeCorrect`, `Inductive` | `Spec => []TypeOK`; `Spec => []IInv` |
| | `WorkspaceNeverStranded`, `OnlyRacesLoseValues` | `Spec => []NeverStranded`; `Spec => []ValuesOpen` |
| | `SetAlwaysWelcome` | `Spec => []SetIsWelcome` |
| | `RefusedTouchesNothing`, `WriteAloneIsExact` | the two action properties |

**BackgroundWork.** `AtMostOnceTold` and `ReceiptIsHonest` are not inductive:
what saves them is what the suspended actors know. `IInv` adds

- `LedgerInv`: the relation of a row's state, its stamp and `told`;
- `RegisteredInv`: a row, a watcher or a snapshot entry exists only for a
  process whose call registered it, so a row is never opened a second time;
- `PollInv`: while a poll reads the output of an exited process, its row is not
  open, and if this poll closed it, it is still owed: nobody else may stamp it.
  This is why the poll can speak after its await;
- `SweepInv`: the owed rows the sweep read and did not retry yet are still owed.

The proof has three layers. The `*Type` lemmas show `TypeOK'` action by action.
The `*Move` lemmas show that each action changes each row by one of a few moves
(`Quiet`, `Opened`, `Closed`, told, silenced, pruned), and `MovesKeepLedger` that
moves preserve `LedgerInv`. The `*Control` lemmas keep the other three. The
refinement reuses the moves: each is a step of `WorkContract` or a stutter
(`MovesAreContractual`), so it needs no second case analysis of `Next`.

**The alarm.** One schedule row must wake the thread for every row of the
ledger, and five kinds of steps write either. `AlarmProofs` sorts all of them
once. A step that leaves the alarm alone treats each row tamely (`Tame`: nothing
that would need an earlier wake), and so keeps the cover (`TameKeepsCover`). An
arm, made by a registration or by a tick, folds the horizon of the whole ledger
(`HorizonCovers`). The end of a pass re-arms if the tick did not, and if it did,
the schedule row is no longer the one that fired (`ArmedInv`). What is left is a
teardown, which cancels. So two facts hold whatever happens
(`TeardownAloneUncovers`, `ArmsAndFallbackRepair`), and for a thread whose
environment is neither shut down nor vanishes (`NoTeardown`) the cover is an
invariant, in the middle of a pass as well (`AlwaysCovered`).

`NoTeardown` cannot be dropped: section 5 has the shutdown that leaves an open
row with no alarm, and with shutdowns, containers that vanish and `exec_output`
in its scope TLC also violates `NoFaultOnReadable`. An environment lost by an
expired backup or a release is no teardown in this sense and is covered.
`NoHotLoop` needs no such condition.

`NoHotLoop` and `NoFaultOnReadable` need more: where a pass stands in time.
`TimeInv` relates the clock to the start of the pass and to the instant it sampled,
`PolledInv` says that in a pass whose tick found an environment a watcher is still
to be polled or waits for a time after its start, and `SweptInv` that the same
holds of the rows the sweep leaves open. So an alarm in the past of the pass was set before its
sweep, for a row the sweep then closed, and all that remains is later.

For the fault, `ListenInv` says that a process every poll could read is
watched, is polled again within an interval of its stamp, and has, once the tick
has polled, a stamp less than an interval older than the pass. Under `PassIsShort`,
`Poll + PassTicks <= StaleAfter + 1`, that stamp is still good at the sweep,
however late the alarm (`Lateness` does not occur), because the tick stamps
before the sweep classifies. The bound is exact: with `Poll = 1` and
`StaleAfter = 3`, TLC finds no violation with passes 3 long and one with passes 4
long. The code sets the horizon to three poll intervals
(`PROCESS_STALE_AFTER_MS`) but bounds no pass: one that takes more than two
intervals, for instance to restore a large backup, can fault a healthy process that
was not due when it began; the theorem says that nothing else can.

`NoHotLoop` speaks of the watchers only for a pass whose tick found an environment
(`pass.live`). A pass whose service did not resolve, or that found the environment
absent or recoverable, polls nothing, and the alarm it leaves may be as early as
a watcher it never looked at. The next pass with an environment polls that one, so
the burst ends there; without an environment it need not end (section 5).

**ComputeLifecycle.** Types hold always; everything else (`CalmInv`) up to the
first overlap, `~disturbed`. Then one task at most takes the container, and no
call, no acquisition but its own probe is under way (`TakingIsAlone`), and one
acquisition at most is in flight (`OneAcquires`). So what a step read before an
await still holds after it: `AcqInv` says it of each await of an acquisition (the
backup it restores is the one in the store; once created, the container holds the
unsaved work), `TaskInv` of each await of a release, an expiry or a shutdown (a
release past its backup carries all the unsaved work, and discards only when there
is none). `HomeInv` is the heart: the unsaved work is in the backup of a
recoverable environment, or in the container, or a release is about to record it;
only this third case does not survive a restart, which is why `Torn` is needed.
`BitInv` says that a set clean bit speaks of the container, of the backup and of
the backups under way, so it stays true whichever of them becomes the files.

**ContainerQuota.** The insert counts the unexpired rows only, and yet the table
itself never exceeds the limit. The reason is the prune before it: in between, a
row can only become younger, or be written with an instant younger than the
TTL, so no row counts as expired at the instant of the insert
(`PrunedBeforeInsert`), and the count is that of the whole table. This is where
`MaxDelay < Ttl` is needed. `HasCandidate` says that an operation asking or
waiting has a candidate in hand.

**AutomataFiring.** The overlap check is read long before the claim is written.
What saves it is that late ticks hold few instants that are still free:
`Frontier` says that of all instants some tick holds or the row is due at, at
most one has no row yet, and so for every instant the schedule can be turned
back to and advanced from. A tick about to claim (`Stage`) found no unfinished
run, or its instant has got a row since, and then the index refuses it.
`Undisturbed` ties the held items to the schedule, for automata no update
crossed; two updates that overlap do not disturb it, since every instant an update
computes is later than all rows, whatever schedule it was computed from. `Fresh`
says that what an update has read is what the row still holds, unless it was
crossed or clashed, and with it the due instant written belongs to the schedule.

**ThreadInbox.** A queue call reads the submissions, awaits, and acts on what it
read while turns start, end and die. `CallInv` is what it may still rely on at
each stage: every batch that waits is among those it has seen, and the one it
picked still waits or has been started meanwhile, in which case the second look
at the transcript refuses it. The steps of the turn, of the drains and of the
injections all move the submissions in the same way (`Moved`: a live batch stays
live or enters the transcript whole, none is taken apart, no queued batch is
added), so `MovedQueue` shows once
that the knowledge of a suspended call survives them; only the steps of the queue
calls are argued one by one, and the chain of `ThinkThreadAgent` (`Chained`)
keeps those apart. For injections, `BufferInv` says that a row leaves the buffer
only when its message has landed, in a live submission or in the transcript, and
`Covered` that each row left has a turn, a step hook or a kick that will read it.

The refinement of `QueueContract` maps what waits to the messages of the
submissions not yet in the transcript, and what joins to the hands of the queue
calls; at most one call holds any, since they are chained. A `Moved` step runs
the whole batch or leaves it (`MovedRefines`), and each step of a queue call is one
step of the contract or a stutter: `Merge` takes the picked batch along unless its
turn has started, and either way nothing else waits at the submit (`CallInv`), as
`Submits` demands. That no message is in two places (`Apart`) then follows from
the contract alone, for every program that keeps it, and with `IInv` each
message queued is in one of its five places: one whose call died (`dropped`) does
not come back.

**WorkspaceSecrets.** Nothing holds two records of the store together, so the
invariant says what each call may rely on between a read and a write
(`KeyInv`): past its load there is a key, past its seed an index, and a call about
to touch a value saw an index or no key. Keys and indexes never go away and an
index comes before a key (`Forward`), so the steps of others keep that
(`OthersKeep`). `OneKey` is what holds up to the first overlap of first writes: at
most one call is past its read of a missing key, and every other holds the key in
the store. `SoloInv` carries to the last step of a lone call what it wrote in its
earlier ones.

**Only model-checked.** The liveness properties (`WorkIsSettled`, `LeakedRowHeals`,
`PastIsLeft`, `EverythingArrives`): liveness under fairness and `ENABLED` are
beyond the provers, and so is induction over recursive definitions. Every safety
and action property of the passing runs is a theorem.

## 5. Where the code and its comments disagree

`said_never_stranded` is a run that TLC must find violated, and its trace is the
explanation: `exec_output` settles an exited process in the compute store only;
a following `exec_shutdown` skips its ledger row (`TS:3254`) and cancels the
alarm (`TS:2246`), so an open row is left with no alarm, against invariant B
(`AG:5404`).

The others were met while modelling and stand in `PROJECT.json` as hazards, or
here, where no property can claim them:

- After the same shutdown, the next environment makes the sweep report
  `sandbox_reset`, which `TS:3236` calls false after a shutdown asked for.
- A watcher registered after a teardown makes every tick of the absent
  environment arm for the past (`TS:1928`), against "at most ONE extra immediate
  wake" (`AG:5075`). So does one registered while a release awaits `hasBlockingWork`
  or its git probe: no watcher and a long idle time were found before those awaits
  (`TS:1938`, `TS:1950`), and the release goes on (`TS:1971`). It stops the process
  and leaves the watcher, and every alarm of the recoverable environment is
  followed by another at once, until an exec restores it or the backup expires.
- Passes that fail before polling still sweep (`AG:5106`), so a healthy process
  nobody tried to read can be faulted (`AG:5070`).
- A pass that cannot resolve the service leaves an idle environment without an
  alarm (`AG:5195`), against `docs/architecture.md:78`.
- A watcher that can never read its process again keeps the retry of its owed
  row away (`AG:5530`), against "The row is not stranded by the skip" (`AG:5514`):
  after a wipe, and after the release of the previous point, whose message waits
  for the watcher to go. `WorkIsSettled` names that state (`Mute`) as the one other
  end.
- Two updates of an automaton that overlap (`src/automata/service.ts:323-406`)
  each write what they computed from the row they read. One enables it, the other
  gives it a new schedule: if the second writes first, the row is enabled with the
  new schedule and the due instant of the old one, against "Recompute nextDueAt
  whenever the schedule" appears in a patch (line 386). With `clashed` dropped TLC
  finds `DueFitsSchedule` violated.
- `cleanupExpiredRecovery` skips while an acquisition is in flight (`TS:2494`),
  but each caller has an instance of its own: the alarm can expire the backup a
  turn is restoring (`Overlap` of `ComputeLifecycle`).
- An object that restarts between the destroy of a container and
  `markRecoverable` (`TS:1976`) has a backup it does not know of (`Torn`).
- A tick that meets a claim of a dead one leaves the schedule to it
  (`src/automata/fire-due.ts:326`): the automaton is skipped until the instant
  is stale. `PastIsLeft` shows that it recovers then.
- A batch cancelled for a merge or a rebuild is lost when the submit that
  replaces it throws (`QU:427`); `QueuedKept` excludes exactly that
  (`dropped`).
- `cancelSteer` is called raceless (`AG:6629`), but a step or a kick that has
  peeked the entry hands it over all the same after the acknowledgement;
  `WithdrawnStaysOut` speaks of queued messages only.

- Two first writes of a workspace that overlap each generate a key, and the put of
  the later (`KW:48`) replaces the key under which the earlier has sealed its
  value, which then never opens again (`secret_corrupt`). `KW:166` says such a race
  loses "one INDEX entry — never a value", and its account of two first writes
  (`KW:173`) ends with the index. `ValuesOpen` with `~raced` dropped is violated by
  TLC in two calls; as it stands it says that nothing else loses a value.
- A delete or a listing that reads the absent index before a first write seeds
  it, and the key after it is put, throws `index_missing` in a workspace that
  was never without one (`KW:155`). A set does not (`SetIsWelcome`): it reads the
  key first.
- A caller still loading the stored OAuth tokens while another refreshes them
  posts the rotated refresh token again once the latch is cleared
  (`src/providers/openai-oauth/auth.ts:45`), against "never POST the same
  rotating refresh token twice" (line 55).

## 6. Not modelled

`PROJECT.json` lists every component with its status, and every hazard with the
property that covers it. What is left out, and why:

- **Concurrent nonce probes** (`TS:2861`): two probes that both find the file
  absent restore it twice with different values. `BackgroundWork` probes in one
  step; a model of its own would need the exec session of the backend.
- **Awaits of a teardown before it cancels the alarm** (`TS:3221`) and of an
  **arm** (`compute-tools.ts:629`, cancel, schedule, store: two arms may leave an
  orphaned schedule): one step each in `BackgroundWork`.
- **A row pruned while its watcher survives** (`work-ledger-store.ts:506`):
  retention is days, a watch hours; the constants allow it and the properties
  that hold under any constants were proved with it, so nothing is claimed of
  the ratio.
- **Subagents** (`AG:2705`): rows of kind subagent close through the lifecycle of
  the SDK's runs, which is not in the repository.
- **Thread knowledge**: a projection of the transcript behind a cursor. Its
  events come from the SDK's message store.
- **Generation blip** (`compute/generation.ts:98`): one unreadable probe is kept
  apart from an absent one in `BackgroundWork`; consecutive ones are not counted.
- **Notifications and push, user hub, presence**: fan-out over sockets; their
  call into the run lifecycle is in `AutomataFiring`.
- **OAuth refresh by concurrent turns**: what a replayed refresh token does is the
  provider's.
- **Rewrapping of secrets, encryption, the reader's key cache**: a migration run
  by hand, and a library.
- **Invites, MCP policy, thread creation and
  archive**: short protocols over one D1 row each, candidates for small modules.
- **Pure algorithms** (compaction, context budget, output slicing): arithmetic
  around calls of the SDK, tested by examples in the repository.
- **Files, settings, HTTP routes, other D1 repositories, voice, web client,
  GitHub, storage, observability**: I/O or single statements, with no protocol
  of their own.
- **Other backends** (Daytona, Sprites, mock): they drive SDKs; the models follow
  Cloudflare's, whose silent empty container is the hardest case.

What would come next: a module for the projection of thread knowledge, and
one for the awaits of a nonce probe and of an arm. The number of runs is kept
small, one for each question.
