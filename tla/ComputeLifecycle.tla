--------------------------- MODULE ComputeLifecycle ---------------------------
(***************************************************************************)
(* The environment of one thread (ThreadComputeService over the Cloudflare *)
(* backend): acquired or restored for a call, released when idle, given    *)
(* up for another thread, shut down on request, expired with its backup -  *)
(* and what becomes of the work in /workspace meanwhile.                   *)
(*                                                                         *)
(* The status lives in the store of the Durable Object, the files in the   *)
(* container of the provider.  Every await on the provider, on D1 or on    *)
(* the object's storage ends a step, and between two steps any other call, *)
(* alarm or request of the thread may run: the object does not serialize   *)
(* them.  A turn resolves one service instance for all its tool calls; a   *)
(* route, an alarm and a probe each resolve their own, and the latch that  *)
(* joins acquisitions belongs to the instance.                             *)
(*                                                                         *)
(* A piece of work is a number; what the user pushed is saved elsewhere.   *)
(* One sandbox id stands for the thread: whoever uses it without a         *)
(* container is handed an empty one.                                       *)
(***************************************************************************)
EXTENDS Naturals

CONSTANTS
    Callers,      \* tool calls and routes that may run at once
    Instances,    \* service instances they may hold
    NoFiles,      \* no container, or no backup
    MaxWork,      \* bound: pieces of work
    MaxFailures,  \* bound: calls of the provider or of D1 that fail
    MaxLosses     \* bound: crashes of the object and containers lost

ASSUME LifecycleConstants ==
    /\ {"tick", "confirm"} \cap (Callers \cup Instances) = {}
    /\ {"reclaim", "shutdown"} \cap Instances = {}
    /\ {MaxWork, MaxFailures, MaxLosses} \subseteq Nat
    /\ \A S \in SUBSET (1..MaxWork) : S # NoFiles

VARIABLES
    store,      \* compute_state: status, recoveryRef, recovery window over?
    declared,   \* the clean bit of confirm_work_saved
    box,        \* the files of the container
    acq,        \* the acquisition in flight of each service instance
    user,       \* who needs a runtime: calls, and the probes of tick and confirm
    task,       \* who takes the container away: tick, reclaim, shutdown
    made, saved, forgone,   \* work: done so far; pushed; given up openly
    faults,     \* failures and losses so far
    disturbed   \* two of them overlapped in a way the code does not exclude

vars == <<store, declared, box, acq, user, task, made, saved, forgone, faults, disturbed>>

Users == Callers \cup {"tick", "confirm"}
Holders == Instances \cup {"tick", "confirm"}
Tasks == {"tick", "reclaim", "shutdown"}
Works == 1..MaxWork
Files == {NoFiles} \cup SUBSET Works

Status == {"absent", "acquiring", "active", "releasing", "recoverable", "error"}
AcqPc == {"none", "expire", "read", "create", "created", "nonce", "failed"}
UserPc == {"idle", "need", "wait", "run", "declare"}
TaskPc == {"idle", "resolve", "check", "declared", "probe", "expire",
           "backup", "destroy", "record", "tail"}

NoAcq == [pc |-> "none", recovery |-> NoFiles]
NoTask == [pc |-> "idle", discard |-> FALSE, files |-> NoFiles]

TypeOK ==
    /\ store \in [status : Status, recovery : Files, expired : BOOLEAN]
    /\ declared \in BOOLEAN
    /\ box \in Files
    /\ acq \in [Holders -> [pc : AcqPc, recovery : Files]]
    /\ user \in [Users -> [pc : UserPc, inst : Holders]]
    /\ task \in [Tasks -> [pc : TaskPc, discard : BOOLEAN, files : Files]]
    /\ made \in 0..MaxWork
    /\ saved \subseteq Works /\ forgone \subseteq Works
    /\ faults \in [failures : 0..MaxFailures, losses : 0..MaxLosses]
    /\ disturbed \in BOOLEAN

Init ==
    /\ store = [status |-> "absent", recovery |-> NoFiles, expired |-> FALSE]
    /\ declared = FALSE
    /\ box = NoFiles
    /\ acq = [h \in Holders |-> NoAcq]
    /\ user \in [Users -> [pc : {"idle"}, inst : Holders]]
    /\ \A u \in Users : u \in Holders => user[u].inst = u
    /\ \A u, v \in Callers : user[u].inst = user[v].inst /\ user[u].inst \in Instances
    /\ task = [k \in Tasks |-> NoTask]
    /\ made = 0 /\ saved = {} /\ forgone = {}
    /\ faults = [failures |-> 0, losses |-> 0]
    /\ disturbed = FALSE

-------------------------------------------------------------------------------
(* The store.                                                              *)

MarkAcquiring == [store EXCEPT !.status = "acquiring"]
MarkActive == [status |-> "active", recovery |-> NoFiles, expired |-> FALSE]
MarkReleasing == [store EXCEPT !.status = "releasing"]
MarkRecoverable(backup) == [status |-> "recoverable", recovery |-> backup, expired |-> FALSE]
MarkAbsent == [status |-> "absent", recovery |-> NoFiles, expired |-> FALSE]
MarkError == [store EXCEPT !.status = "error"]

Expired == store.status = "recoverable" /\ store.expired

\* The provider: an id without a container is given an empty one.
Present(files) == IF files = NoFiles THEN {} ELSE files

\* A call of the provider or of D1 fails.
Fails ==
    /\ faults.failures < MaxFailures
    /\ faults' = [faults EXCEPT !.failures = @ + 1]

-------------------------------------------------------------------------------
(* Acquisition: boundedAcquisition and readOrAcquireRuntime.               *)

Waiters(h) == {u \in Users : user[u].pc = "wait" /\ user[u].inst = h}

\* The end of an acquisition, for all who wait for it.
Resolve(h, pc) ==
    /\ acq' = [acq EXCEPT ![h] = NoAcq]
    /\ user' = [u \in Users |-> IF u \in Waiters(h) THEN [user[u] EXCEPT !.pc = pc] ELSE user[u]]

\* Restore what is recoverable, acquire afresh otherwise.
Provision(h) ==
    IF store.status = "recoverable"
    THEN /\ acq' = [acq EXCEPT ![h] = [pc |-> "create", recovery |-> store.recovery]]
         /\ UNCHANGED store
    ELSE /\ acq' = [acq EXCEPT ![h] = [pc |-> "create", recovery |-> NoFiles]]
         /\ store' = MarkAcquiring

\* ensureRuntime: join the acquisition of the instance, use what is active, or begin.
Ensure(u) ==
    LET h == user[u].inst
    IN  /\ user[u].pc = "need"
        /\ \/ /\ acq[h].pc # "none"
              /\ user' = [user EXCEPT ![u].pc = "wait"]
              /\ UNCHANGED <<store, acq>>
           \/ /\ acq[h].pc = "none" /\ store.status = "active"
              /\ user' = [user EXCEPT ![u].pc = "run"]
              /\ UNCHANGED <<store, acq>>
           \/ /\ acq[h].pc = "none" /\ Expired
              /\ acq' = [acq EXCEPT ![h] = [pc |-> "expire", recovery |-> store.recovery]]
              /\ user' = [user EXCEPT ![u].pc = "wait"]
              /\ UNCHANGED store
           \/ /\ acq[h].pc = "none" /\ store.status # "active" /\ ~Expired
              /\ Provision(h)
              /\ user' = [user EXCEPT ![u].pc = "wait"]
        /\ UNCHANGED <<declared, box, task, made, saved, forgone, faults>>

\* cleanupExpiredRecovery on the way in: the backup is given up.
AcqExpire(h) ==
    /\ acq[h].pc = "expire"
    /\ store' = MarkAbsent
    /\ declared' = FALSE
    /\ forgone' = forgone \cup Present(acq[h].recovery)
    /\ acq' = [acq EXCEPT ![h] = [NoAcq EXCEPT !.pc = "read"]]
    /\ UNCHANGED <<box, user, task, made, saved, faults>>

AcqRead(h) ==
    /\ acq[h].pc = "read"
    /\ \/ /\ store.status = "active"
          /\ Resolve(h, "run")
          /\ UNCHANGED store
       \/ /\ store.status # "active"
          /\ Provision(h)
          /\ UNCHANGED user
    /\ UNCHANGED <<declared, box, task, made, saved, forgone, faults>>

\* backend.acquire, at the provider: the backup replaces the files, or the
\* container of the id is used as it is.
AcqCreates(h) ==
    /\ acq[h].pc = "create"
    /\ box' = IF acq[h].recovery # NoFiles THEN acq[h].recovery ELSE Present(box)
    /\ acq' = [acq EXCEPT ![h].pc = "created"]
    /\ UNCHANGED <<store, declared, user, task, made, saved, forgone, faults>>

\* Not admitted, or the provider fails: the backup stays where it is.
AcqCreateFails(h) ==
    /\ acq[h].pc \in {"create", "created"}
    /\ Fails
    /\ acq' = [acq EXCEPT ![h].pc = "failed"]
    /\ UNCHANGED <<store, declared, box, user, task, made, saved, forgone>>

AcqMarks(h) ==
    /\ acq[h].pc = "created"
    /\ store' = MarkActive
    /\ acq' = [acq EXCEPT ![h].pc = "nonce"]
    /\ UNCHANGED <<declared, box, user, task, made, saved, forgone, faults>>

\* writeGeneration and refreshRelease, and the runtime is handed out.
AcqDone(h) ==
    /\ acq[h].pc = "nonce"
    /\ Resolve(h, "run")
    /\ UNCHANGED <<store, declared, box, task, made, saved, forgone, faults>>

AcqNonceFails(h) ==
    /\ acq[h].pc = "nonce"
    /\ Fails
    /\ acq' = [acq EXCEPT ![h].pc = "failed"]
    /\ UNCHANGED <<store, declared, box, user, task, made, saved, forgone>>

\* Variant: the callers are left with a failure nobody handles.
AcqFailedUnhandled(h) ==
    /\ acq[h].pc = "failed"
    /\ store' = IF acq[h].recovery = NoFiles THEN MarkError ELSE store
    /\ Resolve(h, "failed")
    /\ UNCHANGED <<declared, box, task, made, saved, forgone, faults>>

\* The catch, after the slot was freed: a fresh acquisition ends in error, a
\* restore leaves the status it finds.
AcqFailed(h) ==
    /\ acq[h].pc = "failed"
    /\ store' = IF acq[h].recovery = NoFiles THEN MarkError ELSE store
    /\ Resolve(h, "idle")
    /\ UNCHANGED <<declared, box, task, made, saved, forgone, faults>>

\* ACQUIRE_DEADLINE_MS: the caller gives up, the acquisition goes on.
GiveUp(u) ==
    /\ user[u].pc = "wait"
    /\ user' = [user EXCEPT ![u].pc = "idle"]
    /\ UNCHANGED <<store, declared, box, acq, task, made, saved, forgone, faults>>

-------------------------------------------------------------------------------
(* Calls.                                                                  *)

\* Variant: a command does not invalidate the clean bit.
CallStartKeepingBit(c) ==
    /\ user[c].pc = "idle"
    /\ \E i \in Instances : user' = [user EXCEPT ![c] = [pc |-> "need", inst |-> i]]
    /\ UNCHANGED <<store, declared, box, acq, task, made, saved, forgone, faults>>

\* A turn has calls of one instance; a new turn, or a route, has a new one.
CallStart(c) ==
    /\ user[c].pc = "idle"
    /\ \E i \in Instances : user' = [user EXCEPT ![c] = [pc |-> "need", inst |-> i]]
    /\ declared' = FALSE
    /\ UNCHANGED <<store, box, acq, task, made, saved, forgone, faults>>

\* The command runs on the runtime its call was handed, and leaves work behind.
RunEdit(c) ==
    /\ user[c].pc = "run"
    /\ made < MaxWork
    /\ made' = made + 1
    /\ box' = Present(box) \cup {made + 1}
    /\ user' = [user EXCEPT ![c].pc = "idle"]
    /\ UNCHANGED <<store, declared, acq, task, saved, forgone, faults>>

\* Or it commits and pushes what is there.
RunPush(c) ==
    /\ user[c].pc = "run"
    /\ saved' = saved \cup Present(box)
    /\ box' = Present(box)
    /\ user' = [user EXCEPT ![c].pc = "idle"]
    /\ UNCHANGED <<store, declared, acq, task, made, forgone, faults>>

\* The provider says there is no such sandbox: markRuntimeMissing, and again.
RunMissing(c) ==
    /\ user[c].pc = "run"
    /\ box = NoFiles
    /\ store' = MarkAbsent
    /\ declared' = FALSE
    /\ user' = [user EXCEPT ![c].pc = "need"]
    /\ UNCHANGED <<box, acq, task, made, saved, forgone, faults>>

\* confirm_work_saved: its probe is a command, and sets the bit only if git agrees.
ConfirmStart ==
    /\ user["confirm"].pc = "idle"
    /\ user' = [user EXCEPT !["confirm"].pc = "need"]
    /\ declared' = FALSE
    /\ UNCHANGED <<store, box, acq, task, made, saved, forgone, faults>>

Clean(files) == Present(files) \subseteq saved

ConfirmProbe ==
    /\ user["confirm"].pc = "run"
    /\ user' = [user EXCEPT !["confirm"].pc = IF Clean(box) THEN "declare" ELSE "idle"]
    /\ box' = Present(box)
    /\ UNCHANGED <<store, declared, acq, task, made, saved, forgone, faults>>

ConfirmDeclare ==
    /\ user["confirm"].pc = "declare"
    /\ declared' = TRUE
    /\ user' = [user EXCEPT !["confirm"].pc = "idle"]
    /\ UNCHANGED <<store, box, acq, task, made, saved, forgone, faults>>

-------------------------------------------------------------------------------
(* The container is taken away.                                            *)

\* markReleasing, in the step that decides: the backup first, unless discarded.
BeginRelease(k, discard) ==
    /\ store' = MarkReleasing
    /\ task' = [task EXCEPT ![k] = [pc |-> IF discard THEN "destroy" ELSE "backup",
                                    discard |-> discard, files |-> NoFiles]]

\* runComputeTick: an expired backup goes, an active environment is looked at.
TickStart ==
    /\ task["tick"].pc = "idle"
    /\ \/ /\ Expired
          /\ task' = [task EXCEPT !["tick"] = [NoTask EXCEPT !.pc = "expire",
                                                             !.files = store.recovery]]
       \/ /\ store.status = "active"
          /\ task' = [task EXCEPT !["tick"] = [NoTask EXCEPT !.pc = "declared"]]
    /\ UNCHANGED <<store, declared, box, acq, user, made, saved, forgone, faults>>

\* resolveIdleDisposition: a declared-clean environment is discarded, any other
\* is probed, which runs a command of its own.
TickDeclared ==
    /\ task["tick"].pc = "declared"
    /\ \/ /\ declared
          /\ BeginRelease("tick", TRUE)
          /\ UNCHANGED <<declared, user>>
       \/ /\ ~declared
          /\ task' = [task EXCEPT !["tick"].pc = "probe"]
          /\ user' = [user EXCEPT !["tick"].pc = "need"]
          /\ UNCHANGED <<store, declared>>
    /\ UNCHANGED <<box, acq, made, saved, forgone, faults>>

\* Git proves it clean, or not; no answer preserves.
TickProbed ==
    /\ task["tick"].pc = "probe"
    /\ \/ /\ user["tick"].pc = "run"
          /\ BeginRelease("tick", Clean(box))
          /\ box' = Present(box)
       \/ /\ user["tick"].pc = "idle"
          /\ BeginRelease("tick", FALSE)
          /\ UNCHANGED box
    /\ user' = [user EXCEPT !["tick"].pc = "idle"]
    /\ UNCHANGED <<declared, acq, made, saved, forgone, faults>>

\* Another thread wants the slot: never under a turn, as far as this step sees.
ReclaimStart ==
    /\ task["reclaim"].pc = "idle"
    /\ \A u \in Users \ {"tick"} : user[u].pc = "idle"
    /\ task' = [task EXCEPT !["reclaim"].pc = "resolve"]
    /\ UNCHANGED <<store, declared, box, acq, user, made, saved, forgone, faults>>

ReclaimCheck ==
    /\ task["reclaim"].pc = "resolve"
    /\ task' = [task EXCEPT !["reclaim"] =
                   IF store.status = "active" THEN [NoTask EXCEPT !.pc = "check"] ELSE NoTask]
    /\ UNCHANGED <<store, declared, box, acq, user, made, saved, forgone, faults>>

ReclaimBegins ==
    /\ task["reclaim"].pc = "check"
    /\ BeginRelease("reclaim", FALSE)
    /\ UNCHANGED <<declared, box, acq, user, made, saved, forgone, faults>>

\* backend.release: createBackup, and only then destroy.
Backup(k) ==
    /\ task[k].pc = "backup"
    /\ task' = [task EXCEPT ![k].pc = "destroy", ![k].files = Present(box)]
    /\ box' = Present(box)
    /\ UNCHANGED <<store, declared, acq, user, made, saved, forgone, faults>>

Destroy(k) ==
    /\ task[k].pc = "destroy" /\ k # "shutdown"
    /\ box' = NoFiles
    /\ task' = [task EXCEPT ![k].pc = "record"]
    /\ UNCHANGED <<store, declared, acq, user, made, saved, forgone, faults>>

\* The backup or the destroy fails: the container is presumed alive.
ReleaseFails(k) ==
    /\ task[k].pc \in {"backup", "destroy"} /\ k # "shutdown"
    /\ Fails
    /\ store' = MarkActive
    /\ task' = [task EXCEPT ![k] = NoTask]
    /\ UNCHANGED <<declared, box, acq, user, made, saved, forgone>>

\* What a finished release leaves in the store.
Settled(k) == IF task[k].discard THEN MarkAbsent ELSE MarkRecoverable(task[k].files)

Record(k) ==
    /\ task[k].pc = "record" /\ k # "shutdown"
    /\ store' = Settled(k)
    /\ task' = [task EXCEPT ![k].pc = "tail"]
    /\ UNCHANGED <<declared, box, acq, user, made, saved, forgone, faults>>

\* The slot, the clean bit, the alarm and the reminder.
TailDone(k) ==
    /\ task[k].pc = "tail"
    /\ declared' = (declared /\ ~task[k].discard)
    /\ task' = [task EXCEPT ![k] = NoTask]
    /\ UNCHANGED <<store, box, acq, user, made, saved, forgone, faults>>

\* Variant: whatever fails rolls back to active.
TailRollsBack(k) ==
    /\ task[k].pc = "tail"
    /\ Fails
    /\ store' = MarkActive
    /\ task' = [task EXCEPT ![k] = NoTask]
    /\ UNCHANGED <<declared, box, acq, user, made, saved, forgone>>

\* One of them fails: settleDestroyedRuntime.
TailFails(k) ==
    /\ task[k].pc = "tail"
    /\ Fails
    /\ store' = Settled(k)
    /\ task' = [task EXCEPT ![k] = NoTask]
    /\ UNCHANGED <<declared, box, acq, user, made, saved, forgone>>

\* execShutdown, a tool of the turn: what it refers to is given up on request.
ShutdownStart ==
    /\ task["shutdown"].pc = "idle"
    /\ \/ /\ Expired
          /\ task' = [task EXCEPT !["shutdown"] = [NoTask EXCEPT !.pc = "expire",
                                                                 !.files = store.recovery]]
       \/ /\ store.status = "active"
          /\ task' = [task EXCEPT !["shutdown"] = [NoTask EXCEPT !.pc = "destroy"]]
       \/ /\ store.status # "active" /\ ~Expired /\ store.recovery # NoFiles
          /\ task' = [task EXCEPT !["shutdown"] = [NoTask EXCEPT !.pc = "record",
                                                                 !.files = store.recovery]]
    /\ UNCHANGED <<store, declared, box, acq, user, made, saved, forgone, faults>>

ShutdownDestroys ==
    /\ task["shutdown"].pc = "destroy"
    /\ box' = NoFiles
    /\ forgone' = forgone \cup Present(box)
    /\ task' = [task EXCEPT !["shutdown"].pc = "record"]
    /\ UNCHANGED <<store, declared, acq, user, made, saved, faults>>

\* Cloudflare has no destroy for a backup: the reference is dropped.  A clean-up
\* of an expired backup, by the tick or on the way into a shutdown, is the same.
GivenUp(k) ==
    /\ \/ k = "shutdown" /\ task[k].pc = "record"
       \/ task[k].pc = "expire"
    /\ store' = MarkAbsent
    /\ declared' = FALSE
    /\ forgone' = forgone \cup Present(task[k].files)
    /\ task' = [task EXCEPT ![k] = NoTask]
    /\ UNCHANGED <<box, acq, user, made, saved, faults>>

-------------------------------------------------------------------------------
(* The environment.                                                        *)

\* recoveryExpiresAt passes.
WindowEnds ==
    /\ store.status = "recoverable" /\ ~store.expired
    /\ store' = [store EXCEPT !.expired = TRUE]
    /\ UNCHANGED <<declared, box, acq, user, task, made, saved, forgone, faults>>

\* The provider loses the container: its work is gone for good.
Lose ==
    /\ faults.losses < MaxLosses
    /\ box # NoFiles
    /\ box' = NoFiles
    /\ forgone' = forgone \cup box
    /\ faults' = [faults EXCEPT !.losses = @ + 1]
    /\ UNCHANGED <<store, declared, acq, user, task, made, saved>>

\* The Durable Object restarts: only what is stored survives.
Crash ==
    /\ faults.losses < MaxLosses
    /\ faults' = [faults EXCEPT !.losses = @ + 1]
    /\ acq' = [h \in Holders |-> NoAcq]
    /\ user' = [u \in Users |-> [user[u] EXCEPT !.pc = "idle"]]
    /\ task' = [k \in Tasks |-> NoTask]
    /\ UNCHANGED <<store, declared, box, made, saved, forgone>>

-------------------------------------------------------------------------------
\* Nothing excludes these, and each can lose work: a container taken away while
\* something else is under way, two acquisitions at once, a declaration while
\* a command runs.
Busy == {u \in Users : user[u].pc # "idle"}
Acquiring == {h \in Holders : acq[h].pc # "none"}
Taking == {k \in Tasks : task[k].pc \notin {"idle", "resolve"}}

Several(S) == \E x, y \in S : x # y

Overlap ==
    \/ Several(Taking)
    \/ Taking # {} /\ Busy \ {"tick"} # {}
    \/ \E k \in Taking, h \in Acquiring : h # k
    \/ Several(Acquiring)
    \/ "confirm" \in Busy /\ Busy # {"confirm"}

\* Or the object restarts when the container is gone and its backup not yet noted.
Torn == \E k \in Tasks \ {"shutdown"} : task[k].pc = "record" /\ task'[k].pc = "idle"

Step ==
    \/ \E u \in Users : Ensure(u) \/ GiveUp(u)
    \/ \E h \in Holders :
          \/ AcqExpire(h) \/ AcqRead(h) \/ AcqCreates(h) \/ AcqCreateFails(h)
          \/ AcqMarks(h) \/ AcqDone(h) \/ AcqNonceFails(h) \/ AcqFailed(h)
    \/ \E c \in Callers : CallStart(c) \/ RunEdit(c) \/ RunPush(c) \/ RunMissing(c)
    \/ ConfirmStart \/ ConfirmProbe \/ ConfirmDeclare
    \/ TickStart \/ TickDeclared \/ TickProbed
    \/ ReclaimStart \/ ReclaimCheck \/ ReclaimBegins
    \/ \E k \in Tasks :
          \/ Backup(k) \/ Destroy(k) \/ ReleaseFails(k) \/ Record(k)
          \/ TailDone(k) \/ TailFails(k) \/ GivenUp(k)
    \/ ShutdownStart \/ ShutdownDestroys
    \/ WindowEnds \/ Lose \/ Crash

Next == Step /\ disturbed' = (disturbed \/ Overlap' \/ Torn)

Spec == Init /\ [][Next]_vars

-------------------------------------------------------------------------------
(* The properties.                                                         *)

\* Where the thread will find its work again: in the backup it restores, or in
\* the container its sandbox id stands for, or in the release under way.
Reach ==
    IF store.status = "recoverable" THEN store.recovery
    ELSE Present(box) \cup UNION {Present(task[k].files) : k \in Tasks}

\* Work is never lost in silence: what was not pushed, and was not given up by a
\* shutdown, an expiry or the provider, is where the next call finds it -
\* whichever step of an acquisition, a release or a shutdown fails, a deadline
\* passes, or the object restarts (releaseIfIdle, settleDestroyedRuntime,
\* readOrAcquireRuntime: the rollbacks and what they may still assume).
WorkSurvives == ~disturbed => (1..made) \ (saved \cup forgone) \subseteq Reach

\* "A set bit means the state was checked", and nothing was written since: it
\* survives restarts, releases and restores only with the files it speaks of.
BitIsHonest == ~disturbed /\ declared => Clean(box)
===============================================================================
