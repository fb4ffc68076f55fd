------------------------ MODULE ComputeLifecycleProofs ------------------------
(***************************************************************************)
(* Up to the first overlap that the code does not exclude, no failure, no  *)
(* deadline and no restart loses work, and the clean bit is honest: for    *)
(* any callers, service instances, pieces of work and numbers of faults.   *)
(***************************************************************************)
EXTENDS ComputeLifecycle, TLAPS

-------------------------------------------------------------------------------
(* The inductive invariant: what holds as long as nothing has overlapped.  *)

Unsaved == (1..made) \ (saved \cup forgone)

\* The tick's probe finds the environment active: it never acquires.
TickInv ==
    /\ user["tick"].inst = "tick" /\ acq["tick"].pc = "none"
    /\ \A u \in Users \ {"tick"} : user[u].inst # "tick"
    /\ user["tick"].pc \in {"idle", "need", "run"}
    /\ user["tick"].pc # "idle" => task["tick"].pc = "probe"

\* There is a backup exactly while the environment is recoverable, and then no
\* call is on a runtime.
StoreInv ==
    /\ store.recovery # NoFiles <=> store.status = "recoverable"
    /\ store.status = "recoverable" => \A u \in Users : user[u].pc \notin {"run", "declare"}

\* What an acquisition may rely on at its awaits.
AcqInv(h) ==
    /\ acq[h].pc = "expire" => store.status = "recoverable"
    /\ acq[h].pc \in {"expire", "create", "created"} => acq[h].recovery = store.recovery
    /\ acq[h].pc = "nonce" => store.status # "recoverable"
    /\ acq[h].pc = "failed" /\ acq[h].recovery = NoFiles => store.status # "recoverable"
    /\ acq[h].pc = "created" => Unsaved \subseteq Present(box)

\* What a task may rely on at its awaits.
TaskInv(k) ==
    /\ k = "shutdown" => task[k].pc \in {"idle", "expire", "destroy", "record"}
    /\ task[k].pc \in {"idle", "resolve"} => task[k].files = NoFiles
    /\ task[k].pc \in {"declared", "probe", "check"} => store.status = "active"
    /\ task[k].pc = "destroy" /\ k = "shutdown" =>
         store.status = "active" /\ task[k].files = NoFiles
    /\ task[k].pc \in {"backup", "destroy", "record"} /\ k # "shutdown" => store.status = "releasing"
    /\ task[k].pc = "backup" => ~task[k].discard
    /\ task[k].pc = "expire" => store.status = "recoverable"
    /\ \/ task[k].pc \in {"expire", "tail"}
       \/ task[k].pc = "record" /\ k = "shutdown"
       => task[k].files = store.recovery
    /\ task[k].pc \in {"destroy", "record"} /\ k # "shutdown" => Unsaved \subseteq Present(task[k].files)
    /\ task[k].pc \in {"destroy", "record", "tail"} /\ k # "shutdown" =>
         (task[k].discard <=> task[k].files = NoFiles)

\* Where the work is, with the object alive or not.
HomeInv ==
    /\ store.status = "recoverable" => Unsaved \subseteq store.recovery
    /\ \/ store.status = "recoverable"
       \/ \E k \in Tasks \ {"shutdown"} : task[k].pc = "record"
       \/ Unsaved \subseteq Present(box)

\* What the clean bit, or a declaration about to set it, speaks of.
BitInv ==
    /\ declared =>
         /\ \A c \in Callers : user[c].pc = "idle"
         /\ Clean(box) /\ Clean(store.recovery)
         /\ \A k \in Tasks : Clean(task[k].files)
    /\ user["confirm"].pc = "declare" => Clean(box)

CalmInv ==
    /\ ~Overlap
    /\ TickInv /\ StoreInv
    /\ \A h \in Holders : AcqInv(h)
    /\ \A k \in Tasks : TaskInv(k)
    /\ HomeInv /\ BitInv

IInv == TypeOK /\ (~disturbed => CalmInv)
-------------------------------------------------------------------------------
(* Types.                                                                  *)

LEMMA FilesFacts ==
    /\ NoFiles \in Files /\ NoFiles \notin SUBSET Works
    /\ Present(NoFiles) = {}
    /\ \A f \in Files : Present(f) \in SUBSET Works /\ Present(f) \in Files
    /\ \A S \in SUBSET Works : S \in Files /\ S # NoFiles /\ Present(S) = S
  BY LifecycleConstants DEF Files, Works, Present

LEMMA StoreType ==
    ASSUME TypeOK
    PROVE  LET Store == [status : Status, recovery : Files, expired : BOOLEAN]
           IN  /\ MarkAcquiring \in Store /\ MarkActive \in Store /\ MarkReleasing \in Store
               /\ MarkAbsent \in Store /\ MarkError \in Store
               /\ \A f \in Files : MarkRecoverable(f) \in Store
               /\ [store EXCEPT !.expired = TRUE] \in Store
  BY FilesFacts DEF TypeOK, Status, MarkAcquiring, MarkActive, MarkReleasing, MarkAbsent,
                    MarkError, MarkRecoverable

LEMMA FailsType ==
    ASSUME TypeOK, Fails
    PROVE  faults' \in [failures : 0..MaxFailures, losses : 0..MaxLosses]
  BY LifecycleConstants DEF TypeOK, Fails

LEMMA LossType ==
    ASSUME TypeOK, faults.losses < MaxLosses, faults' = [faults EXCEPT !.losses = @ + 1]
    PROVE  faults' \in [failures : 0..MaxFailures, losses : 0..MaxLosses]
  BY LifecycleConstants DEF TypeOK

Task == [pc : TaskPc, discard : BOOLEAN, files : Files]
Call == [pc : UserPc, inst : Holders]

\* A step updates the record of one call or of one task.
LEMMA UserGoes ==
    ASSUME TypeOK, NEW u \in Users, NEW pc \in UserPc,
           \/ user' = [user EXCEPT ![u].pc = pc]
           \/ \E h \in Holders : user' = [user EXCEPT ![u] = [pc |-> pc, inst |-> h]]
    PROVE  user' \in [Users -> Call]
  <1>1. CASE user' = [user EXCEPT ![u].pc = pc] BY <1>1 DEF TypeOK, Call
  <1>2. CASE \E h \in Holders : user' = [user EXCEPT ![u] = [pc |-> pc, inst |-> h]]
    BY <1>2 DEF TypeOK, Call
  <1> QED BY <1>1, <1>2

LEMMA TaskGoes ==
    ASSUME TypeOK, NEW k \in Tasks, NEW t \in Task, task' = [task EXCEPT ![k] = t]
    PROVE  task' \in [Tasks -> Task]
  BY DEF TypeOK, Task

LEMMA TaskFields ==
    ASSUME TypeOK, NEW k \in Tasks, NEW pc \in TaskPc, NEW f \in Files
    PROVE  /\ NoTask \in Task /\ [NoTask EXCEPT !.pc = pc] \in Task
           /\ [NoTask EXCEPT !.pc = pc, !.files = f] \in Task
           /\ [task[k] EXCEPT !.pc = pc] \in Task
           /\ [task[k] EXCEPT !.pc = pc, !.files = f] \in Task
  <1>1. NoTask \in Task BY FilesFacts DEF NoTask, Task, TaskPc
  <1>2. task[k] \in Task BY DEF TypeOK, Task
  <1> QED BY <1>1, <1>2 DEF Task

LEMMA NoTaskFacts ==
    /\ NoTask \in Task
    /\ NoTask.pc = "idle" /\ NoTask.discard = FALSE /\ NoTask.files = NoFiles
  BY FilesFacts DEF NoTask, TaskPc, Task

\* A step that moves a task to its next await.
LEMMA TaskAdvances ==
    ASSUME TypeOK, NEW k \in Tasks, NEW pc \in TaskPc, task' = [task EXCEPT ![k].pc = pc]
    PROVE  \E t \in Task : /\ task' = [task EXCEPT ![k] = t]
                           /\ t.pc = pc /\ t.files = task[k].files /\ t.discard = task[k].discard
  <1> DEFINE t == [task[k] EXCEPT !.pc = pc]
  <1>1. task[k] \in Task BY DEF TypeOK, Task
  <1>2. t \in Task /\ t.pc = pc /\ t.files = task[k].files /\ t.discard = task[k].discard
    BY <1>1 DEF Task
  <1>3. task' = [task EXCEPT ![k] = t] OBVIOUS
  <1> HIDE DEF t
  <1> QED BY <1>2, <1>3

LEMMA ReleaseType ==
    ASSUME TypeOK, NEW k \in Tasks, NEW discard \in BOOLEAN, BeginRelease(k, discard)
    PROVE  /\ store' \in [status : Status, recovery : Files, expired : BOOLEAN]
           /\ task' \in [Tasks -> Task]
  BY StoreType, FilesFacts DEF BeginRelease, TypeOK, TaskPc, Task

LEMMA ResolveType ==
    ASSUME TypeOK, NEW h \in Holders, NEW pc \in UserPc, Resolve(h, pc)
    PROVE  /\ acq' \in [Holders -> [pc : AcqPc, recovery : Files]]
           /\ user' \in [Users -> Call]
  BY FilesFacts DEF Resolve, TypeOK, NoAcq, AcqPc, Call

LEMMA ProvisionType ==
    ASSUME TypeOK, NEW h \in Holders, Provision(h)
    PROVE  /\ acq' \in [Holders -> [pc : AcqPc, recovery : Files]]
           /\ store' \in [status : Status, recovery : Files, expired : BOOLEAN]
  <1>1. store.recovery \in Files /\ NoFiles \in Files BY FilesFacts DEF TypeOK
  <1>2. "create" \in AcqPc BY DEF AcqPc
  <1> QED BY <1>1, <1>2, StoreType DEF Provision, TypeOK

LEMMA EnsureType ==
    ASSUME TypeOK, NEW u \in Users, Ensure(u), disturbed' \in BOOLEAN
    PROVE  TypeOK'
  BY StoreType, FilesFacts DEF TypeOK, Ensure, Provision, AcqPc, UserPc, Holders, Users

LEMMA AcquisitionType ==
    ASSUME TypeOK, NEW h \in Holders, disturbed' \in BOOLEAN,
           \/ AcqExpire(h) \/ AcqRead(h) \/ AcqCreates(h) \/ AcqCreateFails(h)
           \/ AcqMarks(h) \/ AcqDone(h) \/ AcqNonceFails(h) \/ AcqFailed(h)
    PROVE  TypeOK'
  <1>0. NoAcq \in [pc : AcqPc, recovery : Files] /\ acq[h] \in [pc : AcqPc, recovery : Files]
    BY FilesFacts DEF NoAcq, AcqPc, TypeOK
  <1>1. CASE AcqExpire(h)
    BY <1>0, <1>1, StoreType, FilesFacts DEF TypeOK, AcqExpire, NoAcq, AcqPc, Files
  <1>2. CASE AcqRead(h)
    <2>1. CASE store.status = "active" /\ Resolve(h, "run") /\ UNCHANGED store
      BY <1>2, <2>1, ResolveType DEF TypeOK, AcqRead, UserPc, Call
    <2>2. CASE Provision(h) /\ UNCHANGED user
      BY <1>2, <2>2, ProvisionType DEF TypeOK, AcqRead
    <2> QED BY <1>2, <2>1, <2>2 DEF AcqRead
  <1>3. CASE AcqCreates(h)
    BY <1>0, <1>3, FilesFacts DEF TypeOK, AcqCreates, AcqPc
  <1>4. CASE AcqCreateFails(h)
    BY <1>0, <1>4, FailsType DEF TypeOK, AcqCreateFails, AcqPc
  <1>5. CASE AcqMarks(h)
    BY <1>0, <1>5, StoreType DEF TypeOK, AcqMarks, AcqPc
  <1>6. CASE AcqDone(h)
    BY <1>0, <1>6 DEF TypeOK, AcqDone, Resolve, UserPc
  <1>7. CASE AcqNonceFails(h)
    BY <1>0, <1>7, FailsType DEF TypeOK, AcqNonceFails, AcqPc
  <1>8. CASE AcqFailed(h)
    <2>1. Resolve(h, "idle") /\ "idle" \in UserPc BY <1>8 DEF AcqFailed, UserPc
    <2>2. /\ acq' \in [Holders -> [pc : AcqPc, recovery : Files]]
          /\ user' \in [Users -> [pc : UserPc, inst : Holders]]
      BY <2>1, ResolveType DEF Call
    <2>3. store' \in [status : Status, recovery : Files, expired : BOOLEAN]
      BY <1>8, StoreType DEF AcqFailed, TypeOK
    <2> QED BY <1>8, <2>2, <2>3 DEF TypeOK, AcqFailed
  <1> QED BY <1>1, <1>2, <1>3, <1>4, <1>5, <1>6, <1>7, <1>8

LEMMA CallType ==
    ASSUME TypeOK, disturbed' \in BOOLEAN,
           \/ \E u \in Users : GiveUp(u)
           \/ \E c \in Callers : CallStart(c) \/ RunEdit(c) \/ RunPush(c) \/ RunMissing(c)
           \/ ConfirmStart \/ ConfirmProbe \/ ConfirmDeclare
    PROVE  TypeOK'
  <1>0. /\ Callers \subseteq Users /\ "confirm" \in Users /\ Instances \subseteq Holders
        /\ {"idle", "need", "declare"} \subseteq UserPc
    BY DEF Users, UserPc, Holders
  <1>1. CASE \E u \in Users : GiveUp(u)
    BY <1>0, <1>1, UserGoes DEF TypeOK, GiveUp, Call
  <1>2. CASE \E c \in Callers : CallStart(c)
    <2>1. PICK c \in Callers, i \in Instances : user' = [user EXCEPT ![c] = [pc |-> "need", inst |-> i]]
      BY <1>2 DEF CallStart
    <2>2. user' \in [Users -> Call] BY <1>0, <2>1, UserGoes
    <2> QED BY <1>2, <2>2 DEF TypeOK, CallStart, Call
  <1>3. CASE \E c \in Callers : RunEdit(c)
    <2>1. PICK c \in Callers : RunEdit(c) BY <1>3
    <2>2. made + 1 \in Works BY <2>1, LifecycleConstants DEF RunEdit, Works, TypeOK
    <2>3. made' \in 0..MaxWork BY <2>1, LifecycleConstants DEF RunEdit, TypeOK
    <2>4. box' \in Files BY <2>1, <2>2, FilesFacts DEF RunEdit, TypeOK
    <2>5. user' \in [Users -> Call] BY <1>0, <2>1, UserGoes DEF RunEdit
    <2> QED BY <2>1, <2>3, <2>4, <2>5 DEF TypeOK, RunEdit, Call
  <1>4. CASE \E c \in Callers : RunPush(c)
    <2>1. PICK c \in Callers : RunPush(c) BY <1>4
    <2>2. user' \in [Users -> Call] BY <1>0, <2>1, UserGoes DEF RunPush
    <2>3. box' \in Files /\ Present(box) \in SUBSET Works BY <2>1, FilesFacts DEF RunPush, TypeOK
    <2> QED BY <2>1, <2>2, <2>3 DEF TypeOK, RunPush, Call
  <1>5. CASE \E c \in Callers : RunMissing(c)
    <2>1. PICK c \in Callers : RunMissing(c) BY <1>5
    <2>2. user' \in [Users -> Call] BY <1>0, <2>1, UserGoes DEF RunMissing
    <2> QED BY <2>1, <2>2, StoreType DEF TypeOK, RunMissing, Call
  <1>6. CASE ConfirmStart \/ ConfirmProbe \/ ConfirmDeclare
    <2>1. PICK pc \in UserPc : user' = [user EXCEPT !["confirm"].pc = pc]
      BY <1>0, <1>6 DEF ConfirmStart, ConfirmProbe, ConfirmDeclare
    <2>2. user' \in [Users -> Call] BY <1>0, <2>1, UserGoes
    <2> QED BY <1>6, <2>2, FilesFacts DEF TypeOK, ConfirmStart, ConfirmProbe, ConfirmDeclare, Call
  <1> QED BY <1>1, <1>2, <1>3, <1>4, <1>5, <1>6

LEMMA SettledType ==
    ASSUME TypeOK, NEW k \in Tasks
    PROVE  Settled(k) \in [status : Status, recovery : Files, expired : BOOLEAN]
  BY StoreType DEF Settled, TypeOK

LEMMA TaskType ==
    ASSUME TypeOK, disturbed' \in BOOLEAN,
           \/ TickStart \/ TickDeclared \/ TickProbed
           \/ ReclaimStart \/ ReclaimCheck \/ ReclaimBegins
           \/ \E k \in Tasks :
                 \/ Backup(k) \/ Destroy(k) \/ ReleaseFails(k) \/ Record(k)
                 \/ TailDone(k) \/ TailFails(k) \/ GivenUp(k)
           \/ ShutdownStart \/ ShutdownDestroys
    PROVE  TypeOK'
  <1>0. NoTask \in Task BY FilesFacts DEF NoTask, TaskPc, Task
  <1>1. CASE TickStart \/ ReclaimStart \/ ReclaimCheck \/ ShutdownStart
    <2>1. store.recovery \in Files BY DEF TypeOK
    <2>2. {"tick", "reclaim", "shutdown"} \subseteq Tasks BY DEF Tasks
    <2>3. {"expire", "declared", "resolve", "check", "destroy", "record"} \subseteq TaskPc BY DEF TaskPc
    <2>4. task' \in [Tasks -> Task]
      <3>1. PICK k \in Tasks, t \in Task : task' = [task EXCEPT ![k] = t]
        <4>1. CASE TickStart BY <2>1, <2>2, <2>3, <4>1, TaskFields DEF TickStart
        <4>2. CASE ReclaimStart BY <2>1, <2>2, <2>3, <4>2, TaskFields DEF ReclaimStart
        <4>3. CASE ReclaimCheck
          <5>1. CASE task' = [task EXCEPT !["reclaim"] = [NoTask EXCEPT !.pc = "check"]]
            BY <2>1, <2>2, <2>3, <5>1, TaskFields
          <5>2. CASE task' = [task EXCEPT !["reclaim"] = NoTask]
            BY <2>1, <2>2, <2>3, <5>2, TaskFields
          <5> QED BY <4>3, <5>1, <5>2 DEF ReclaimCheck
        <4>4. CASE ShutdownStart BY <2>1, <2>2, <2>3, <4>4, TaskFields DEF ShutdownStart
        <4> QED BY <1>1, <4>1, <4>2, <4>3, <4>4
      <3> QED BY <3>1, TaskGoes
    <2> QED BY <1>1, <2>4 DEF TypeOK, Task, TickStart, ReclaimStart, ReclaimCheck, ShutdownStart
  <1>2. CASE TickDeclared \/ TickProbed \/ ReclaimBegins
    <2>1. "tick" \in Tasks /\ "reclaim" \in Tasks /\ "tick" \in Users /\ "probe" \in TaskPc
          /\ "idle" \in UserPc /\ "need" \in UserPc
      BY DEF Tasks, Users, TaskPc, UserPc
    <2>2. CASE TickDeclared
      <3>1. CASE declared /\ BeginRelease("tick", TRUE) /\ UNCHANGED <<declared, user>>
        BY <2>1, <2>2, <3>1, ReleaseType DEF TypeOK, Task, TickDeclared
      <3>2. CASE /\ task' = [task EXCEPT !["tick"].pc = "probe"]
                 /\ user' = [user EXCEPT !["tick"].pc = "need"]
                 /\ UNCHANGED <<store, declared>>
        <4>1. user' \in [Users -> Call] BY <2>1, <3>2, UserGoes
        <4>2. task' \in [Tasks -> Task] BY <2>1, <3>2 DEF TypeOK, Task
        <4> QED BY <2>2, <3>2, <4>1, <4>2 DEF TypeOK, Task, Call, TickDeclared
      <3> QED BY <2>2, <3>1, <3>2 DEF TickDeclared
    <2>3. CASE TickProbed
      <3>1. Clean(box) \in BOOLEAN BY DEF Clean
      <3>2. user' \in [Users -> Call] BY <2>1, <2>3, UserGoes DEF TickProbed
      <3>3. BeginRelease("tick", Clean(box)) \/ BeginRelease("tick", FALSE) BY <2>3 DEF TickProbed
      <3>4. box' \in Files BY <2>3, FilesFacts DEF TickProbed, TypeOK
      <3>5. /\ store' \in [status : Status, recovery : Files, expired : BOOLEAN]
            /\ task' \in [Tasks -> Task]
        BY <2>1, <3>1, <3>3, ReleaseType
      <3> QED BY <2>3, <3>2, <3>4, <3>5 DEF TypeOK, Task, Call, TickProbed
    <2>4. CASE ReclaimBegins BY <2>1, <2>4, ReleaseType DEF TypeOK, Task, Call, ReclaimBegins
    <2> QED BY <1>2, <2>2, <2>3, <2>4
  <1>3. CASE \E k \in Tasks : Backup(k) \/ Destroy(k)
    <2>1. Present(box) \in Files BY FilesFacts DEF TypeOK
    <2>2. "destroy" \in TaskPc /\ "record" \in TaskPc /\ NoFiles \in Files BY FilesFacts DEF TaskPc
    <2>3. PICK k \in Tasks : Backup(k) \/ Destroy(k) BY <1>3
    <2>4. task \in [Tasks -> Task] BY DEF TypeOK, Task
    <2>5. task' \in [Tasks -> Task]
      <3>1. CASE Backup(k) BY <2>1, <2>2, <2>4, <3>1 DEF Backup, Task
      <3>2. CASE Destroy(k) BY <2>2, <2>4, <3>2 DEF Destroy, Task
      <3> QED BY <2>3, <3>1, <3>2
    <2> QED BY <2>1, <2>2, <2>3, <2>5 DEF TypeOK, Task, Backup, Destroy
  <1>4. CASE \E k \in Tasks : ReleaseFails(k)
    <2>1. PICK k \in Tasks : ReleaseFails(k) BY <1>4
    <2>2. task' \in [Tasks -> Task] BY <1>0, <2>1, TaskGoes DEF ReleaseFails
    <2>3. faults' \in [failures : 0..MaxFailures, losses : 0..MaxLosses]
      BY <2>1, FailsType DEF ReleaseFails
    <2> QED BY <2>1, <2>2, <2>3, StoreType DEF TypeOK, Task, ReleaseFails
  <1>5. CASE \E k \in Tasks : Record(k) \/ TailDone(k)
    <2>1. "tail" \in TaskPc BY DEF TaskPc
    <2>3. PICK k \in Tasks : Record(k) \/ TailDone(k) BY <1>5
    <2>4. PICK t \in Task : task' = [task EXCEPT ![k] = t]
      BY <1>0, <2>1, <2>3, FilesFacts, TaskFields DEF Record, TailDone
    <2>5. task' \in [Tasks -> Task] BY <2>4, TaskGoes
    <2>6. CASE Record(k) BY <2>5, <2>6, SettledType DEF TypeOK, Task, Record
    <2>7. CASE TailDone(k)
      <3>1. (declared /\ ~task[k].discard) \in BOOLEAN OBVIOUS
      <3>2. declared' \in BOOLEAN BY <2>7, <3>1, Zenon DEF TailDone
      <3> QED BY <2>5, <2>7, <3>2 DEF TypeOK, Task, TailDone
    <2> QED BY <2>3, <2>6, <2>7
  <1>6. CASE \E k \in Tasks : TailFails(k)
    <2>1. PICK k \in Tasks : TailFails(k) BY <1>6
    <2>2. task' \in [Tasks -> Task] BY <1>0, <2>1, TaskGoes DEF TailFails
    <2>3. faults' \in [failures : 0..MaxFailures, losses : 0..MaxLosses]
      BY <2>1, FailsType DEF TailFails
    <2> QED BY <2>1, <2>2, <2>3, SettledType DEF TypeOK, Task, TailFails
  <1>7. CASE \E k \in Tasks : GivenUp(k)
    <2>1. PICK k \in Tasks : GivenUp(k) BY <1>7
    <2>2. Present(task[k].files) \in SUBSET Works BY FilesFacts DEF TypeOK
    <2>3. task' \in [Tasks -> Task] BY <1>0, <2>1, TaskGoes DEF GivenUp
    <2>4. forgone' \subseteq Works BY <2>1, <2>2 DEF GivenUp, TypeOK
    <2> QED BY <2>1, <2>3, <2>4, StoreType DEF TypeOK, Task, GivenUp
  <1>8. CASE ShutdownDestroys
    <2>1. PICK k \in Tasks : task' = [task EXCEPT ![k].pc = "record"]
      BY <1>8 DEF ShutdownDestroys, Tasks
    <2>2. "record" \in TaskPc BY DEF TaskPc
    <2>3. PICK t \in Task : task' = [task EXCEPT ![k] = t] BY <2>1, <2>2, TaskAdvances
    <2>4. task' \in [Tasks -> Task] BY <2>3, TaskGoes
    <2>5. box' \in Files BY <1>8, FilesFacts DEF ShutdownDestroys
    <2>6. forgone' \subseteq Works BY <1>8, FilesFacts DEF ShutdownDestroys, TypeOK
    <2> QED BY <1>8, <2>4, <2>5, <2>6 DEF TypeOK, Task, ShutdownDestroys
  <1> QED BY <1>1, <1>2, <1>3, <1>4, <1>5, <1>6, <1>7, <1>8

LEMMA EnvironmentType ==
    ASSUME TypeOK, disturbed' \in BOOLEAN, WindowEnds \/ Lose \/ Crash
    PROVE  TypeOK'
  <1>1. CASE WindowEnds BY <1>1, StoreType DEF TypeOK, WindowEnds
  <1>2. CASE Lose
    <2>1. box \in SUBSET Works BY <1>2 DEF Lose, TypeOK, Files
    <2> QED BY <1>2, <2>1, LossType, FilesFacts DEF TypeOK, Lose
  <1>3. CASE Crash
    <2>1. acq' \in [Holders -> [pc : AcqPc, recovery : Files]]
      BY <1>3, FilesFacts DEF Crash, NoAcq, AcqPc
    <2>2. user' \in [Users -> [pc : UserPc, inst : Holders]]
      BY <1>3 DEF Crash, TypeOK, UserPc
    <2>3. task' \in [Tasks -> [pc : TaskPc, discard : BOOLEAN, files : Files]]
      BY <1>3, NoTaskFacts DEF Crash, Task
    <2>4. faults' \in [failures : 0..MaxFailures, losses : 0..MaxLosses]
      BY <1>3, LossType DEF Crash
    <2> QED BY <1>3, <2>1, <2>2, <2>3, <2>4 DEF TypeOK, Crash
  <1> QED BY <1>1, <1>2, <1>3

LEMMA StepType ==
    ASSUME TypeOK, Step, disturbed' \in BOOLEAN
    PROVE  TypeOK'
  BY EnsureType, AcquisitionType, CallType, TaskType, EnvironmentType DEF Step

-------------------------------------------------------------------------------
(* Who is alone.                                                           *)

LEMMA Names ==
    /\ Callers \subseteq Users /\ "tick" \in Users /\ "confirm" \in Users
    /\ "tick" \notin Callers /\ "confirm" \notin Callers
    /\ "tick" \in Holders /\ "confirm" \in Holders /\ Instances \subseteq Holders
    /\ \A h \in Holders : h \in Tasks => h = "tick"
    /\ "tick" \notin Instances
    /\ Tasks = {"tick", "reclaim", "shutdown"}
  BY LifecycleConstants DEF Users, Holders, Tasks

\* Before the first overlap, whoever takes the container is alone with it.
LEMMA TakingIsAlone ==
    ASSUME TypeOK, ~Overlap, TickInv, NEW k \in Tasks, task[k].pc \notin {"idle", "resolve"}
    PROVE  /\ \A l \in Tasks \ {k} : task[l].pc \in {"idle", "resolve"}
           /\ \A h \in Holders : acq[h].pc = "none"
           /\ \A u \in Users \ {"tick"} : user[u].pc = "idle"
           /\ user["tick"].pc # "idle" => k = "tick" /\ task[k].pc = "probe"
  <1>1. k \in Taking BY DEF Taking
  <1>2. \A l \in Tasks \ {k} : task[l].pc \in {"idle", "resolve"}
    BY <1>1 DEF Overlap, Several, Taking
  <1>3. \A h \in Holders : acq[h].pc = "none"
    <2> SUFFICES ASSUME NEW h \in Holders, acq[h].pc # "none" PROVE FALSE OBVIOUS
    <2>1. h \in Acquiring BY DEF Acquiring
    <2>2. h = k BY <1>1, <2>1 DEF Overlap
    <2> QED BY <2>2, Names DEF TickInv
  <1>4. \A u \in Users \ {"tick"} : user[u].pc = "idle" BY <1>1 DEF Overlap, Busy
  <1>5. user["tick"].pc # "idle" => k = "tick" /\ task[k].pc = "probe"
    BY <1>2, Names DEF TickInv
  <1> QED BY <1>2, <1>3, <1>4, <1>5

\* A call or an acquisition is not under way together with a task.
LEMMA CallMeetsNoTask ==
    ASSUME TypeOK, ~Overlap, TickInv,
           \/ \E u \in Users \ {"tick"} : user[u].pc # "idle"
           \/ \E h \in Holders : acq[h].pc # "none"
    PROVE  \A k \in Tasks : task[k].pc \in {"idle", "resolve"}
  BY TakingIsAlone

LEMMA OneAcquires ==
    ASSUME ~Overlap, NEW h \in Holders, NEW g \in Holders, acq[h].pc # "none", acq[g].pc # "none"
    PROVE  g = h
  BY DEF Overlap, Several, Acquiring

\* Steps while no task takes the container.
LEMMA StepWithoutTask ==
    ASSUME CalmInv, UNCHANGED task, \A k \in Tasks : task[k].pc \in {"idle", "resolve"},
           user'["tick"] = user["tick"], acq'["tick"].pc = "none",
           \A u \in Users \ {"tick"} : user'[u].inst # "tick",
           ~Overlap', StoreInv', \A h \in Holders : AcqInv(h)',
           store'.status = "recoverable" => Unsaved' \subseteq store'.recovery,
           store'.status # "recoverable" => Unsaved' \subseteq Present(box'),
           BitInv'
    PROVE  CalmInv'
  <1>1. TickInv' BY DEF CalmInv, TickInv
  <1>2. \A k \in Tasks : TaskInv(k)'
    <2> SUFFICES ASSUME NEW k \in Tasks PROVE TaskInv(k)' OBVIOUS
    <2>1. task'[k] = task[k] /\ task[k].pc \in {"idle", "resolve"} /\ TaskInv(k) BY DEF CalmInv
    <2> QED BY <2>1 DEF TaskInv
  <1>3. HomeInv' BY DEF HomeInv
  <1> QED BY <1>1, <1>2, <1>3 DEF CalmInv

\* Steps of a task that is alone with the container.
LEMMA StepOfTask ==
    ASSUME UNCHANGED acq, \A h \in Holders : acq[h].pc = "none",
           ~Overlap', TickInv', StoreInv', \A k \in Tasks : TaskInv(k)', HomeInv', BitInv'
    PROVE  CalmInv'
  <1>1. \A h \in Holders : AcqInv(h)' BY DEF AcqInv
  <1> QED BY <1>1 DEF CalmInv

\* What HomeInv says while nothing records a backup.
LEMMA AtHome ==
    ASSUME CalmInv, \A k \in Tasks \ {"shutdown"} : task[k].pc # "record"
    PROVE  /\ store.status = "recoverable" => Unsaved \subseteq store.recovery
           /\ store.status # "recoverable" => Unsaved \subseteq Present(box)
  BY DEF CalmInv, HomeInv

-------------------------------------------------------------------------------
(* Calls.                                                                  *)

LEMMA EnsureKeeps ==
    ASSUME TypeOK, CalmInv, NEW u \in Users, Ensure(u), ~Overlap'
    PROVE  CalmInv'
  <1>9. PICK h \in Holders : h = user[u].inst BY DEF TypeOK
  <1>0. /\ h = user[u].inst /\ user \in [Users -> Call] /\ acq \in [Holders -> [pc : AcqPc, recovery : Files]]
        /\ user[u].pc = "need" /\ UNCHANGED <<declared, box, task, made, saved, forgone>>
        /\ Unsaved' = Unsaved
    BY <1>9 DEF TypeOK, Ensure, Call, Unsaved
  <1>1. CASE u = "tick"
    <2>1. /\ task["tick"].pc = "probe" /\ h = "tick" /\ acq[h].pc = "none"
      BY <1>0, <1>1 DEF CalmInv, TickInv
    <2>2. store.status = "active" BY <2>1, Names DEF CalmInv, TaskInv
    <2>3. user' = [user EXCEPT !["tick"].pc = "run"] /\ UNCHANGED <<store, acq>>
      BY <1>0, <1>1, <2>1, <2>2 DEF Ensure, Expired
    <2>4. /\ user'["tick"].pc = "run" /\ user'["tick"].inst = user["tick"].inst
          /\ \A v \in Users \ {"tick"} : user'[v] = user[v]
      BY <1>0, <2>3, Names DEF Call
    <2>5. TickInv' BY <1>0, <2>1, <2>3, <2>4 DEF CalmInv, TickInv
    <2>6. StoreInv' BY <2>2, <2>3 DEF CalmInv, StoreInv
    <2>7. \A g \in Holders : AcqInv(g)' BY <1>0, <2>3 DEF CalmInv, AcqInv
    <2>8. \A k \in Tasks : TaskInv(k)' BY <1>0, <2>3 DEF CalmInv, TaskInv
    <2>9. HomeInv' BY <1>0, <2>3 DEF CalmInv, HomeInv
    <2>10. BitInv' BY <1>0, <2>3, <2>4, Names DEF CalmInv, BitInv, Clean
    <2> QED BY <2>5, <2>6, <2>7, <2>8, <2>9, <2>10 DEF CalmInv
  <1>2. CASE u # "tick"
    <2>1. \A k \in Tasks : task[k].pc \in {"idle", "resolve"}
      BY <1>0, <1>2, CallMeetsNoTask DEF CalmInv
    <2>2. /\ h # "tick" /\ acq["tick"].pc = "none" BY <1>0, <1>2 DEF CalmInv, TickInv
    <2>3. /\ store.status = "recoverable" => Unsaved \subseteq store.recovery
          /\ store.status # "recoverable" => Unsaved \subseteq Present(box)
      BY <2>1, AtHome
    <2>4. PICK pc \in {"wait", "run"} :
            /\ user' = [user EXCEPT ![u].pc = pc]
            /\ pc = "run" => store.status = "active" /\ UNCHANGED <<store, acq>>
      BY DEF Ensure
    <2>5. /\ user'[u].pc = pc /\ \A v \in Users : user'[v].inst = user[v].inst
          /\ \A v \in Users \ {u} : user'[v] = user[v]
      BY <1>0, <2>4 DEF Call
    <2>6. /\ user'["tick"] = user["tick"]
          /\ \A v \in Users \ {"tick"} : user'[v].inst # "tick"
      BY <1>2, <2>5, Names DEF CalmInv, TickInv
    <2>7. /\ store'.recovery = store.recovery
          /\ store'.status = "recoverable" <=> store.status = "recoverable"
      BY DEF Ensure, Provision, MarkAcquiring, TypeOK
    <2>8. StoreInv'
      <3>1. \A v \in Users : user'[v].pc \in {"run", "declare"} => 
              user[v].pc \in {"run", "declare"} \/ store'.status = "active"
        BY <2>4, <2>5
      <3> QED BY <2>7, <3>1 DEF CalmInv, StoreInv
    <2>9. /\ \A g \in Holders : AcqInv(g)' /\ acq'["tick"].pc = "none"
      <3>1. CASE UNCHANGED <<store, acq>>
        BY <1>0, <2>2, <3>1 DEF CalmInv, AcqInv
      <3>2. CASE /\ acq[h].pc = "none" /\ Expired /\ UNCHANGED store
                 /\ acq' = [acq EXCEPT ![h] = [pc |-> "expire", recovery |-> store.recovery]]
        <4>1. /\ acq'[h].pc = "expire" /\ acq'[h].recovery = store.recovery
              /\ \A g \in Holders \ {h} : acq'[g] = acq[g]
          BY <1>0, <3>2
        <4>2. AcqInv(h)' BY <3>2, <4>1 DEF AcqInv, Expired
        <4>3. \A g \in Holders \ {h} : AcqInv(g)' BY <1>0, <3>2, <4>1 DEF CalmInv, AcqInv
        <4> QED BY <2>2, <4>1, <4>2, <4>3, Names
      <3>3. CASE acq[h].pc = "none" /\ Provision(h)
        <4>1. /\ acq'[h].pc = "create" /\ acq'[h].recovery = store'.recovery
              /\ \A g \in Holders \ {h} : acq'[g] = acq[g]
          BY <1>0, <2>7, <3>3 DEF Provision, CalmInv, StoreInv
        <4>2. \A g \in Holders \ {h} : acq'[g].pc = "none"
          BY <1>0, <4>1 DEF Overlap, Several, Acquiring
        <4>3. AcqInv(h)' BY <4>1 DEF AcqInv
        <4>4. \A g \in Holders \ {h} : AcqInv(g)' BY <4>2 DEF AcqInv
        <4> QED BY <2>2, <4>1, <4>3, <4>4, Names
      <3> QED BY <1>0, <3>1, <3>2, <3>3 DEF Ensure
    <2>10. BitInv'
      BY <1>0, <2>4, <2>5, <2>7, Names DEF CalmInv, BitInv, Clean
    <2>11. /\ store'.status = "recoverable" => Unsaved' \subseteq store'.recovery
           /\ store'.status # "recoverable" => Unsaved' \subseteq Present(box')
      BY <1>0, <2>3, <2>7
    <2> QED BY <1>0, <2>1, <2>6, <2>8, <2>9, <2>10, <2>11, StepWithoutTask
  <1> QED BY <1>1, <1>2

\* A call goes on, or ends: what it must leave as it was.
LEMMA CallStep ==
    ASSUME TypeOK, CalmInv, NEW u \in Users \ {"tick"}, NEW r \in Call,
           user' = [user EXCEPT ![u] = r], UNCHANGED <<store, acq, task>>,
           r.inst # "tick", r.pc \in {"run", "declare"} => user[u].pc \in {"run", "declare"},
           user[u].pc # "idle" \/ r.pc # "idle",
           store.status = "recoverable" => Unsaved' \subseteq Unsaved,
           Unsaved \subseteq Present(box) => Unsaved' \subseteq Present(box'),
           ~Overlap', BitInv'
    PROVE  CalmInv'
  <1>1. user'[u] = r /\ \A v \in Users \ {u} : user'[v] = user[v] BY DEF TypeOK
  <1>2. \A k \in Tasks : task[k].pc \in {"idle", "resolve"}
    <2>1. CASE user[u].pc # "idle" BY <2>1, CallMeetsNoTask DEF CalmInv
    <2>2. CASE r.pc # "idle" BY <1>1, <2>2 DEF Overlap, Busy, Taking
    <2> QED BY <2>1, <2>2
  <1>3. /\ store.status = "recoverable" => Unsaved \subseteq store.recovery
        /\ store.status # "recoverable" => Unsaved \subseteq Present(box)
    BY <1>2, AtHome
  <1>4. user'["tick"] = user["tick"] /\ acq'["tick"].pc = "none"
        /\ \A v \in Users \ {"tick"} : user'[v].inst # "tick"
    BY <1>1, Names DEF CalmInv, TickInv
  <1>5. StoreInv' BY <1>1 DEF CalmInv, StoreInv
  <1>6. \A h \in Holders : AcqInv(h)' BY DEF CalmInv, AcqInv
  <1> QED BY <1>2, <1>3, <1>4, <1>5, <1>6, StepWithoutTask

LEMMA GiveUpKeeps ==
    ASSUME TypeOK, CalmInv, NEW u \in Users, GiveUp(u), ~Overlap'
    PROVE  CalmInv'
  <1> DEFINE r == [user[u] EXCEPT !.pc = "idle"]
  <1>1. u # "tick" BY DEF GiveUp, CalmInv, TickInv
  <1>2. r \in Call /\ r.pc = "idle" /\ r.inst = user[u].inst BY DEF TypeOK, Call, UserPc
  <1>3. user' = [user EXCEPT ![u] = r] BY DEF GiveUp
  <1>4. \A v \in Users : user'[v].pc \in {user[v].pc, "idle"} BY <1>3 DEF TypeOK
  <1>5. BitInv' BY <1>4, Names DEF CalmInv, BitInv, GiveUp, Clean
  <1>6. r.inst # "tick" BY <1>1, <1>2 DEF CalmInv, TickInv
  <1> QED BY <1>1, <1>2, <1>3, <1>5, <1>6, CallStep DEF GiveUp, Unsaved

LEMMA CallStartKeeps ==
    ASSUME TypeOK, CalmInv, NEW c \in Callers, CallStart(c), ~Overlap'
    PROVE  CalmInv'
  <1>1. PICK i \in Instances : user' = [user EXCEPT ![c] = [pc |-> "need", inst |-> i]]
    BY DEF CallStart
  <1>2. c \in Users \ {"tick"} /\ c # "confirm" /\ i # "tick" BY Names
  <1>3. [pc |-> "need", inst |-> i] \in Call BY Names DEF Call, UserPc
  <1>4. user'["confirm"] = user["confirm"] BY <1>1, <1>2
  <1>5. BitInv' BY <1>4 DEF CalmInv, BitInv, CallStart, Clean
  <1> QED BY <1>1, <1>2, <1>3, <1>5, CallStep DEF CallStart, Unsaved

LEMMA RunKeeps ==
    ASSUME TypeOK, CalmInv, NEW c \in Callers, RunEdit(c) \/ RunPush(c), ~Overlap'
    PROVE  CalmInv'
  <1> DEFINE r == [user[c] EXCEPT !.pc = "idle"]
  <1>1. c \in Users \ {"tick"} /\ c # "confirm" /\ user[c].pc = "run" BY Names DEF RunEdit, RunPush
  <1>2. r \in Call /\ r.pc = "idle" /\ r.inst = user[c].inst BY <1>1 DEF TypeOK, Call, UserPc
  <1>3. user' = [user EXCEPT ![c] = r] /\ UNCHANGED <<store, acq, task, declared, forgone>>
    BY DEF RunEdit, RunPush
  <1>4. r.inst # "tick" BY <1>1, <1>2 DEF CalmInv, TickInv
  <1>5. user["confirm"].pc = "idle" BY <1>1, Names DEF CalmInv, Overlap, Busy
  <1>6. ~declared' /\ user'["confirm"].pc # "declare"
    BY <1>1, <1>3, <1>5 DEF CalmInv, BitInv
  <1>7. BitInv' BY <1>6 DEF BitInv
  <1>8. store.status # "recoverable" BY <1>1 DEF CalmInv, StoreInv
  <1>9. Present(box) \in SUBSET Works /\ Present(box) # NoFiles BY FilesFacts DEF TypeOK
  <1>10. Unsaved \subseteq Present(box) => Unsaved' \subseteq Present(box')
    <2>1. CASE RunEdit(c)
      <3>1. made + 1 \in Works BY <2>1, LifecycleConstants DEF RunEdit, Works, TypeOK
      <3>2. Present(box') = Present(box) \cup {made + 1} BY <1>9, <2>1, <3>1, FilesFacts DEF RunEdit
      <3>3. made \in Nat BY LifecycleConstants DEF TypeOK
      <3>4. 1..(made + 1) = (1..made) \cup {made + 1} BY <3>3
      <3>5. Unsaved' \subseteq Unsaved \cup {made + 1} BY <2>1, <3>4 DEF RunEdit, Unsaved
      <3> QED BY <3>2, <3>5
    <2>2. CASE RunPush(c)
      <3>1. Unsaved' \subseteq Unsaved BY <2>2 DEF RunPush, Unsaved
      <3>2. Present(box') = Present(box) BY <1>9, <2>2, FilesFacts DEF RunPush
      <3> QED BY <3>1, <3>2
    <2> QED BY <2>1, <2>2
  <1> QED BY <1>1, <1>2, <1>3, <1>4, <1>7, <1>8, <1>10, CallStep

LEMMA RunMissingKeeps ==
    ASSUME TypeOK, CalmInv, NEW c \in Callers, RunMissing(c), ~Overlap'
    PROVE  CalmInv'
  <1>1. c \in Users \ {"tick"} /\ c # "confirm" /\ user[c].pc = "run" BY Names DEF RunMissing
  <1>2. /\ user'[c].pc = "need" /\ \A v \in Users : user'[v].inst = user[v].inst
        /\ \A v \in Users \ {c} : user'[v] = user[v]
    BY <1>1 DEF TypeOK, RunMissing
  <1>3. \A k \in Tasks : task[k].pc \in {"idle", "resolve"} BY <1>1, CallMeetsNoTask DEF CalmInv
  <1>4. /\ store.status # "recoverable" /\ store.recovery = NoFiles
        /\ store'.status = "absent" /\ store'.recovery = NoFiles
    BY <1>1 DEF CalmInv, StoreInv, RunMissing, MarkAbsent
  <1>5. Unsaved' \subseteq Present(box') BY <1>3, <1>4, AtHome DEF RunMissing, Unsaved
  <1>6. StoreInv' BY <1>4 DEF StoreInv
  <1>7. \A h \in Holders : AcqInv(h)'
    BY <1>4, <1>5 DEF CalmInv, AcqInv, RunMissing
  <1>8. BitInv' BY <1>1, <1>2, Names DEF CalmInv, BitInv, RunMissing, Clean
  <1>9. user'["tick"] = user["tick"] /\ acq'["tick"].pc = "none"
        /\ \A v \in Users \ {"tick"} : user'[v].inst # "tick"
    BY <1>1, <1>2, Names DEF CalmInv, TickInv, RunMissing
  <1> QED BY <1>3, <1>4, <1>5, <1>6, <1>7, <1>8, <1>9, StepWithoutTask DEF RunMissing

LEMMA ConfirmKeeps ==
    ASSUME TypeOK, CalmInv, ConfirmStart \/ ConfirmProbe \/ ConfirmDeclare, ~Overlap'
    PROVE  CalmInv'
  <1>1. "confirm" \in Users \ {"tick"} /\ "confirm" \notin Callers BY Names
  <1>2. PICK pc \in {"need", "declare", "idle"} : user' = [user EXCEPT !["confirm"].pc = pc]
    BY DEF ConfirmStart, ConfirmProbe, ConfirmDeclare
  <1> DEFINE r == [user["confirm"] EXCEPT !.pc = pc]
  <1>3. r \in Call /\ r.pc = pc /\ r.inst = user["confirm"].inst BY <1>1 DEF TypeOK, Call, UserPc
  <1>4. r.inst # "tick" BY <1>1, <1>3 DEF CalmInv, TickInv
  <1>5. user' = [user EXCEPT !["confirm"] = r] BY <1>2
  <1>6. /\ UNCHANGED <<store, acq, task, made, saved, forgone>> /\ Present(box') = Present(box)
        /\ Unsaved' = Unsaved /\ Clean(box') = Clean(box)
    BY FilesFacts DEF ConfirmStart, ConfirmProbe, ConfirmDeclare, Unsaved, Clean, TypeOK
  <1>7. /\ user["confirm"].pc # "idle" \/ r.pc # "idle"
        /\ r.pc \in {"run", "declare"} => user["confirm"].pc \in {"run", "declare"}
    BY <1>1, <1>2, <1>3, <1>5 DEF ConfirmStart, ConfirmProbe, ConfirmDeclare, TypeOK
  <1>8. user'["confirm"].pc = pc /\ \A c \in Callers : user'[c] = user[c]
    BY <1>1, <1>3, <1>5, Names DEF TypeOK
  <1>9. BitInv'
    <2>1. CASE ConfirmStart BY <1>8, <2>1 DEF ConfirmStart, BitInv, TypeOK
    <2>2. CASE ConfirmProbe
      <3>1. user'["confirm"].pc = "declare" => Clean(box)
        BY <1>1, <2>2 DEF ConfirmProbe, TypeOK
      <3> QED BY <1>6, <1>8, <2>2, <3>1 DEF CalmInv, BitInv, ConfirmProbe, Clean
    <2>3. CASE ConfirmDeclare
      <3>1. user["confirm"].pc = "declare" BY <2>3 DEF ConfirmDeclare
      <3>2. \A c \in Callers : user[c].pc = "idle"
        BY <1>1, <3>1, Names DEF CalmInv, Overlap, Busy
      <3>3. store.recovery = NoFiles BY <1>1, <3>1 DEF CalmInv, StoreInv
      <3>4. \A k \in Tasks : task[k].files = NoFiles
        BY <1>1, <3>1, CallMeetsNoTask DEF CalmInv, TaskInv
      <3>5. Clean(box) /\ Clean(NoFiles) BY <3>1, FilesFacts DEF CalmInv, BitInv, Clean
      <3>6. Clean(box') /\ Clean(store.recovery)' /\ \A k \in Tasks : Clean(task[k].files)'
        BY <1>6, <3>3, <3>4, <3>5 DEF Clean
      <3> QED BY <1>8, <2>3, <3>2, <3>6 DEF BitInv, ConfirmDeclare, Clean
    <2> QED BY <2>1, <2>2, <2>3
  <1> QED BY <1>1, <1>3, <1>4, <1>5, <1>6, <1>7, <1>9, CallStep

-------------------------------------------------------------------------------
(* Acquisitions.                                                           *)

\* What a step of an acquisition finds: no task, no other acquisition.
LEMMA AcquirerFinds ==
    ASSUME TypeOK, CalmInv, NEW h \in Holders, acq[h].pc # "none"
    PROVE  /\ h # "tick" /\ AcqInv(h)
           /\ \A k \in Tasks : task[k].pc \in {"idle", "resolve"}
           /\ \A g \in Holders \ {h} : acq[g].pc = "none"
           /\ store.status = "recoverable" => Unsaved \subseteq store.recovery
           /\ store.status # "recoverable" => Unsaved \subseteq Present(box)
  <1>1. h # "tick" /\ AcqInv(h) BY DEF CalmInv, TickInv
  <1>2. \A k \in Tasks : task[k].pc \in {"idle", "resolve"} BY CallMeetsNoTask DEF CalmInv
  <1>3. \A g \in Holders \ {h} : acq[g].pc = "none" BY OneAcquires DEF CalmInv
  <1> QED BY <1>1, <1>2, <1>3, AtHome

\* A step of an acquisition that leaves the calls alone.
LEMMA AcqStep ==
    ASSUME TypeOK, CalmInv, NEW h \in Holders, acq[h].pc # "none", UNCHANGED <<task, user>>,
           \A g \in Holders \ {h} : acq'[g] = acq[g],
           ~Overlap', StoreInv', AcqInv(h)',
           store'.status = "recoverable" => Unsaved' \subseteq store'.recovery,
           store'.status # "recoverable" => Unsaved' \subseteq Present(box'),
           BitInv'
    PROVE  CalmInv'
  <1>1. \A g \in Holders \ {h} : AcqInv(g)' BY AcquirerFinds DEF AcqInv
  <1>2. acq'["tick"].pc = "none" BY AcquirerFinds, Names DEF CalmInv, TickInv
  <1>3. \A u \in Users \ {"tick"} : user'[u].inst # "tick" BY DEF CalmInv, TickInv
  <1> QED BY <1>1, <1>2, <1>3, AcquirerFinds, StepWithoutTask

\* The end of an acquisition.
LEMMA AcqEnds ==
    ASSUME TypeOK, CalmInv, NEW h \in Holders, acq[h].pc # "none", UNCHANGED <<task, box, declared>>,
           NEW pc \in {"run", "idle"}, Resolve(h, pc), Unsaved' = Unsaved, saved' = saved,
           pc = "run" => store'.status # "recoverable",
           store'.recovery = store.recovery,
           store'.status = "recoverable" <=> store.status = "recoverable",
           ~Overlap'
    PROVE  CalmInv'
  <1>1. /\ acq'[h].pc = "none" /\ \A g \in Holders \ {h} : acq'[g] = acq[g]
        /\ \A u \in Users : /\ user'[u].inst = user[u].inst
                            /\ user'[u].pc = user[u].pc \/ (user[u].pc = "wait" /\ user'[u].pc = pc)
                            /\ user[u].pc # "wait" => user'[u] = user[u]
    BY DEF Resolve, Waiters, NoAcq, TypeOK
  <1>2. \A g \in Holders : acq'[g].pc = "none" BY <1>1, AcquirerFinds
  <1>3. \A g \in Holders : AcqInv(g)' BY <1>2 DEF AcqInv
  <1>4. user'["tick"] = user["tick"] /\ acq'["tick"].pc = "none"
    BY <1>1, <1>2, Names DEF CalmInv, TickInv
  <1>5. StoreInv' BY <1>1 DEF CalmInv, StoreInv
  <1>6. BitInv' BY <1>1, Names DEF CalmInv, BitInv, Clean
  <1>7. \A u \in Users \ {"tick"} : user'[u].inst # "tick" BY <1>1 DEF CalmInv, TickInv
  <1>8. /\ store'.status = "recoverable" => Unsaved' \subseteq store'.recovery
        /\ store'.status # "recoverable" => Unsaved' \subseteq Present(box')
    BY AcquirerFinds
  <1> QED BY <1>3, <1>4, <1>5, <1>6, <1>7, <1>8, AcquirerFinds, StepWithoutTask

LEMMA AcqExpireKeeps ==
    ASSUME TypeOK, CalmInv, NEW h \in Holders, AcqExpire(h), ~Overlap'
    PROVE  CalmInv'
  <1>1. acq[h].pc = "expire" /\ UNCHANGED <<task, user, box, made, saved>> BY DEF AcqExpire
  <1>2. acq'[h].pc = "read" /\ \A g \in Holders \ {h} : acq'[g] = acq[g]
    BY DEF AcqExpire, NoAcq, TypeOK
  <1>3. store'.status = "absent" /\ store'.recovery = NoFiles BY DEF AcqExpire, MarkAbsent
  <1>4. Unsaved \subseteq Present(acq[h].recovery)
    BY <1>1, AcquirerFinds DEF AcqInv, CalmInv, StoreInv, Present
  <1>5. Unsaved' = {} BY <1>4 DEF AcqExpire, Unsaved
  <1>6. StoreInv' BY <1>3 DEF StoreInv
  <1>7. AcqInv(h)' BY <1>2 DEF AcqInv
  <1>8. BitInv' BY <1>1 DEF AcqExpire, CalmInv, BitInv, Clean
  <1> QED BY <1>1, <1>2, <1>3, <1>5, <1>6, <1>7, <1>8, AcqStep

LEMMA AcqReadKeeps ==
    ASSUME TypeOK, CalmInv, NEW h \in Holders, AcqRead(h), ~Overlap'
    PROVE  CalmInv'
  <1>1. /\ acq[h].pc = "read" /\ UNCHANGED <<declared, box, task, made, saved, forgone>>
        /\ Unsaved' = Unsaved
    BY DEF AcqRead, Unsaved
  <1>2. CASE store.status = "active" /\ Resolve(h, "run") /\ UNCHANGED store
    BY <1>1, <1>2, AcqEnds
  <1>3. CASE Provision(h) /\ UNCHANGED user
    <2>1. /\ store'.recovery = store.recovery
          /\ store'.status = "recoverable" <=> store.status = "recoverable"
      BY <1>3 DEF Provision, MarkAcquiring, TypeOK
    <2>2. /\ acq'[h].pc = "create" /\ acq'[h].recovery = store'.recovery
          /\ \A g \in Holders \ {h} : acq'[g] = acq[g]
      BY <1>3, <2>1 DEF Provision, CalmInv, StoreInv, TypeOK
    <2>3. StoreInv' BY <1>3, <2>1 DEF CalmInv, StoreInv
    <2>4. AcqInv(h)' BY <2>2 DEF AcqInv
    <2>5. BitInv' BY <1>1, <1>3, <2>1 DEF CalmInv, BitInv, Clean
    <2> QED BY <1>1, <1>3, <2>1, <2>2, <2>3, <2>4, <2>5, AcquirerFinds, AcqStep
  <1> QED BY <1>2, <1>3 DEF AcqRead

LEMMA AcqCreatesKeeps ==
    ASSUME TypeOK, CalmInv, NEW h \in Holders, AcqCreates(h), ~Overlap'
    PROVE  CalmInv'
  <1>1. /\ acq[h].pc = "create" /\ UNCHANGED <<store, declared, user, task, made, saved, forgone>>
        /\ Unsaved' = Unsaved
    BY DEF AcqCreates, Unsaved
  <1>2. /\ acq'[h].pc = "created" /\ acq'[h].recovery = acq[h].recovery
        /\ \A g \in Holders \ {h} : acq'[g] = acq[g]
    BY DEF AcqCreates, TypeOK
  <1>3. acq[h].recovery = store.recovery BY <1>1, AcquirerFinds DEF AcqInv
  <1>4. Present(box') = IF store.recovery # NoFiles THEN store.recovery ELSE Present(box)
    BY <1>3, FilesFacts DEF AcqCreates, Present, TypeOK
  <1>5. Unsaved' \subseteq Present(box')
    BY <1>1, <1>4, AcquirerFinds DEF CalmInv, StoreInv
  <1>6. StoreInv' BY <1>1 DEF CalmInv, StoreInv
  <1>7. AcqInv(h)' BY <1>1, <1>2, <1>3, <1>5 DEF AcqInv
  <1>8. BitInv'
    <2>1. declared => Clean(store.recovery) /\ Clean(box) BY DEF CalmInv, BitInv
    <2>2. user["confirm"].pc = "declare" => Clean(box) /\ store.recovery = NoFiles
      BY Names DEF CalmInv, BitInv, StoreInv
    <2>3. Clean(box) /\ (store.recovery = NoFiles \/ Clean(store.recovery)) => Clean(box')
      BY <1>4 DEF Clean, Present
    <2>4. Clean(box)' = Clean(box') BY <1>1 DEF Clean
    <2> QED BY <1>1, <2>1, <2>2, <2>3, <2>4 DEF CalmInv, BitInv, Clean
  <1> QED BY <1>1, <1>2, <1>5, <1>6, <1>7, <1>8, AcquirerFinds, AcqStep

LEMMA AcqFailsKeeps ==
    ASSUME TypeOK, CalmInv, NEW h \in Holders, AcqCreateFails(h) \/ AcqNonceFails(h), ~Overlap'
    PROVE  CalmInv'
  <1>1. /\ acq[h].pc \in {"create", "created", "nonce"}
        /\ UNCHANGED <<store, declared, box, user, task, made, saved, forgone>>
        /\ Unsaved' = Unsaved
    BY DEF AcqCreateFails, AcqNonceFails, Unsaved
  <1>2. /\ acq'[h].pc = "failed" /\ acq'[h].recovery = acq[h].recovery
        /\ \A g \in Holders \ {h} : acq'[g] = acq[g]
    BY DEF AcqCreateFails, AcqNonceFails, TypeOK
  <1>3. acq[h].recovery = NoFiles => store.status # "recoverable"
    BY <1>1, AcquirerFinds DEF AcqInv, CalmInv, StoreInv
  <1>4. AcqInv(h)' BY <1>1, <1>2, <1>3 DEF AcqInv
  <1>5. StoreInv' BY <1>1 DEF CalmInv, StoreInv
  <1>6. BitInv' BY <1>1 DEF CalmInv, BitInv, Clean
  <1> QED BY <1>1, <1>2, <1>4, <1>5, <1>6, AcquirerFinds, AcqStep

LEMMA AcqMarksKeeps ==
    ASSUME TypeOK, CalmInv, NEW h \in Holders, AcqMarks(h), ~Overlap'
    PROVE  CalmInv'
  <1>1. /\ acq[h].pc = "created" /\ UNCHANGED <<declared, box, user, task, made, saved, forgone>>
        /\ Unsaved' = Unsaved
    BY DEF AcqMarks, Unsaved
  <1>2. acq'[h].pc = "nonce" /\ \A g \in Holders \ {h} : acq'[g] = acq[g]
    BY DEF AcqMarks, TypeOK
  <1>3. store'.status = "active" /\ store'.recovery = NoFiles BY DEF AcqMarks, MarkActive
  <1>4. Unsaved' \subseteq Present(box') BY <1>1, AcquirerFinds DEF AcqInv
  <1>5. StoreInv' BY <1>3 DEF StoreInv
  <1>6. AcqInv(h)' BY <1>2, <1>3 DEF AcqInv
  <1>7. BitInv' BY <1>1, <1>3, FilesFacts DEF CalmInv, BitInv, Clean
  <1> QED BY <1>1, <1>2, <1>3, <1>4, <1>5, <1>6, <1>7, AcqStep

LEMMA AcqResolvesKeeps ==
    ASSUME TypeOK, CalmInv, NEW h \in Holders, AcqDone(h) \/ AcqFailed(h), ~Overlap'
    PROVE  CalmInv'
  <1>1. CASE AcqDone(h)
    <2>1. acq[h].pc = "nonce" /\ store.status # "recoverable"
      BY <1>1, AcquirerFinds DEF AcqDone, AcqInv
    <2> QED BY <1>1, <2>1, AcqEnds DEF AcqDone, Unsaved
  <1>2. CASE AcqFailed(h)
    <2>1. acq[h].pc = "failed" BY <1>2 DEF AcqFailed
    <2>2. /\ store'.recovery = store.recovery
          /\ store'.status = "recoverable" <=> store.status = "recoverable"
      BY <1>2, <2>1, AcquirerFinds DEF AcqFailed, AcqInv, MarkError, TypeOK
    <2> QED BY <1>2, <2>1, <2>2, AcqEnds DEF AcqFailed, Unsaved
  <1> QED BY <1>1, <1>2

-------------------------------------------------------------------------------
(* Tasks.                                                                  *)

Resting == {"idle", "resolve"}

\* What a task that takes the container, or is about to, finds.
LEMMA TaskFinds ==
    ASSUME TypeOK, CalmInv, NEW k \in Tasks, NEW t \in Task, task' = [task EXCEPT ![k] = t],
           task[k].pc \notin Resting \/ t.pc \notin Resting,
           UNCHANGED acq, \A u \in Users \ {"tick"} : user'[u] = user[u], ~Overlap'
    PROVE  /\ task'[k] = t /\ \A l \in Tasks \ {k} : task'[l] = task[l] /\ task[l].pc \in Resting
           /\ \A h \in Holders : acq[h].pc = "none"
           /\ \A u \in Users \ {"tick"} : user[u].pc = "idle"
           /\ k # "tick" => user["tick"].pc = "idle"
           /\ TaskInv(k)
           /\ k = "shutdown" \/ task[k].pc # "record" =>
                /\ store.status = "recoverable" => Unsaved \subseteq store.recovery
                /\ store.status # "recoverable" => Unsaved \subseteq Present(box)
  <1>1. task'[k] = t /\ \A l \in Tasks \ {k} : task'[l] = task[l] BY DEF TypeOK
  <1>2. /\ \A l \in Tasks \ {k} : task[l].pc \in Resting
        /\ \A h \in Holders : acq[h].pc = "none"
        /\ \A u \in Users \ {"tick"} : user[u].pc = "idle"
    <2>1. CASE task[k].pc \notin Resting
      BY <2>1, TakingIsAlone DEF CalmInv, Resting
    <2>2. CASE t.pc \notin Resting
      <3>1. k \in Taking' BY <1>1, <2>2 DEF Taking, Resting
      <3>2. \A l \in Tasks \ {k} : l \notin Taking' BY <3>1 DEF Overlap, Several
      <3>3. \A l \in Tasks \ {k} : task[l].pc \in Resting BY <1>1, <3>2 DEF Taking, Resting
      <3>4. \A u \in Users \ {"tick"} : user[u].pc = "idle" BY <3>1 DEF Overlap, Busy
      <3>5. ASSUME NEW h \in Holders, acq[h].pc # "none" PROVE FALSE
        <4>1. h \in Acquiring' BY <3>5 DEF Acquiring
        <4>2. h = k BY <3>1, <4>1 DEF Overlap
        <4> QED BY <3>5, <4>2, Names DEF CalmInv, TickInv
      <3> QED BY <3>3, <3>4, <3>5
    <2> QED BY <2>1, <2>2
  <1>3. k # "tick" => user["tick"].pc = "idle"
    BY <1>2, Names DEF CalmInv, TickInv, Resting
  <1>4. k = "shutdown" \/ task[k].pc # "record" =>
          \A l \in Tasks \ {"shutdown"} : task[l].pc # "record"
    BY <1>2 DEF Resting
  <1>5. TaskInv(k) BY DEF CalmInv
  <1> QED BY <1>1, <1>2, <1>3, <1>4, <1>5, AtHome

\* What a step of a task must leave behind.
LEMMA TaskStep ==
    ASSUME TypeOK, CalmInv, NEW k \in Tasks, NEW t \in Task, task' = [task EXCEPT ![k] = t],
           task[k].pc \notin Resting \/ t.pc \notin Resting,
           UNCHANGED acq, \A u \in Users \ {"tick"} : user'[u] = user[u], ~Overlap',
           user'["tick"].inst = user["tick"].inst,
           \/ user'["tick"].pc = "idle"
           \/ k # "tick" /\ user'["tick"] = user["tick"]
           \/ user'["tick"].pc = "need" /\ k = "tick" /\ t.pc = "probe",
           store'.recovery # NoFiles <=> store'.status = "recoverable",
           TaskInv(k)',
           store'.status = "recoverable" => Unsaved' \subseteq store'.recovery,
           \/ store'.status = "recoverable"
           \/ t.pc = "record" /\ k # "shutdown"
           \/ Unsaved' \subseteq Present(box'),
           declared' => Clean(box)' /\ Clean(store.recovery)' /\ Clean(t.files)'
    PROVE  CalmInv'
  <1>1. /\ task'[k] = t /\ \A l \in Tasks \ {k} : task'[l] = task[l] /\ task[l].pc \in Resting
        /\ \A h \in Holders : acq[h].pc = "none"
        /\ \A u \in Users \ {"tick"} : user[u].pc = "idle"
        /\ k # "tick" => user["tick"].pc = "idle"
    BY TaskFinds
  <1>2. TickInv' BY <1>1, Names DEF CalmInv, TickInv
  <1>3. StoreInv' BY <1>1 DEF StoreInv
  <1>4. \A l \in Tasks \ {k} : TaskInv(l)' /\ task'[l].files = NoFiles
    BY <1>1 DEF CalmInv, TaskInv, Resting
  <1>5. HomeInv' BY <1>1 DEF HomeInv
  <1>6. BitInv'
    <2>1. Clean(NoFiles)' BY FilesFacts DEF Clean
    <2>2. \A l \in Tasks \ {k} : Clean(task[l].files)' BY <1>4, <2>1 DEF Clean
    <2>3. declared' => Clean(task[k].files)' BY <1>1 DEF Clean
    <2> QED BY <1>1, <2>2, <2>3, Names DEF BitInv
  <1> QED BY <1>1, <1>2, <1>3, <1>4, <1>5, <1>6, StepOfTask

\* The beginning of a release, decided under a status that is active.
LEMMA ReleaseKeeps ==
    ASSUME TypeOK, CalmInv, NEW k \in Tasks \ {"shutdown"}, NEW discard \in BOOLEAN,
           task[k].pc \notin Resting, task[k].pc # "record",
           BeginRelease(k, discard), store.status = "active",
           discard => Unsaved = {},
           UNCHANGED <<acq, declared, made, saved, forgone>>, Present(box') = Present(box),
           \A u \in Users \ {"tick"} : user'[u] = user[u],
           user'["tick"].inst = user["tick"].inst, user'["tick"].pc = "idle",
           ~Overlap'
    PROVE  CalmInv'
  <1> DEFINE t == [pc |-> IF discard THEN "destroy" ELSE "backup", discard |-> discard, files |-> NoFiles]
  <1>1. t \in Task BY FilesFacts DEF Task, TaskPc
  <1>2. task' = [task EXCEPT ![k] = t] /\ store'.status = "releasing" /\ store'.recovery = store.recovery
    BY DEF BeginRelease, MarkReleasing, TypeOK
  <1>3. task'[k] = t BY <1>2 DEF TypeOK
  <1>4. store.recovery = NoFiles BY DEF CalmInv, StoreInv
  <1>5. Unsaved' = Unsaved BY DEF Unsaved
  <1>6. TaskInv(k)' BY <1>2, <1>3, <1>5 DEF TaskInv
  <1>7. Unsaved \subseteq Present(box) BY <1>1, <1>2, TaskFinds
  <1>8. declared' => Clean(box)' /\ Clean(store.recovery)' /\ Clean(t.files)'
    BY <1>2, <1>4, FilesFacts DEF CalmInv, BitInv, Clean
  <1> HIDE DEF t
  <1> QED BY <1>1, <1>2, <1>4, <1>5, <1>6, <1>7, <1>8, TaskStep

LEMMA TickStartKeeps ==
    ASSUME TypeOK, CalmInv, TickStart, ~Overlap'
    PROVE  CalmInv'
  <1>1. PICK t \in Task :
          /\ task' = [task EXCEPT !["tick"] = t]
          /\ \/ Expired /\ t.pc = "expire" /\ t.files = store.recovery
             \/ store.status = "active" /\ t.pc = "declared" /\ t.files = NoFiles
    <2>1. /\ {"expire", "declared"} \subseteq TaskPc /\ store.recovery \in Files
      BY DEF TaskPc, TypeOK
    <2>2. CASE Expired /\ task' = [task EXCEPT !["tick"] = [NoTask EXCEPT !.pc = "expire",
                                                                          !.files = store.recovery]]
      <3> DEFINE t == [NoTask EXCEPT !.pc = "expire", !.files = store.recovery]
      <3>1. t \in Task /\ t.pc = "expire" /\ t.files = store.recovery
        BY <2>1, NoTaskFacts DEF Task
      <3>2. task' = [task EXCEPT !["tick"] = t] BY <2>2
      <3> HIDE DEF t
      <3> QED BY <2>2, <3>1, <3>2
    <2>3. CASE /\ store.status = "active"
               /\ task' = [task EXCEPT !["tick"] = [NoTask EXCEPT !.pc = "declared"]]
      <3> DEFINE t == [NoTask EXCEPT !.pc = "declared"]
      <3>1. t \in Task /\ t.pc = "declared" /\ t.files = NoFiles
        BY <2>1, NoTaskFacts DEF Task
      <3>2. task' = [task EXCEPT !["tick"] = t] BY <2>3
      <3> HIDE DEF t
      <3> QED BY <2>3, <3>1, <3>2
    <2> QED BY <2>2, <2>3 DEF TickStart
  <1>2. /\ "tick" \in Tasks /\ t.pc \notin Resting /\ Unsaved' = Unsaved
        /\ UNCHANGED <<store, declared, box, acq, user, made, saved, forgone>>
        /\ task["tick"].pc = "idle"
    BY <1>1, Names DEF TickStart, Resting, Unsaved
  <1>3. task'["tick"] = t BY <1>1, <1>2 DEF TypeOK
  <1>4. TaskInv("tick")' BY <1>1, <1>2, <1>3 DEF TaskInv, Expired
  <1>5. user["tick"].pc = "idle" BY <1>2 DEF CalmInv, TickInv
  <1>6. declared' => Clean(box)' /\ Clean(store.recovery)' /\ Clean(t.files)'
    BY <1>1, <1>2, FilesFacts DEF CalmInv, BitInv, Clean
  <1>7. /\ store'.status = "recoverable" => Unsaved' \subseteq store'.recovery
        /\ store'.status = "recoverable" \/ Unsaved' \subseteq Present(box')
    BY <1>1, <1>2, TaskFinds
  <1>8. store'.recovery # NoFiles <=> store'.status = "recoverable" BY <1>2 DEF CalmInv, StoreInv
  <1> QED BY <1>1, <1>2, <1>4, <1>5, <1>6, <1>7, <1>8, TaskStep

\* What is clean and holds all the unsaved work holds none.
LEMMA CleanIsSaved ==
    ASSUME Unsaved \subseteq Present(box), Clean(box)
    PROVE  Unsaved = {}
  BY DEF Clean, Unsaved

LEMMA TickDeclaredKeeps ==
    ASSUME TypeOK, CalmInv, TickDeclared, ~Overlap'
    PROVE  CalmInv'
  <1>1. /\ task["tick"].pc = "declared" /\ task["tick"].pc \notin Resting
        /\ "tick" \in Tasks \ {"shutdown"}
        /\ UNCHANGED <<box, acq, made, saved, forgone>> /\ Unsaved' = Unsaved
    BY Names DEF TickDeclared, Resting, Unsaved
  <1>2. store.status = "active" /\ store.recovery = NoFiles BY <1>1 DEF CalmInv, TaskInv, StoreInv
  <1>3. user["tick"].pc = "idle" BY <1>1 DEF CalmInv, TickInv
  <1>4. Unsaved \subseteq Present(box) BY <1>1, <1>2, TakingIsAlone, AtHome DEF CalmInv, Resting
  <1>5. CASE declared /\ BeginRelease("tick", TRUE) /\ UNCHANGED <<declared, user>>
    <2>1. Unsaved = {} BY <1>4, <1>5, CleanIsSaved DEF CalmInv, BitInv
    <2> QED BY <1>1, <1>2, <1>3, <1>5, <2>1, ReleaseKeeps
  <1>6. CASE /\ ~declared
             /\ task' = [task EXCEPT !["tick"].pc = "probe"]
             /\ user' = [user EXCEPT !["tick"].pc = "need"]
             /\ UNCHANGED <<store, declared>>
    <2> DEFINE t == [task["tick"] EXCEPT !.pc = "probe"]
    <2>1. t \in Task /\ t.pc = "probe"
      <3>1. task["tick"] \in Task /\ "probe" \in TaskPc BY <1>1 DEF TaskPc, TypeOK, Task
      <3> QED BY <3>1 DEF Task
    <2>2. task' = [task EXCEPT !["tick"] = t] BY <1>6
    <2> HIDE DEF t
    <2>3. task'["tick"] = t BY <1>1, <2>2 DEF TypeOK
    <2>4. TaskInv("tick")' BY <1>2, <1>6, <2>1, <2>3 DEF TaskInv
    <2>5. /\ user'["tick"].pc = "need" /\ user'["tick"].inst = user["tick"].inst
          /\ \A u \in Users \ {"tick"} : user'[u] = user[u]
      BY <1>6, Names DEF TypeOK
    <2> QED BY <1>1, <1>2, <1>4, <1>6, <2>1, <2>2, <2>4, <2>5, TaskStep
  <1> QED BY <1>5, <1>6 DEF TickDeclared

LEMMA TickProbedKeeps ==
    ASSUME TypeOK, CalmInv, TickProbed, ~Overlap'
    PROVE  CalmInv'
  <1>1. /\ task["tick"].pc = "probe" /\ task["tick"].pc \notin Resting
        /\ "tick" \in Tasks \ {"shutdown"}
        /\ UNCHANGED <<declared, acq, made, saved, forgone>>
    BY Names DEF TickProbed, Resting
  <1>2. store.status = "active" BY <1>1 DEF CalmInv, TaskInv
  <1>3. Unsaved \subseteq Present(box) BY <1>1, <1>2, TakingIsAlone, AtHome DEF CalmInv, Resting
  <1>4. /\ user'["tick"].pc = "idle" /\ user'["tick"].inst = user["tick"].inst
        /\ \A u \in Users \ {"tick"} : user'[u] = user[u]
    BY Names DEF TickProbed, TypeOK
  <1>5. Present(box') = Present(box) BY FilesFacts DEF TickProbed, TypeOK
  <1>6. CASE BeginRelease("tick", Clean(box))
    <2>1. Clean(box) \in BOOLEAN BY DEF Clean
    <2>2. Clean(box) => Unsaved = {} BY <1>3, CleanIsSaved
    <2> QED BY <1>1, <1>2, <1>4, <1>5, <1>6, <2>1, <2>2, ReleaseKeeps
  <1>7. CASE BeginRelease("tick", FALSE)
    BY <1>1, <1>2, <1>4, <1>5, <1>7, ReleaseKeeps
  <1> QED BY <1>6, <1>7 DEF TickProbed

LEMMA ReclaimKeeps ==
    ASSUME TypeOK, CalmInv, ReclaimStart \/ ReclaimCheck \/ ReclaimBegins, ~Overlap'
    PROVE  CalmInv'
  <1>1. /\ "reclaim" \in Tasks \ {"shutdown"} /\ Unsaved' = Unsaved
        /\ UNCHANGED <<declared, box, acq, user, made, saved, forgone>>
    BY Names DEF ReclaimStart, ReclaimCheck, ReclaimBegins, Unsaved
  <1>2. CASE ReclaimBegins
    <2>1. task["reclaim"].pc = "check" /\ BeginRelease("reclaim", FALSE) BY <1>2 DEF ReclaimBegins
    <2>2. store.status = "active" BY <1>1, <2>1 DEF CalmInv, TaskInv
    <2>3. user["tick"].pc = "idle" BY <1>1, <2>1, TakingIsAlone DEF CalmInv
    <2> QED BY <1>1, <2>1, <2>2, <2>3, Names, ReleaseKeeps DEF Resting
  <1>3. CASE ReclaimCheck /\ store.status = "active"
    <2>1. /\ task["reclaim"].pc = "resolve" /\ UNCHANGED store
          /\ task' = [task EXCEPT !["reclaim"] = [NoTask EXCEPT !.pc = "check"]]
      BY <1>3 DEF ReclaimCheck
    <2>2. PICK t \in Task : /\ task' = [task EXCEPT !["reclaim"] = t]
                            /\ t.pc = "check" /\ t.files = NoFiles
      <3> DEFINE t == [NoTask EXCEPT !.pc = "check"]
      <3>1. "check" \in TaskPc BY DEF TaskPc
      <3>2. t \in Task /\ t.pc = "check" /\ t.files = NoFiles
        BY <3>1, NoTaskFacts DEF Task
      <3>3. task' = [task EXCEPT !["reclaim"] = t] BY <2>1
      <3> HIDE DEF t
      <3> QED BY <3>2, <3>3
    <2>3. task'["reclaim"] = t BY <1>1, <2>2 DEF TypeOK
    <2>4. TaskInv("reclaim")' BY <1>3, <2>1, <2>2, <2>3 DEF TaskInv
    <2>5. t.pc \notin Resting /\ task["reclaim"].pc # "record" BY <2>1, <2>2 DEF Resting
    <2>6. /\ Unsaved \subseteq Present(box) /\ user["tick"].pc = "idle"
      BY <1>1, <1>3, <2>2, <2>5, TaskFinds
    <2>7. declared' => Clean(box)' /\ Clean(store.recovery)' /\ Clean(t.files)'
      BY <1>1, <2>1, <2>2, FilesFacts DEF CalmInv, BitInv, Clean
    <2>8. store'.recovery # NoFiles <=> store'.status = "recoverable" BY <2>1 DEF CalmInv, StoreInv
    <2> QED BY <1>1, <1>3, <2>1, <2>2, <2>4, <2>5, <2>6, <2>7, <2>8, TaskStep
  <1>4. CASE ReclaimStart \/ (ReclaimCheck /\ store.status # "active")
    <2>1. /\ task["reclaim"].pc \in Resting /\ task'["reclaim"].pc \in Resting
          /\ task'["reclaim"].files = NoFiles /\ UNCHANGED store
          /\ \A k \in Tasks \ {"reclaim"} : task'[k] = task[k]
      BY <1>1, <1>4 DEF ReclaimStart, ReclaimCheck, Resting, NoTask, TypeOK, CalmInv, TaskInv
    <2>2. \A k \in Tasks : TaskInv(k)'
      <3>1. TaskInv("reclaim")' BY <2>1 DEF TaskInv, Resting
      <3>2. \A k \in Tasks \ {"reclaim"} : TaskInv(k)' BY <1>1, <2>1 DEF CalmInv, TaskInv
      <3> QED BY <3>1, <3>2
    <2>3. TickInv' BY <1>1, <2>1, Names DEF CalmInv, TickInv
    <2>4. StoreInv' /\ \A h \in Holders : AcqInv(h)' BY <1>1, <2>1 DEF CalmInv, StoreInv, AcqInv
    <2>5. HomeInv' BY <1>1, <2>1 DEF CalmInv, HomeInv, Resting
    <2>6. BitInv'
      <3>1. Clean(NoFiles) BY FilesFacts DEF Clean
      <3> QED BY <1>1, <2>1, <3>1 DEF CalmInv, BitInv, Clean
    <2> QED BY <2>2, <2>3, <2>4, <2>5, <2>6 DEF CalmInv
  <1> QED BY <1>2, <1>3, <1>4

LEMMA BackupKeeps ==
    ASSUME TypeOK, CalmInv, NEW k \in Tasks, Backup(k), ~Overlap'
    PROVE  CalmInv'
  <1>1. /\ task[k].pc = "backup" /\ task[k].pc \notin Resting /\ task[k].pc # "record"
        /\ UNCHANGED <<store, declared, acq, user, made, saved, forgone>> /\ Unsaved' = Unsaved
    BY DEF Backup, Resting, Unsaved
  <1>2. k # "shutdown" /\ store.status = "releasing" /\ ~task[k].discard BY <1>1 DEF CalmInv, TaskInv
  <1>3. box' = Present(box) /\ Present(box') = Present(box) /\ Present(box) \in Files
        /\ Present(box) # NoFiles
    BY FilesFacts DEF Backup, TypeOK
  <1>4. PICK t \in Task :
          /\ task' = [task EXCEPT ![k] = t]
          /\ t.pc = "destroy" /\ t.files = Present(box) /\ t.discard = task[k].discard
    <2> DEFINE t == [task[k] EXCEPT !.pc = "destroy", !.files = Present(box)]
    <2>1. task[k] \in Task /\ "destroy" \in TaskPc BY DEF TypeOK, Task, TaskPc
    <2>2. t \in Task /\ t.pc = "destroy" /\ t.files = Present(box) /\ t.discard = task[k].discard
      BY <1>3, <2>1 DEF Task
    <2>3. task' = [task EXCEPT ![k] = t] BY DEF Backup
    <2> HIDE DEF t
    <2> QED BY <2>2, <2>3
  <1>6. /\ task'[k] = t /\ Unsaved \subseteq Present(box)
        /\ user["tick"].pc = "idle"
    <2>1. user["tick"].pc = "idle" BY <1>1, TakingIsAlone DEF CalmInv
    <2> QED BY <1>1, <1>2, <1>4, <2>1, TaskFinds
  <1>7. TaskInv(k)' BY <1>1, <1>2, <1>3, <1>4, <1>6, FilesFacts DEF TaskInv, TypeOK
  <1>8. declared' => Clean(box)' /\ Clean(store.recovery)' /\ Clean(t.files)'
    BY <1>1, <1>3, <1>4 DEF CalmInv, BitInv, Clean
  <1>9. store'.recovery # NoFiles <=> store'.status = "recoverable"
    BY <1>1 DEF CalmInv, StoreInv
  <1> QED BY <1>1, <1>2, <1>3, <1>4, <1>6, <1>7, <1>8, <1>9, TaskStep

LEMMA DestroyKeeps ==
    ASSUME TypeOK, CalmInv, NEW k \in Tasks, Destroy(k), ~Overlap'
    PROVE  CalmInv'
  <1>1. /\ task[k].pc = "destroy" /\ k # "shutdown" /\ task[k].pc \notin Resting
        /\ UNCHANGED <<store, declared, acq, user, made, saved, forgone>> /\ Unsaved' = Unsaved
        /\ box' = NoFiles
    BY DEF Destroy, Resting, Unsaved
  <1>2. /\ store.status = "releasing" /\ TaskInv(k) BY <1>1 DEF CalmInv, TaskInv
  <1>3. PICK t \in Task :
          /\ task' = [task EXCEPT ![k] = t]
          /\ t.pc = "record" /\ t.files = task[k].files /\ t.discard = task[k].discard
    BY TaskAdvances DEF Destroy, TaskPc
  <1>5. task'[k] = t BY <1>3 DEF TypeOK
  <1>6. user["tick"].pc = "idle" BY <1>1, TakingIsAlone DEF CalmInv
  <1>7. TaskInv(k)' BY <1>1, <1>2, <1>3, <1>5 DEF TaskInv
  <1>8. declared' => Clean(box)' /\ Clean(store.recovery)' /\ Clean(t.files)'
    BY <1>1, <1>3, FilesFacts DEF CalmInv, BitInv, Clean
  <1>9. store'.recovery # NoFiles <=> store'.status = "recoverable"
    BY <1>1 DEF CalmInv, StoreInv
  <1> QED BY <1>1, <1>2, <1>3, <1>6, <1>7, <1>8, <1>9, TaskStep

\* A task that ends where the files are at home.
LEMMA TaskEnds ==
    ASSUME TypeOK, CalmInv, NEW k \in Tasks, task[k].pc \notin Resting, task[k].pc # "probe",
           task' = [task EXCEPT ![k] = NoTask], UNCHANGED <<acq, user, box>>,
           saved' = saved, ~Overlap',
           store'.recovery # NoFiles <=> store'.status = "recoverable",
           store'.status = "recoverable" => Unsaved' \subseteq store'.recovery,
           store'.status # "recoverable" => Unsaved' \subseteq Present(box'),
           declared' => declared /\ Clean(store.recovery)'
    PROVE  CalmInv'
  <1>1. user["tick"].pc = "idle" BY TakingIsAlone DEF CalmInv, Resting
  <1>2. task'[k] = NoTask BY DEF TypeOK
  <1>3. TaskInv(k)' BY <1>2, NoTaskFacts DEF TaskInv
  <1>4. declared' => Clean(box)' /\ Clean(store.recovery)' /\ Clean(NoTask.files)'
    BY NoTaskFacts, FilesFacts DEF CalmInv, BitInv, Clean
  <1> QED BY <1>1, <1>3, <1>4, NoTaskFacts, TaskStep

LEMMA ReleaseFailsKeeps ==
    ASSUME TypeOK, CalmInv, NEW k \in Tasks, ReleaseFails(k), ~Overlap'
    PROVE  CalmInv'
  <1>1. /\ task[k].pc \in {"backup", "destroy"} /\ k # "shutdown" /\ task[k].pc \notin Resting
        /\ task' = [task EXCEPT ![k] = NoTask] /\ Unsaved' = Unsaved
        /\ UNCHANGED <<declared, box, acq, user, made, saved, forgone>>
        /\ store'.status = "active" /\ store'.recovery = NoFiles
    BY DEF ReleaseFails, Resting, MarkActive, Unsaved
  <1>2. store.status = "releasing" BY <1>1 DEF CalmInv, TaskInv
  <1>3. Unsaved \subseteq Present(box) BY <1>1, <1>2, NoTaskFacts, TaskFinds
  <1>4. Clean(store.recovery)' BY <1>1, FilesFacts DEF Clean
  <1> QED BY <1>1, <1>3, <1>4, TaskEnds

\* The record of a finished release: nothing was discarded that is needed.
LEMMA SettledFacts ==
    ASSUME TypeOK, CalmInv, NEW k \in Tasks \ {"shutdown"}, task[k].pc \in {"record", "tail"}
    PROVE  /\ Settled(k).recovery = task[k].files
           /\ Settled(k).recovery # NoFiles <=> Settled(k).status = "recoverable"
           /\ Settled(k).status = "recoverable" \/ task[k].files = NoFiles
  BY DEF Settled, MarkAbsent, MarkRecoverable, CalmInv, TaskInv

LEMMA RecordKeeps ==
    ASSUME TypeOK, CalmInv, NEW k \in Tasks, Record(k), ~Overlap'
    PROVE  CalmInv'
  <1>1. /\ task[k].pc = "record" /\ k # "shutdown" /\ task[k].pc \notin Resting
        /\ UNCHANGED <<declared, box, acq, user, made, saved, forgone>> /\ Unsaved' = Unsaved
        /\ store' = Settled(k)
    BY DEF Record, Resting, Unsaved
  <1>2. TaskInv(k) BY DEF CalmInv
  <1>3. PICK t \in Task :
          /\ task' = [task EXCEPT ![k] = t]
          /\ t.pc = "tail" /\ t.files = task[k].files /\ t.discard = task[k].discard
    BY TaskAdvances DEF Record, TaskPc
  <1>4. /\ store'.recovery = task[k].files
        /\ store'.recovery # NoFiles <=> store'.status = "recoverable"
        /\ store'.status = "recoverable" \/ task[k].files = NoFiles
    BY <1>1, SettledFacts
  <1>5. task'[k] = t BY <1>3 DEF TypeOK
  <1>6. user["tick"].pc = "idle" BY <1>1, TakingIsAlone DEF CalmInv
  <1>7. TaskInv(k)' BY <1>1, <1>2, <1>3, <1>4, <1>5 DEF TaskInv
  <1>8. Unsaved \subseteq Present(task[k].files) BY <1>1, <1>2 DEF TaskInv
  <1>9. /\ store'.status = "recoverable" => Unsaved' \subseteq store'.recovery
        /\ store'.status = "recoverable" \/ Unsaved' \subseteq Present(box')
    BY <1>1, <1>4, <1>8, FilesFacts DEF Present
  <1>10. declared' => Clean(box)' /\ Clean(store.recovery)' /\ Clean(t.files)'
    BY <1>1, <1>3, <1>4 DEF CalmInv, BitInv, Clean
  <1> QED BY <1>1, <1>3, <1>4, <1>6, <1>7, <1>9, <1>10, TaskStep

LEMMA TailKeeps ==
    ASSUME TypeOK, CalmInv, NEW k \in Tasks, TailDone(k) \/ TailFails(k), ~Overlap'
    PROVE  CalmInv'
  <1>1. /\ task[k].pc = "tail" /\ task[k].pc \notin Resting
        /\ task' = [task EXCEPT ![k] = NoTask] /\ Unsaved' = Unsaved
        /\ UNCHANGED <<box, acq, user, made, saved, forgone>>
    BY DEF TailDone, TailFails, Resting, Unsaved
  <1>2. k # "shutdown" /\ TaskInv(k) /\ task[k].files = store.recovery
    BY <1>1 DEF CalmInv, TaskInv
  <1>3. /\ store'.recovery = store.recovery
        /\ store'.recovery # NoFiles <=> store'.status = "recoverable"
    <2>1. CASE TailDone(k) BY <2>1 DEF TailDone, CalmInv, StoreInv
    <2>2. CASE TailFails(k) BY <1>1, <1>2, <2>2, SettledFacts DEF TailFails
    <2> QED BY <2>1, <2>2
  <1>4. /\ store'.status = "recoverable" => Unsaved' \subseteq store'.recovery
        /\ store'.status # "recoverable" => Unsaved' \subseteq Present(box')
    BY <1>1, <1>3, NoTaskFacts, TaskFinds DEF CalmInv, StoreInv
  <1>5. declared' => declared
    <2>1. CASE TailDone(k) BY <2>1, Zenon DEF TailDone
    <2>2. CASE TailFails(k) BY <2>2 DEF TailFails
    <2> QED BY <2>1, <2>2
  <1>6. declared => Clean(store.recovery)'
    BY <1>1, <1>3 DEF CalmInv, BitInv, Clean
  <1> QED BY <1>1, <1>3, <1>4, <1>5, <1>6, TaskEnds

LEMMA GivenUpKeeps ==
    ASSUME TypeOK, CalmInv, NEW k \in Tasks, GivenUp(k), ~Overlap'
    PROVE  CalmInv'
  <1>1. /\ task[k].pc \in {"expire", "record"} /\ task[k].pc \notin Resting
        /\ task[k].pc = "record" => k = "shutdown"
        /\ task' = [task EXCEPT ![k] = NoTask]
        /\ UNCHANGED <<box, acq, user, made, saved>> /\ declared' = FALSE
        /\ store'.status = "absent" /\ store'.recovery = NoFiles
        /\ forgone' = forgone \cup Present(task[k].files)
    BY DEF GivenUp, Resting, MarkAbsent
  <1>2. task[k].files = store.recovery BY <1>1 DEF CalmInv, TaskInv
  <1>3. /\ store.status = "recoverable" => Unsaved \subseteq store.recovery
        /\ store.status # "recoverable" => Unsaved \subseteq Present(box)
    BY <1>1, NoTaskFacts, TaskFinds
  <1>4. Unsaved' \subseteq Present(box')
    BY <1>1, <1>2, <1>3 DEF Unsaved, Present, CalmInv, StoreInv
  <1> QED BY <1>1, <1>4, TaskEnds

LEMMA ShutdownDestroysKeeps ==
    ASSUME TypeOK, CalmInv, ShutdownDestroys, ~Overlap'
    PROVE  CalmInv'
  <1>0. PICK k \in Tasks : k = "shutdown" BY Names
  <1>1. /\ task[k].pc = "destroy" /\ task[k].pc \notin Resting
        /\ UNCHANGED <<store, declared, acq, user, made, saved>>
        /\ box' = NoFiles /\ forgone' = forgone \cup Present(box)
    BY <1>0 DEF ShutdownDestroys, Resting
  <1>2. store.status = "active" /\ task[k].files = NoFiles /\ store.recovery = NoFiles
    BY <1>0, <1>1 DEF CalmInv, TaskInv, StoreInv
  <1>3. PICK t \in Task :
          /\ task' = [task EXCEPT ![k] = t]
          /\ t.pc = "record" /\ t.files = task[k].files /\ t.discard = task[k].discard
    <2>1. "record" \in TaskPc /\ task' = [task EXCEPT ![k].pc = "record"]
      BY <1>0 DEF ShutdownDestroys, TaskPc
    <2> QED BY <1>1, <2>1, TaskAdvances
  <1>4. task'[k] = t BY <1>1, <1>3 DEF TypeOK
  <1>5. user["tick"].pc = "idle" BY <1>0, <1>1, TakingIsAlone DEF CalmInv
  <1>6. Unsaved \subseteq Present(box) BY <1>0, <1>1, <1>2, <1>3, TaskFinds
  <1>7. Unsaved' = {} BY <1>1, <1>6 DEF Unsaved
  <1>8. TaskInv(k)' BY <1>0, <1>1, <1>2, <1>3, <1>4 DEF TaskInv
  <1>9. declared' => Clean(box)' /\ Clean(store.recovery)' /\ Clean(t.files)'
    BY <1>1, <1>2, <1>3, FilesFacts DEF CalmInv, BitInv, Clean
  <1> QED BY <1>0, <1>1, <1>2, <1>3, <1>5, <1>7, <1>8, <1>9, TaskStep

LEMMA ShutdownStartKeeps ==
    ASSUME TypeOK, CalmInv, ShutdownStart, ~Overlap'
    PROVE  CalmInv'
  <1> DEFINE k == "shutdown"
  <1>0. {"expire", "destroy", "record"} \subseteq TaskPc /\ store.recovery \in Files /\ k \in Tasks
    BY Names DEF TaskPc, TypeOK
  <1>1. PICK t \in Task :
          /\ task' = [task EXCEPT ![k] = t]
          /\ \/ Expired /\ t.pc = "expire" /\ t.files = store.recovery
             \/ store.status = "active" /\ t.pc = "destroy" /\ t.files = NoFiles
             \/ store.recovery # NoFiles /\ t.pc = "record" /\ t.files = store.recovery
    <2>1. ASSUME NEW pc \in {"expire", "record"},
                 \/ Expired /\ pc = "expire"
                 \/ store.recovery # NoFiles /\ pc = "record",
                 task' = [task EXCEPT ![k] = [NoTask EXCEPT !.pc = pc, !.files = store.recovery]]
          PROVE  \E t \in Task :
                   /\ task' = [task EXCEPT ![k] = t] /\ t.files = store.recovery
                   /\ \/ Expired /\ t.pc = "expire"
                      \/ store.recovery # NoFiles /\ t.pc = "record"
      <3> DEFINE t == [NoTask EXCEPT !.pc = pc, !.files = store.recovery]
      <3>1. t \in Task /\ t.pc = pc /\ t.files = store.recovery BY <1>0, NoTaskFacts DEF Task
      <3>2. task' = [task EXCEPT ![k] = t] BY <2>1
      <3> HIDE DEF t
      <3> QED BY <2>1, <3>1, <3>2
    <2>2. CASE Expired /\ task' = [task EXCEPT ![k] = [NoTask EXCEPT !.pc = "expire",
                                                                     !.files = store.recovery]]
      BY <2>1, <2>2
    <2>4. CASE /\ store.recovery # NoFiles
               /\ task' = [task EXCEPT ![k] = [NoTask EXCEPT !.pc = "record",
                                                             !.files = store.recovery]]
      BY <2>1, <2>4
    <2>3. CASE /\ store.status = "active"
               /\ task' = [task EXCEPT ![k] = [NoTask EXCEPT !.pc = "destroy"]]
      <3> DEFINE t == [NoTask EXCEPT !.pc = "destroy"]
      <3>1. t \in Task /\ t.pc = "destroy" /\ t.files = NoFiles BY <1>0, NoTaskFacts DEF Task
      <3>2. task' = [task EXCEPT ![k] = t] BY <2>3
      <3> HIDE DEF t
      <3> QED BY <2>3, <3>1, <3>2
    <2> QED BY <2>2, <2>3, <2>4 DEF ShutdownStart
  <1>2. /\ t.pc \notin Resting /\ task[k].pc = "idle" /\ Unsaved' = Unsaved
        /\ UNCHANGED <<store, declared, box, acq, user, made, saved, forgone>>
    BY <1>1 DEF ShutdownStart, Resting, Unsaved
  <1>3. task'[k] = t BY <1>0, <1>1 DEF TypeOK
  <1>4. TaskInv(k)' BY <1>1, <1>2, <1>3 DEF TaskInv, Expired
  <1>5. /\ store.status = "recoverable" => Unsaved \subseteq store.recovery
        /\ store.status # "recoverable" => Unsaved \subseteq Present(box)
        /\ user["tick"].pc = "idle"
    BY <1>0, <1>1, <1>2, TaskFinds
  <1>6. declared' => Clean(box)' /\ Clean(store.recovery)' /\ Clean(t.files)'
    BY <1>1, <1>2, FilesFacts DEF CalmInv, BitInv, Clean
  <1>7. store'.recovery # NoFiles <=> store'.status = "recoverable" BY <1>2 DEF CalmInv, StoreInv
  <1> QED BY <1>0, <1>1, <1>2, <1>4, <1>5, <1>6, <1>7, TaskStep

-------------------------------------------------------------------------------
(* The environment.                                                        *)

LEMMA WindowEndsKeeps ==
    ASSUME TypeOK, CalmInv, WindowEnds, ~Overlap'
    PROVE  CalmInv'
  <1>1. /\ UNCHANGED <<declared, box, acq, user, task, made, saved, forgone>>
        /\ store'.status = store.status /\ store'.recovery = store.recovery
        /\ Unsaved' = Unsaved
    BY DEF WindowEnds, Unsaved, TypeOK
  <1>2. TickInv' /\ StoreInv' BY <1>1 DEF CalmInv, TickInv, StoreInv
  <1>3. \A h \in Holders : AcqInv(h)' BY <1>1 DEF CalmInv, AcqInv
  <1>4. \A k \in Tasks : TaskInv(k)' BY <1>1 DEF CalmInv, TaskInv
  <1>5. HomeInv' BY <1>1 DEF CalmInv, HomeInv
  <1>6. BitInv' BY <1>1 DEF CalmInv, BitInv, Clean
  <1> QED BY <1>2, <1>3, <1>4, <1>5, <1>6 DEF CalmInv

\* The provider gives up what the container holds, and nothing else.
LEMMA LoseKeeps ==
    ASSUME TypeOK, CalmInv, Lose, ~Overlap'
    PROVE  CalmInv'
  <1>1. /\ UNCHANGED <<store, declared, acq, user, task, made, saved>>
        /\ box' = NoFiles /\ Present(box) = box /\ forgone' = forgone \cup box
    BY DEF Lose, Present
  <1>2. Unsaved' \subseteq Unsaved /\ (Unsaved \subseteq Present(box) => Unsaved' = {})
    BY <1>1 DEF Unsaved
  <1>3. TickInv' /\ StoreInv' BY <1>1 DEF CalmInv, TickInv, StoreInv
  <1>4. \A h \in Holders : AcqInv(h)' BY <1>1, <1>2 DEF CalmInv, AcqInv
  <1>5. \A k \in Tasks : TaskInv(k)' BY <1>1, <1>2 DEF CalmInv, TaskInv
  <1>6. HomeInv' BY <1>1, <1>2 DEF CalmInv, HomeInv
  <1>7. BitInv' BY <1>1, FilesFacts DEF CalmInv, BitInv, Clean
  <1> QED BY <1>3, <1>4, <1>5, <1>6, <1>7 DEF CalmInv

\* A restart forgets every call, acquisition and task; only a backup that is not
\* yet in the store would be lost with them.
LEMMA CrashKeeps ==
    ASSUME TypeOK, CalmInv, Crash, ~Overlap', ~Torn
    PROVE  CalmInv'
  <1>1. /\ UNCHANGED <<store, declared, box, made, saved, forgone>> /\ Unsaved' = Unsaved
        /\ \A h \in Holders : acq'[h].pc = "none"
        /\ \A u \in Users : user'[u].pc = "idle" /\ user'[u].inst = user[u].inst
        /\ \A k \in Tasks : task'[k].pc = "idle" /\ task'[k].files = NoFiles
    BY DEF Crash, NoAcq, NoTask, Unsaved, TypeOK
  <1>2. \A k \in Tasks \ {"shutdown"} : task[k].pc # "record" BY <1>1 DEF Torn
  <1>3. /\ store.status = "recoverable" => Unsaved \subseteq store.recovery
        /\ store.status # "recoverable" => Unsaved \subseteq Present(box)
    BY <1>2, AtHome
  <1>4. TickInv' BY <1>1, Names DEF CalmInv, TickInv
  <1>5. StoreInv' BY <1>1 DEF CalmInv, StoreInv
  <1>6. \A h \in Holders : AcqInv(h)' BY <1>1 DEF AcqInv
  <1>7. \A k \in Tasks : TaskInv(k)' BY <1>1 DEF TaskInv
  <1>8. HomeInv' BY <1>1, <1>3 DEF HomeInv
  <1>9. BitInv' BY <1>1, FilesFacts, Names DEF CalmInv, BitInv, Clean
  <1> QED BY <1>4, <1>5, <1>6, <1>7, <1>8, <1>9 DEF CalmInv

-------------------------------------------------------------------------------
(* The theorems.                                                           *)

LEMMA StepKeeps ==
    ASSUME TypeOK, CalmInv, Step, ~Overlap', ~Torn
    PROVE  CalmInv'
  <1>1. CASE \E u \in Users : Ensure(u) \/ GiveUp(u)
    BY <1>1, EnsureKeeps, GiveUpKeeps
  <1>2. CASE \E h \in Holders :
                \/ AcqExpire(h) \/ AcqRead(h) \/ AcqCreates(h) \/ AcqCreateFails(h)
                \/ AcqMarks(h) \/ AcqDone(h) \/ AcqNonceFails(h) \/ AcqFailed(h)
    BY <1>2, AcqExpireKeeps, AcqReadKeeps, AcqCreatesKeeps, AcqFailsKeeps, AcqMarksKeeps,
       AcqResolvesKeeps
  <1>3. CASE \/ \E c \in Callers : CallStart(c) \/ RunEdit(c) \/ RunPush(c) \/ RunMissing(c)
             \/ ConfirmStart \/ ConfirmProbe \/ ConfirmDeclare
    BY <1>3, CallStartKeeps, RunKeeps, RunMissingKeeps, ConfirmKeeps
  <1>4. CASE \/ TickStart \/ TickDeclared \/ TickProbed
             \/ ReclaimStart \/ ReclaimCheck \/ ReclaimBegins
             \/ ShutdownStart \/ ShutdownDestroys
    BY <1>4, TickStartKeeps, TickDeclaredKeeps, TickProbedKeeps, ReclaimKeeps,
       ShutdownStartKeeps, ShutdownDestroysKeeps
  <1>5. CASE \E k \in Tasks :
                \/ Backup(k) \/ Destroy(k) \/ ReleaseFails(k) \/ Record(k)
                \/ TailDone(k) \/ TailFails(k) \/ GivenUp(k)
    BY <1>5, BackupKeeps, DestroyKeeps, ReleaseFailsKeeps, RecordKeeps, TailKeeps, GivenUpKeeps
  <1>6. CASE WindowEnds \/ Lose \/ Crash
    BY <1>6, WindowEndsKeeps, LoseKeeps, CrashKeeps
  <1> QED BY <1>1, <1>2, <1>3, <1>4, <1>5, <1>6 DEF Step

LEMMA Initially == Init => IInv
  <1> SUFFICES ASSUME Init PROVE IInv OBVIOUS
  <1>1. /\ store = [status |-> "absent", recovery |-> NoFiles, expired |-> FALSE]
        /\ declared = FALSE /\ box = NoFiles /\ made = 0 /\ saved = {} /\ forgone = {}
        /\ \A h \in Holders : acq[h] = [pc |-> "none", recovery |-> NoFiles]
        /\ \A u \in Users : user[u].pc = "idle" /\ user[u].inst \in Holders
        /\ \A u \in Users : u \in Holders => user[u].inst = u
        /\ \A u \in Callers : user[u].inst \in Instances
        /\ \A k \in Tasks : task[k] = [pc |-> "idle", discard |-> FALSE, files |-> NoFiles]
        /\ user \in [Users -> [pc : UserPc, inst : Holders]]
    BY DEF Init, NoAcq, NoTask, UserPc
  <1>2. TypeOK
    <2>1. store \in [status : Status, recovery : Files, expired : BOOLEAN]
      BY <1>1, FilesFacts DEF Status
    <2>2. acq \in [Holders -> [pc : AcqPc, recovery : Files]]
      BY FilesFacts DEF Init, NoAcq, AcqPc
    <2>3. task \in [Tasks -> [pc : TaskPc, discard : BOOLEAN, files : Files]]
      BY NoTaskFacts DEF Init, Task
    <2>4. /\ made \in 0..MaxWork
          /\ faults \in [failures : 0..MaxFailures, losses : 0..MaxLosses]
      BY LifecycleConstants DEF Init
    <2>5. disturbed \in BOOLEAN BY DEF Init
    <2> QED BY <1>1, <2>1, <2>2, <2>3, <2>4, <2>5, FilesFacts DEF TypeOK
  <1>3. Unsaved = {} /\ Clean(NoFiles) BY <1>1, FilesFacts DEF Unsaved, Clean
  <1>4. TickInv
    <2>1. Users = Callers \cup {"tick", "confirm"} BY DEF Users
    <2> QED BY <1>1, <2>1, Names DEF TickInv
  <1>5. StoreInv /\ \A h \in Holders : AcqInv(h) BY <1>1 DEF StoreInv, AcqInv
  <1>6. \A k \in Tasks : TaskInv(k) BY <1>1 DEF TaskInv
  <1>7. HomeInv BY <1>1, <1>3 DEF HomeInv
  <1>8. BitInv BY <1>1, Names DEF BitInv
  <1>9. ~Overlap BY <1>1, Names DEF Overlap, Several, Taking, Acquiring, Busy
  <1> QED BY <1>2, <1>4, <1>5, <1>6, <1>7, <1>8, <1>9 DEF IInv, CalmInv

LEMMA NextKeeps ==
    ASSUME IInv, [Next]_vars
    PROVE  IInv'
  <1>1. CASE Next
    <2>1. disturbed \in BOOLEAN /\ TypeOK BY DEF IInv, TypeOK
    <2>2. disturbed' \in BOOLEAN
      <3>1. (disturbed \/ Overlap' \/ Torn) \in BOOLEAN OBVIOUS
      <3> QED BY <1>1, <3>1, Zenon DEF Next
    <2>3. Step BY <1>1 DEF Next
    <2>4. TypeOK' BY <2>1, <2>2, <2>3, StepType
    <2>5. ASSUME ~disturbed' PROVE CalmInv'
      <3>1. ~disturbed /\ ~Overlap' /\ ~Torn BY <1>1, <2>5, Zenon DEF Next
      <3> QED BY <2>1, <2>3, <3>1, StepKeeps DEF IInv
    <2> QED BY <2>4, <2>5 DEF IInv
  <1>2. CASE UNCHANGED vars
    <2>1. TypeOK' BY <1>2 DEF IInv, TypeOK, vars
    <2>2. CalmInv => CalmInv'
      BY <1>2 DEF vars, CalmInv, TickInv, StoreInv, AcqInv, TaskInv, HomeInv, BitInv, Clean,
                  Unsaved, Overlap, Several, Taking, Acquiring, Busy, Present
    <2>3. disturbed' = disturbed BY <1>2 DEF vars
    <2> QED BY <2>1, <2>2, <2>3 DEF IInv
  <1> QED BY <1>1, <1>2

\* The invariant is inductive: whatever the steps interleave, until two of them
\* overlap in a way the code does not exclude.
THEOREM Inductive == Spec => []IInv
  <1> QED BY Initially, NextKeeps, PTL DEF Spec

\* Every variable keeps to its type, overlapping steps included.
THEOREM TypeCorrect == Spec => []TypeOK
  <1>1. IInv => TypeOK BY DEF IInv
  <1> QED BY <1>1, Inductive, PTL

\* No failure of the provider or of D1, no deadline of a caller, no restart and
\* no lost container loses work in silence (releaseIfIdle, readOrAcquireRuntime).
THEOREM WorkNeverLost == Spec => []WorkSurvives
  <1>1. IInv => WorkSurvives
    <2> SUFFICES ASSUME IInv, ~disturbed PROVE Unsaved \subseteq Reach
      BY DEF WorkSurvives, Unsaved
    <2>1. CalmInv BY DEF IInv
    <2>2. CASE store.status = "recoverable" BY <2>1, <2>2 DEF CalmInv, HomeInv, Reach
    <2>3. CASE store.status # "recoverable"
      <3>1. Reach = Present(box) \cup UNION {Present(task[k].files) : k \in Tasks}
        BY <2>3 DEF Reach
      <3>2. CASE Unsaved \subseteq Present(box) BY <3>1, <3>2
      <3>3. CASE \E k \in Tasks \ {"shutdown"} : task[k].pc = "record"
        <4>1. PICK k \in Tasks \ {"shutdown"} : task[k].pc = "record" BY <3>3
        <4>2. Unsaved \subseteq Present(task[k].files) BY <2>1, <4>1 DEF CalmInv, TaskInv
        <4> QED BY <3>1, <4>2
      <3> QED BY <2>1, <2>3, <3>2, <3>3 DEF CalmInv, HomeInv
    <2> QED BY <2>2, <2>3
  <1> QED BY <1>1, Inductive, PTL

\* A set clean bit speaks of files that are all saved (confirm_work_saved).
THEOREM CleanBitIsHonest == Spec => []BitIsHonest
  <1>1. IInv => BitIsHonest BY DEF IInv, CalmInv, BitInv, BitIsHonest
  <1> QED BY <1>1, Inductive, PTL
===============================================================================
