--------------------------- MODULE AutomataFiring ---------------------------
(***************************************************************************)
(* The automaton scheduler: the cron tick that fires due automata, the     *)
(* "run now" route, the service's update, and the thread events that close *)
(* a run.  Two tables of the registry are the shared state: `automata'     *)
(* (one row per automaton, with the instant it is next due) and            *)
(* `automaton_runs' (one row per claimed, skipped or manual run).          *)
(*                                                                         *)
(* Every D1 statement is one step and a Worker invocation may die or meet  *)
(* a D1 error between any two of them.  Cron delivers ticks that overlap:  *)
(* the tick of this minute may still be working when the next one starts.  *)
(*                                                                         *)
(* A schedule is [kind, arg]: "cron" fires at every multiple of arg,       *)
(* "once" fires at the instant arg, "corrupt" does not parse.  A due       *)
(* instant of 0 is the NULL of the column.                                 *)
(***************************************************************************)
EXTENDS Integers, Sequences, FiniteSets

CONSTANTS
  Automata,        \* ids of the `automata' rows
  Workers,         \* Worker invocations that may be in flight at once
  Updates,         \* updates of the service that may be in progress at once
  Schedules,       \* the schedules a user may set
  Batch,           \* AUTOMATON_FIRE_BATCH
  Grace,           \* AUTOMATON_GRACE_MS
  QueuedTimeout,   \* AUTOMATON_QUEUED_TIMEOUT_MS
  RunningTimeout,  \* AUTOMATON_RUNNING_TIMEOUT_MS
  MaxNow,          \* bound: the clock stops here
  MaxFaults,       \* bound: invocations that die and statements that fail
  MaxManual,       \* bound: manual runs
  MaxEdits         \* bound: updates of the service

Kinds == {"cron", "once", "corrupt"}
Schedule == [kind: Kinds, arg: Nat \ {0}]

ASSUME SchedulesAssumption == Schedules \subseteq Schedule
ASSUME TimesAssumption ==
  Batch \in Nat \ {0} /\ {Grace, QueuedTimeout, RunningTimeout, MaxNow} \subseteq Nat
ASSUME BoundsAssumption == {MaxFaults, MaxManual, MaxEdits} \subseteq Nat

VARIABLES
  now,        \* Date.now()
  automata,   \* [a -> row of `automata']
  runs,       \* rows of `automaton_runs', in the order they were inserted
  job,        \* [w -> what the invocation w is doing and what it has read]
  edit,       \* [u -> the update u in progress and what it has read, or NoEdit]
  crossed,    \* history: automata whose update overlapped a tick holding them
  clashed,    \* history: automata two of whose updates overlapped
  faults, manuals, edits   \* counters against the bounds

vars == <<now, automata, runs, job, edit, crossed, clashed, faults, manuals, edits>>

Unfinished == {"queued", "running"}
\* "ended" stands for completed and waiting_for_approval.
Terminal == {"ended", "failed", "skipped"}

Row == [automaton: Automata, due: Nat, trigger: {"scheduled", "manual"},
        status: Unfinished \cup Terminal, touched: Nat, begun: BOOLEAN]

AutomatonRow == [enabled: BOOLEAN, archived: BOOLEAN, sched: Schedule, due: Nat]

\* What a tick keeps of a row it listed.
Item == [automaton: Automata, sched: Schedule, due: Nat]

\* The item of an invocation that works on none.
NoItem == [automaton |-> "none", sched |-> "none", due |-> 0]

Pcs == {"idle", "reap", "list", "loop", "skip", "fire", "begin", "fail", "advance"}

\* Date.now() when the tick started, the rest of its batch, the item in hand
\* and the run it claimed.
Job == [pc: Pcs, at: Nat, queue: SUBSET Item, cur: Item \cup {NoItem}, run: Nat]

Idle == [pc |-> "idle", at |-> 0, queue |-> {}, cur |-> NoItem, run |-> 0]

NoEdit == [open |-> FALSE]
Edit == [open: {TRUE}, automaton: Automata, enabled: BOOLEAN, sched: Schedule]

-----------------------------------------------------------------------------
(* Schedules and rows *)

\* computeNextDueAt: exclusive of `after'.
NextDue(s, after) == IF s.kind = "once" THEN s.arg ELSE s.arg * ((after \div s.arg) + 1)

\* A one-shot instant that has passed, or a schedule that does not parse, throws.
Computable(s, after) == s.kind = "cron" \/ (s.kind = "once" /\ s.arg > after)

Scheduled(a) == {i \in DOMAIN runs : runs[i].automaton = a /\ runs[i].trigger = "scheduled"}

\* Variant: the index covers unfinished runs only.
TakenByUnfinished(a, d) ==
  \E i \in Scheduled(a) : runs[i].due = d /\ runs[i].status \in Unfinished

\* The partial unique index on (automaton_id, due_at).
Taken(a, d) == \E i \in Scheduled(a) : runs[i].due = d

\* Variant: a claimed run that has not started is no overlap.
HasRunningRun(a) ==
  \E i \in DOMAIN runs : runs[i].automaton = a /\ runs[i].status = "running"

HasUnfinishedRun(a) ==
  \E i \in DOMAIN runs : runs[i].automaton = a /\ runs[i].status \in Unfinished

Due(at) ==
  {a \in Automata : /\ automata[a].enabled
                    /\ ~automata[a].archived
                    /\ automata[a].due # 0
                    /\ automata[a].due <= at}

ItemOf(a) == [automaton |-> a, sched |-> automata[a].sched, due |-> automata[a].due]

\* Items of automaton a that invocation w still has to settle.
Holds(w, a) ==
  \/ \E i \in job[w].queue : i.automaton = a
  \/ job[w].cur.automaton = a /\ job[w].cur.due # 0

Fault == faults < MaxFaults /\ faults' = faults + 1

\* Variant: the update does not look at the status it finds.
MoveAnyway(i, from, s) ==
  [runs EXCEPT ![i].status = s, ![i].touched = IF s \in Unfinished THEN now ELSE 0]

\* Give run i status s, from the statuses in `from' only.  updatedAt is read
\* of unfinished rows alone, so it is 0 in a row that ended.
Move(i, from, s) ==
  IF runs[i].status \in from
  THEN [runs EXCEPT ![i].status = s, ![i].touched = IF s \in Unfinished THEN now ELSE 0]
  ELSE runs

NewRun(a, d, trigger, status) ==
  Append(runs, [automaton |-> a, due |-> d, trigger |-> trigger, status |-> status,
                touched |-> IF status \in Unfinished THEN now ELSE 0, begun |-> FALSE])

\* The updates of a that are between their read and their write.
Open(a) == {u \in Updates : edit[u].open /\ edit[u].automaton = a}

\* A write of the tick to row a while an update of a is open.
CrossIfEdited(a) == crossed' = IF Open(a) # {} THEN crossed \cup {a} ELSE crossed

-----------------------------------------------------------------------------
(* The cron tick: fireDueAutomata *)

At(w, pc) == job[w].pc = pc

StartTick(w) ==
  /\ At(w, "idle")
  /\ job' = [job EXCEPT ![w] = [Idle EXCEPT !.pc = "reap", !.at = now]]
  /\ UNCHANGED <<now, automata, runs, edit, crossed, clashed, faults, manuals, edits>>

\* reapStaleRuns: one statement for the running rows, one for the queued ones.
Reaped(w, statuses) ==
  [i \in DOMAIN runs |->
     IF /\ runs[i].status \in statuses
        /\ runs[i].touched <
             job[w].at - (IF runs[i].status = "running" THEN RunningTimeout ELSE QueuedTimeout)
     THEN [runs[i] EXCEPT !.status = "failed", !.touched = 0]
     ELSE runs[i]]

Reap(w) ==
  /\ At(w, "reap")
  /\ \/ runs' = Reaped(w, Unfinished) /\ UNCHANGED faults
     \/ Fault /\ \E done \in {{}, {"running"}} : runs' = Reaped(w, done)
  /\ job' = [job EXCEPT ![w].pc = "list"]
  /\ UNCHANGED <<now, automata, edit, crossed, clashed, manuals, edits>>

\* listDue: the Batch rows that are longest due, as they are now.
List(w) ==
  /\ At(w, "list")
  /\ \E Q \in SUBSET Due(job[w].at) :
       /\ Cardinality(Q) <= Batch
       /\ Cardinality(Q) < Batch => Q = Due(job[w].at)
       /\ \A a \in Q, b \in Due(job[w].at) \ Q : automata[a].due <= automata[b].due
       /\ job' = [job EXCEPT ![w].pc = "loop", ![w].queue = {ItemOf(a) : a \in Q}]
  /\ UNCHANGED <<now, automata, runs, edit, crossed, clashed, faults, manuals, edits>>

TickEnds(w) ==
  /\ At(w, "loop") /\ job[w].queue = {}
  /\ job' = [job EXCEPT ![w] = Idle]
  /\ UNCHANGED <<now, automata, runs, edit, crossed, clashed, faults, manuals, edits>>

\* The next item of the batch: disabled when its schedule does not parse, else
\* findUnfinishedRun is read and decideDueAction decides on it.
Oldest(w) == {i \in job[w].queue : \A j \in job[w].queue : i.due <= j.due}

Decision(w, i) ==
  IF HasUnfinishedRun(i.automaton) THEN "skip"
  ELSE IF job[w].at - i.due > Grace THEN "skip"
  ELSE "fire"

Look(w) ==
  /\ At(w, "loop")
  /\ \E i \in Oldest(w) :
       /\ i.sched.kind # "corrupt"
       /\ job' = [job EXCEPT ![w].queue = @ \ {i}, ![w].cur = i, ![w].pc = Decision(w, i)]
  /\ UNCHANGED <<now, automata, runs, edit, crossed, clashed, faults, manuals, edits>>

DisableCorrupt(w) ==
  /\ At(w, "loop")
  /\ \E i \in Oldest(w) :
       /\ i.sched.kind = "corrupt"
       /\ automata' = [automata EXCEPT ![i.automaton].enabled = FALSE]
       /\ CrossIfEdited(i.automaton)
       /\ job' = [job EXCEPT ![w].queue = @ \ {i}]
  /\ UNCHANGED <<now, runs, edit, clashed, faults, manuals, edits>>

\* Go on with the batch; a manual run has none.
Proceed(w) == [job EXCEPT ![w].pc = "loop", ![w].cur = NoItem, ![w].run = 0]
Cur(w) == job[w].cur

\* Variant: a row that is there already fails the item.
SkipRowStrictly(w) ==
  /\ At(w, "skip")
  /\ IF Taken(Cur(w).automaton, Cur(w).due)
     THEN runs' = runs /\ job' = Proceed(w)
     ELSE /\ runs' = NewRun(Cur(w).automaton, Cur(w).due, "scheduled", "skipped")
          /\ job' = [job EXCEPT ![w].pc = "advance"]
  /\ UNCHANGED <<now, automata, edit, crossed, clashed, faults, manuals, edits>>

\* A skip is recorded; a row that is there already will do.
SkipRow(w) ==
  /\ At(w, "skip")
  /\ runs' = IF Taken(Cur(w).automaton, Cur(w).due) THEN runs
             ELSE NewRun(Cur(w).automaton, Cur(w).due, "scheduled", "skipped")
  /\ job' = [job EXCEPT ![w].pc = "advance"]
  /\ UNCHANGED <<now, automata, edit, crossed, clashed, faults, manuals, edits>>

\* The claim: the insert succeeds for one tick only.
Claim(w) ==
  /\ At(w, "fire")
  /\ ~Taken(Cur(w).automaton, Cur(w).due)
  /\ runs' = NewRun(Cur(w).automaton, Cur(w).due, "scheduled", "queued")
  /\ job' = [job EXCEPT ![w].pc = "begin", ![w].run = Len(runs) + 1]
  /\ UNCHANGED <<now, automata, edit, crossed, clashed, faults, manuals, edits>>

\* "Another tick already claimed this due": the schedule is left alone.
ClaimConflict(w) ==
  /\ At(w, "fire")
  /\ Taken(Cur(w).automaton, Cur(w).due)
  /\ job' = Proceed(w)
  /\ UNCHANGED <<now, automata, runs, edit, crossed, clashed, faults, manuals, edits>>

\* Variant: the invocation of a manual run keeps its item.
AfterStartKeepingItem(w) ==
  [job EXCEPT ![w].pc = IF Cur(w).due = 0 THEN "idle" ELSE "advance"]

\* Where a started run goes next: a manual one is answered, a scheduled one
\* advances its schedule.
AfterStart(w) ==
  IF Cur(w).due = 0 THEN [job EXCEPT ![w] = Idle] ELSE [job EXCEPT ![w].pc = "advance"]

\* Agent, thread and turn: either the submission is durable and the call
\* returns, or something throws, before or after the submission was stored.
\* (An invocation that dies here is this failure followed by Crash.)
Begin(w) ==
  /\ At(w, "begin")
  /\ \/ /\ runs' = [runs EXCEPT ![job[w].run].begun = TRUE]
        /\ job' = AfterStart(w)
     \/ /\ \E stored \in BOOLEAN : runs' = [runs EXCEPT ![job[w].run].begun = stored]
        /\ job' = [job EXCEPT ![w].pc = "fail"]
  /\ UNCHANGED <<now, automata, edit, crossed, clashed, faults, manuals, edits>>

\* failRun, then AutomatonRunFailedAfterClaim: the schedule advances all the same.
FailRun(w) ==
  /\ At(w, "fail")
  /\ runs' = Move(job[w].run, Unfinished, "failed")
  /\ job' = AfterStart(w)
  /\ UNCHANGED <<now, automata, edit, crossed, clashed, faults, manuals, edits>>

\* advanceSchedule / disableAfterOnceFire, computed from the row as it was
\* listed and written whatever the row says now.
Advanced(row, i) ==
  IF i.sched.kind = "once" THEN [row EXCEPT !.enabled = FALSE, !.due = 0]
  ELSE [row EXCEPT !.due = NextDue(i.sched, i.due)]

Advance(w) ==
  /\ At(w, "advance")
  /\ automata' = [automata EXCEPT ![Cur(w).automaton] = Advanced(@, Cur(w))]
  /\ CrossIfEdited(Cur(w).automaton)
  /\ job' = Proceed(w)
  /\ UNCHANGED <<now, runs, edit, clashed, faults, manuals, edits>>

\* A statement of the item throws: the item is left for a later tick.
Drop(w) ==
  /\ Fault
  /\ \/ /\ At(w, "loop")
        /\ \E i \in Oldest(w) : job' = [job EXCEPT ![w].queue = @ \ {i}]
     \/ /\ job[w].pc \in {"skip", "fire", "fail", "advance"} /\ Cur(w).due # 0
        /\ job' = Proceed(w)
  /\ UNCHANGED <<now, automata, runs, edit, crossed, clashed, manuals, edits>>

\* The invocation dies.
Crash(w) ==
  /\ Fault
  /\ ~At(w, "idle")
  /\ job' = [job EXCEPT ![w] = Idle]
  /\ UNCHANGED <<now, automata, runs, edit, crossed, clashed, manuals, edits>>

\* runAutomatonNow: a manual run, with no due instant and no overlap check.
RunNow(w) ==
  /\ At(w, "idle") /\ manuals < MaxManual
  /\ \E a \in Automata :
       /\ ~automata[a].archived
       /\ runs' = NewRun(a, 0, "manual", "queued")
       /\ job' = [job EXCEPT ![w] =
            [Idle EXCEPT !.pc = "begin", !.run = Len(runs) + 1,
                         !.cur = [ItemOf(a) EXCEPT !.due = 0]]]
  /\ manuals' = manuals + 1
  /\ UNCHANGED <<now, automata, edit, crossed, clashed, faults, edits>>

-----------------------------------------------------------------------------
(* The thread of a run *)

\* The start and the end of every turn of the thread are reported, the turns
\* that follow a user's reply included; a report may be lost.
TurnStarts(i) ==
  /\ runs[i].begun
  /\ runs' = Move(i, {"queued"}, "running")
  /\ UNCHANGED <<now, automata, job, edit, crossed, clashed, faults, manuals, edits>>

TurnEnds(i) ==
  /\ runs[i].begun
  /\ \E s \in {"ended", "failed"} : runs' = Move(i, Unfinished, s)
  /\ UNCHANGED <<now, automata, job, edit, crossed, clashed, faults, manuals, edits>>

-----------------------------------------------------------------------------
(* The user *)

\* AutomatonService.update reads the row and validates over several awaits;
\* nothing keeps another update of the row from doing the same ...
EditRead(u, a) ==
  /\ ~edit[u].open /\ ~automata[a].archived
  /\ edits < MaxEdits /\ edits' = edits + 1
  /\ edit' = [edit EXCEPT ![u] =
       [open |-> TRUE, automaton |-> a,
        enabled |-> automata[a].enabled, sched |-> automata[a].sched]]
  /\ UNCHANGED <<now, automata, runs, job, crossed, clashed, faults, manuals>>

\* Variant: a new schedule waits for the old schedule's instant.
PatchedKeepingDue(row, seen, newSched, retimed, enable) ==
  [row EXCEPT !.sched = IF newSched = {} THEN @ ELSE CHOOSE s \in newSched : TRUE,
              !.enabled = IF enable = {} THEN @ ELSE TRUE \in enable,
              !.due = IF retimed \/ (enable = {TRUE} /\ ~seen.enabled)
                      THEN NextDue(seen.sched, now) ELSE @]

\* The patch has a schedule or a time zone, or flips the row, as read, to enabled.
Recomputes(seen, newSched, retimed, enable) ==
  newSched # {} \/ retimed \/ (enable = {TRUE} /\ ~seen.enabled)

\* ... and writes the fields of the patch; the due instant, recomputed from the
\* schedule of the patch or else the one it read, may be one of them.
Patched(row, seen, newSched, retimed, enable) ==
  LET sched == IF newSched = {} THEN seen.sched ELSE CHOOSE s \in newSched : TRUE
  IN [row EXCEPT !.sched = IF newSched = {} THEN @ ELSE sched,
                 !.enabled = IF enable = {} THEN @ ELSE TRUE \in enable,
                 !.due = IF Recomputes(seen, newSched, retimed, enable)
                         THEN NextDue(sched, now) ELSE @]

Accepted(seen, newSched, retimed, enable) ==
  /\ newSched # {} \/ retimed \/ enable # {}
  /\ \A s \in newSched : Computable(s, now)
  /\ newSched = {} /\ Recomputes(seen, newSched, retimed, enable) =>
       Computable(seen.sched, now)

EditWrite(u) ==
  /\ edit[u].open
  /\ LET a == edit[u].automaton IN
       /\ \E newSched \in {{}} \cup {{s} : s \in Schedules}, retimed \in BOOLEAN,
             enable \in {{}, {TRUE}, {FALSE}} :
            /\ newSched = {} \/ ~retimed  \* a zone beside a schedule changes nothing more
            /\ Accepted(edit[u], newSched, retimed, enable)
            /\ automata' = [automata EXCEPT
                 ![a] = Patched(@, edit[u], newSched, retimed, enable)]
       /\ crossed' = IF \E w \in Workers : Holds(w, a) THEN crossed \cup {a} ELSE crossed
       /\ clashed' = IF Open(a) # {u} THEN clashed \cup {a} ELSE clashed
  /\ edit' = [edit EXCEPT ![u] = NoEdit]
  /\ UNCHANGED <<now, runs, job, faults, manuals, edits>>

\* The patch is refused, or has none of these fields.
EditRefused(u) ==
  /\ edit[u].open
  /\ edit' = [edit EXCEPT ![u] = NoEdit]
  /\ UNCHANGED <<now, automata, runs, job, crossed, clashed, faults, manuals, edits>>

Archive(a) ==
  /\ ~automata[a].archived
  /\ automata' = [automata EXCEPT ![a].archived = TRUE]
  /\ UNCHANGED <<now, runs, job, edit, crossed, clashed, faults, manuals, edits>>

Clock ==
  /\ now < MaxNow
  /\ now' = now + 1
  /\ UNCHANGED <<automata, runs, job, edit, crossed, clashed, faults, manuals, edits>>

-----------------------------------------------------------------------------
(* create: a new row is enabled or not and due at its first occurrence. *)
Init ==
  /\ now = 0
  /\ automata \in
       [Automata -> {[enabled |-> e, archived |-> FALSE, sched |-> s, due |-> NextDue(s, 0)] :
                       e \in BOOLEAN, s \in Schedules}]
  /\ runs = <<>>
  /\ job = [w \in Workers |-> Idle]
  /\ edit = [u \in Updates |-> NoEdit]
  /\ crossed = {} /\ clashed = {}
  /\ faults = 0 /\ manuals = 0 /\ edits = 0

Works(w) ==
  \/ Reap(w) \/ List(w) \/ TickEnds(w) \/ Look(w) \/ DisableCorrupt(w)
  \/ SkipRow(w) \/ Claim(w) \/ ClaimConflict(w) \/ Begin(w) \/ FailRun(w) \/ Advance(w)

Next ==
  \/ \E w \in Workers : StartTick(w) \/ Works(w) \/ Drop(w) \/ Crash(w) \/ RunNow(w)
  \/ \E i \in DOMAIN runs : TurnStarts(i) \/ TurnEnds(i)
  \/ \E u \in Updates : EditWrite(u) \/ EditRefused(u) \/ \E a \in Automata : EditRead(u, a)
  \/ \E a \in Automata : Archive(a)
  \/ Clock

Spec == Init /\ [][Next]_vars

\* Cron fires every minute, an invocation runs to its end unless it dies, and
\* time passes.  Nothing is assumed of the threads or of the users.
Fairness ==
  /\ WF_vars(Clock)
  /\ \A w \in Workers : WF_vars(StartTick(w)) /\ WF_vars(Works(w))

FairSpec == Spec /\ Fairness

-----------------------------------------------------------------------------
(* Properties *)

TypeOK ==
  /\ now \in Nat
  /\ automata \in [Automata -> AutomatonRow]
  /\ runs \in Seq(Row)
  /\ job \in [Workers -> Job]
  /\ \A w \in Workers :
       /\ job[w].pc \in {"begin", "fail"} => job[w].run \in DOMAIN runs
       /\ job[w].pc \in {"skip", "fire", "begin", "fail", "advance"} => job[w].cur \in Item
       /\ job[w].pc = "idle" => job[w] = Idle
  /\ edit \in [Updates -> Edit \cup {NoEdit}]
  /\ crossed \subseteq Automata /\ clashed \subseteq Automata
  /\ faults \in Nat /\ manuals \in Nat /\ edits \in Nat

\* A due instant starts one thread at most, however many ticks see it due,
\* die after claiming it or come back late: the claim is the only way to a turn
\* and it is never given back.
OneTurnPerDue ==
  \A a \in Automata : \A i, j \in Scheduled(a) :
    runs[i].due = runs[j].due /\ runs[i].begun /\ runs[j].begun => i = j

Live(a) == {i \in Scheduled(a) : runs[i].status \in Unfinished}

\* The overlap check reads the runs long before the claim is written, and two
\* ticks may both find none; still an automaton never has two unfinished
\* scheduled runs, unless an update moved its schedule under a tick.
OneLiveRun ==
  \A a \in Automata : a \notin crossed => \A i, j \in Live(a) : i = j

\* The due instant of an enabled automaton belongs to its own schedule: no
\* tick writes an instant of a schedule the user has replaced, and none leaves
\* the row enabled with nothing to wait for, unless an update overlapped a tick
\* or another update.
Fits(row) ==
  /\ row.due # 0
  /\ row.sched.kind = "once" => row.due = row.sched.arg
  /\ row.sched.kind = "cron" => row.due % row.sched.arg = 0

DueFitsSchedule ==
  \A a \in Automata :
    a \notin crossed \cup clashed /\ automata[a].enabled => Fits(automata[a])

\* A run that ended stays as it ended: a reply to its thread, a late or repeated
\* event, the reaper and a failing start all leave it alone.
RunsAreFinal ==
  [][\A i \in DOMAIN runs :
       /\ runs[i].status \in Terminal => runs'[i].status = runs[i].status
       /\ runs'[i].due = runs[i].due /\ runs'[i].automaton = runs[i].automaton]_vars

\* The schedule gets past every due instant and stays past it: a tick that died
\* between its claim and the advance holds it up until the instant is stale, and
\* a late tick that turns it back does so for a while only.
PastIsLeft ==
  \A a \in Automata, d \in 1 .. MaxNow - Grace - 1 :
    <>[](automata[a].due = d => ~(automata[a].enabled /\ ~automata[a].archived))
=============================================================================
