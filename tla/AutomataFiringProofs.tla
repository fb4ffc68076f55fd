------------------------- MODULE AutomataFiringProofs -------------------------
(***************************************************************************)
(* An automaton has one unfinished scheduled run at most, and a due        *)
(* instant starts one thread at most, for any number of automata, of       *)
(* invocations in flight, of crashes and for every timeout.                *)
(***************************************************************************)
EXTENDS AutomataFiring, TLAPS

-------------------------------------------------------------------------------
(* Schedules *)

LEMMA NextDueType ==
  ASSUME NEW s \in Schedule, NEW t \in Nat
  PROVE  NextDue(s, t) \in Nat /\ NextDue(s, t) # 0
  <1>1. s.arg \in Nat \ {0} BY DEF Schedule
  <1>2. s.arg * ((t \div s.arg) + 1) > t /\ s.arg * ((t \div s.arg) + 1) \in Nat BY <1>1
  <1> QED BY <1>1, <1>2 DEF NextDue

LEMMA NextDueLater ==
  ASSUME NEW s \in Schedule, NEW t \in Nat, Computable(s, t)
  PROVE  NextDue(s, t) > t
  <1>1. s.arg \in Nat \ {0} BY DEF Schedule
  <1>2. s.arg * ((t \div s.arg) + 1) > t BY <1>1
  <1> QED BY <1>1, <1>2 DEF NextDue, Computable, Kinds

LEMMA NextDueFits ==
  ASSUME NEW s \in Schedule, NEW t \in Nat
  PROVE  /\ s.kind = "once" => NextDue(s, t) = s.arg
         /\ s.kind # "once" => NextDue(s, t) % s.arg = 0 /\ NextDue(s, t) > t
  <1>1. s.arg \in Nat \ {0} BY DEF Schedule
  <1>2. s.arg * ((t \div s.arg) + 1) > t BY <1>1
  <1>3. (s.arg * ((t \div s.arg) + 1)) % s.arg = 0
    <2>1. \A k \in Nat : (s.arg * k) % s.arg = 0 BY <1>1
    <2>2. (t \div s.arg) + 1 \in Nat BY <1>1
    <2> QED BY <2>1, <2>2
  <1> QED BY <1>2, <1>3 DEF NextDue

-------------------------------------------------------------------------------
(* Types *)

LEMMA IdleType == Idle \in Job /\ Idle.queue = {} /\ Idle.cur = NoItem /\ Idle.pc = "idle"
  BY DEF Idle, Job, Pcs, NoItem

LEMMA NewRunType ==
  ASSUME TypeOK, NEW a \in Automata, NEW d \in Nat, NEW t, t \in {"scheduled", "manual"},
         NEW s, s \in Unfinished \cup Terminal
  PROVE  /\ NewRun(a, d, t, s) \in Seq(Row)
         /\ Len(runs) + 1 \in Nat
         /\ Len(runs) + 1 \in DOMAIN NewRun(a, d, t, s)
         /\ \A i \in DOMAIN NewRun(a, d, t, s) : i \in DOMAIN runs \/ i = Len(runs) + 1
         /\ DOMAIN runs \subseteq DOMAIN NewRun(a, d, t, s)
         /\ Len(runs) + 1 \notin DOMAIN runs
         /\ \A i \in DOMAIN runs : NewRun(a, d, t, s)[i] = runs[i]
         /\ NewRun(a, d, t, s)[Len(runs) + 1].automaton = a
         /\ NewRun(a, d, t, s)[Len(runs) + 1].due = d
         /\ NewRun(a, d, t, s)[Len(runs) + 1].trigger = t
         /\ NewRun(a, d, t, s)[Len(runs) + 1].status = s
  <1>1. runs \in Seq(Row) /\ now \in Nat BY DEF TypeOK
  <1> DEFINE r == [automaton |-> a, due |-> d, trigger |-> t, status |-> s,
                   touched |-> IF s \in Unfinished THEN now ELSE 0, begun |-> FALSE]
  <1>2. r \in Row BY <1>1 DEF Row
  <1>3. NewRun(a, d, t, s) = Append(runs, r) BY DEF NewRun
  <1>4. r.automaton = a /\ r.due = d /\ r.trigger = t /\ r.status = s OBVIOUS
  <1> HIDE DEF r
  <1> QED BY <1>1, <1>2, <1>3, <1>4

LEMMA MoveType ==
  ASSUME TypeOK, NEW i \in DOMAIN runs, NEW from, NEW s \in Unfinished \cup Terminal
  PROVE  /\ Move(i, from, s) \in Seq(Row)
         /\ DOMAIN Move(i, from, s) = DOMAIN runs
         /\ \A j \in DOMAIN runs :
              /\ Move(i, from, s)[j].automaton = runs[j].automaton
              /\ Move(i, from, s)[j].due = runs[j].due
              /\ Move(i, from, s)[j].trigger = runs[j].trigger
              /\ Move(i, from, s)[j].begun = runs[j].begun
              /\ \/ Move(i, from, s)[j].status = runs[j].status
                 \/ j = i /\ runs[j].status \in from /\ Move(i, from, s)[j].status = s
  <1>1. runs \in Seq(Row) /\ now \in Nat /\ runs[i] \in Row BY DEF TypeOK
  <1> DEFINE n == IF s \in Unfinished THEN now ELSE 0
             r == [runs[i] EXCEPT !.status = s, !.touched = n]
  <1>2. r \in Row BY <1>1 DEF Row
  <1>3. CASE runs[i].status \in from
    <2>1. Move(i, from, s) = [runs EXCEPT ![i] = r] BY <1>1, <1>3 DEF Move
    <2>2. r.automaton = runs[i].automaton /\ r.due = runs[i].due /\ r.trigger = runs[i].trigger
          /\ r.begun = runs[i].begun /\ r.status = s
      BY <1>1 DEF Row
    <2> HIDE DEF r
    <2> QED BY <1>1, <1>2, <1>3, <2>1, <2>2
  <1>4. CASE runs[i].status \notin from BY <1>1, <1>4 DEF Move
  <1> QED BY <1>3, <1>4

\* No run leaves the table or changes what it is a run of; a status that is
\* terminal stays, and none becomes unfinished again.
SameRows ==
  /\ DOMAIN runs' = DOMAIN runs
  /\ \A i \in DOMAIN runs :
       /\ runs'[i].automaton = runs[i].automaton
       /\ runs'[i].due = runs[i].due
       /\ runs'[i].trigger = runs[i].trigger
       /\ runs'[i].status # runs[i].status => runs[i].status \in Unfinished

LEMMA ReapedType ==
  ASSUME TypeOK, NEW w \in Workers, NEW S \in SUBSET Unfinished, runs' = Reaped(w, S)
  PROVE  runs' \in Seq(Row) /\ SameRows
  <1>1. runs \in Seq(Row) /\ job[w] \in Job BY DEF TypeOK
  <1>2. \A i \in DOMAIN runs : runs[i] \in Row BY <1>1
  <1>3. \A i \in DOMAIN runs : [runs[i] EXCEPT !.status = "failed", !.touched = 0] \in Row
    BY <1>2 DEF Row, Terminal
  <1> DEFINE e(i) == IF /\ runs[i].status \in S
                        /\ runs[i].touched < job[w].at - (IF runs[i].status = "running"
                                                         THEN RunningTimeout ELSE QueuedTimeout)
                     THEN [runs[i] EXCEPT !.status = "failed", !.touched = 0] ELSE runs[i]
  <1>4. Reaped(w, S) = [i \in DOMAIN runs |-> e(i)] BY DEF Reaped
  <1>5. \A i \in DOMAIN runs : e(i) \in Row BY <1>2, <1>3
  <1>6. Reaped(w, S) \in Seq(Row)
    <2>1. DOMAIN runs = 1 .. Len(runs) /\ Len(runs) \in Nat BY <1>1
    <2> HIDE DEF e
    <2> QED BY <1>4, <1>5, <2>1
  <1>7. SameRows BY <1>2 DEF SameRows, Reaped, Row
  <1> QED BY <1>6, <1>7

LEMMA ItemOfType ==
  ASSUME TypeOK, NEW a \in Automata
  PROVE  ItemOf(a) \in Item /\ automata[a] \in AutomatonRow
  BY DEF TypeOK, ItemOf, Item, AutomatonRow

LEMMA JobType ==
  ASSUME TypeOK, NEW w \in Workers
  PROVE  /\ job[w] \in Job
         /\ job[w].pc \in {"begin", "fail"} => job[w].run \in DOMAIN runs
         /\ job[w].pc \in {"skip", "fire", "begin", "fail", "advance"} =>
              Cur(w) \in Item /\ Cur(w).automaton \in Automata /\ Cur(w).sched \in Schedule
              /\ Cur(w).due \in Nat
         /\ \A i \in Oldest(w) : i \in job[w].queue /\ i \in Item
  BY DEF TypeOK, Job, Cur, Item, Oldest

\* A well-typed job of one worker is all a step has to show of the jobs.
JobOK(w) ==
  /\ job[w] \in Job
  /\ job[w].pc \in {"begin", "fail"} => job[w].run \in DOMAIN runs
  /\ job[w].pc \in {"skip", "fire", "begin", "fail", "advance"} => job[w].cur \in Item
  /\ job[w].pc = "idle" => job[w] = Idle

LEMMA OneJob ==
  ASSUME TypeOK, NEW w \in Workers, NEW j \in Job, job' = [job EXCEPT ![w] = j],
         DOMAIN runs \subseteq DOMAIN runs', JobOK(w)'
  PROVE  job' \in [Workers -> Job] /\ \A v \in Workers : JobOK(v)'
  BY DEF TypeOK, JobOK

LEMMA ProceedType ==
  ASSUME TypeOK, NEW w \in Workers
  PROVE  LET j == [job[w] EXCEPT !.pc = "loop", !.cur = NoItem, !.run = 0]
         IN  /\ j \in Job /\ Proceed(w) = [job EXCEPT ![w] = j]
             /\ j.pc = "loop" /\ j.cur = NoItem /\ j.queue = job[w].queue
  BY DEF TypeOK, Job, Proceed, Pcs

LEMMA AfterStartType ==
  ASSUME TypeOK, NEW w \in Workers
  PROVE  LET j == IF Cur(w).due = 0 THEN Idle ELSE [job[w] EXCEPT !.pc = "advance"]
         IN  /\ j \in Job /\ AfterStart(w) = [job EXCEPT ![w] = j]
             /\ j.pc = IF Cur(w).due = 0 THEN "idle" ELSE "advance"
             /\ j.cur = IF Cur(w).due = 0 THEN NoItem ELSE Cur(w)
             /\ j.queue = IF Cur(w).due = 0 THEN {} ELSE job[w].queue
  BY IdleType DEF TypeOK, Job, AfterStart, Pcs, Cur

\* What a step of one worker has to show when the rest is well typed.
LEMMA StepType ==
  ASSUME TypeOK, NEW w \in Workers, NEW j \in Job, job' = [job EXCEPT ![w] = j],
         DOMAIN runs \subseteq DOMAIN runs', runs' \in Seq(Row), JobOK(w)',
         automata' \in [Automata -> AutomatonRow], crossed' \subseteq Automata,
         UNCHANGED <<now, edit, clashed, edits>>, faults' \in Nat, manuals' \in Nat
  PROVE  TypeOK'
  <1>1. job' \in [Workers -> Job] /\ \A v \in Workers : JobOK(v)' BY OneJob
  <1> QED BY <1>1 DEF TypeOK, JobOK

LEMMA RowsType == TypeOK => DOMAIN runs = 1 .. Len(runs) /\ Len(runs) \in Nat
  BY DEF TypeOK

LEMMA WorksType ==
  ASSUME TypeOK, NEW w \in Workers, Works(w)
  PROVE  TypeOK'
  <1> DEFINE jw == job[w]
  <1>0. /\ jw \in Job /\ automata \in [Automata -> AutomatonRow] /\ runs \in Seq(Row)
        /\ crossed \subseteq Automata /\ faults \in Nat /\ manuals \in Nat
        /\ job \in [Workers -> Job]
    BY DEF TypeOK
  <1>1. CASE Reap(w)
    <2>1. PICK S \in SUBSET Unfinished : runs' = Reaped(w, S)
      BY <1>1 DEF Reap, Unfinished
    <2>2. runs' \in Seq(Row) /\ DOMAIN runs' = DOMAIN runs BY <2>1, ReapedType DEF SameRows
    <2>3. [jw EXCEPT !.pc = "list"] \in Job BY <1>0 DEF Job, Pcs
    <2>4. job' = [job EXCEPT ![w] = [jw EXCEPT !.pc = "list"]] BY <1>1 DEF Reap
    <2>5. JobOK(w)' BY <1>0, <2>3, <2>4 DEF JobOK, Job
    <2>6. faults' \in Nat BY <1>0, <1>1 DEF Reap, Fault
    <2> QED BY <1>0, <1>1, <2>2, <2>3, <2>4, <2>5, <2>6, StepType DEF Reap
  <1>2. CASE List(w)
    <2>1. PICK Q \in SUBSET Due(job[w].at) :
            job' = [job EXCEPT ![w].pc = "loop", ![w].queue = {ItemOf(a) : a \in Q}]
      BY <1>2 DEF List
    <2>2. {ItemOf(a) : a \in Q} \subseteq Item BY ItemOfType DEF Due
    <2>3. [jw EXCEPT !.pc = "loop", !.queue = {ItemOf(a) : a \in Q}] \in Job
      BY <1>0, <2>2 DEF Job, Pcs
    <2>4. JobOK(w)' BY <1>0, <2>1, <2>3 DEF JobOK, Job
    <2> QED BY <1>0, <1>2, <2>1, <2>3, <2>4, StepType DEF List
  <1>3. CASE TickEnds(w)
    <2>1. JobOK(w)' BY <1>0, <1>3, IdleType DEF JobOK, TickEnds
    <2> QED BY <1>0, <1>3, <2>1, IdleType, StepType DEF TickEnds
  <1>4. CASE Look(w)
    <2>1. PICK i \in Oldest(w) :
            job' = [job EXCEPT ![w].queue = @ \ {i}, ![w].cur = i, ![w].pc = Decision(w, i)]
      BY <1>4 DEF Look
    <2>2. i \in Item /\ Decision(w, i) \in {"skip", "fire"} BY JobType DEF Decision
    <2> DEFINE j == [jw EXCEPT !.queue = @ \ {i}, !.cur = i, !.pc = Decision(w, i)]
    <2>3. j \in Job /\ j.cur = i /\ j.pc = Decision(w, i) BY <1>0, <2>2 DEF Job, Pcs
    <2>4. job' = [job EXCEPT ![w] = j] BY <2>1
    <2>5. JobOK(w)' BY <1>0, <2>2, <2>3, <2>4 DEF JobOK
    <2> QED BY <1>0, <1>4, <2>3, <2>4, <2>5, StepType DEF Look
  <1>5. CASE DisableCorrupt(w)
    <2>1. PICK i \in Oldest(w) :
            /\ automata' = [automata EXCEPT ![i.automaton].enabled = FALSE]
            /\ CrossIfEdited(i.automaton)
            /\ job' = [job EXCEPT ![w].queue = @ \ {i}]
      BY <1>5 DEF DisableCorrupt
    <2>2. i.automaton \in Automata BY JobType DEF Item
    <2>3. automata' \in [Automata -> AutomatonRow] BY <1>0, <2>1, <2>2 DEF AutomatonRow
    <2>4. crossed' \subseteq Automata BY <1>0, <2>1, <2>2 DEF CrossIfEdited
    <2> DEFINE j == [jw EXCEPT !.queue = @ \ {i}]
    <2>5. j \in Job /\ j.pc = jw.pc BY <1>0 DEF Job
    <2>6. job' = [job EXCEPT ![w] = j] BY <2>1
    <2>7. JobOK(w)' BY <1>0, <1>5, <2>5, <2>6 DEF JobOK, DisableCorrupt, At
    <2> QED BY <1>0, <1>5, <2>3, <2>4, <2>5, <2>6, <2>7, StepType DEF DisableCorrupt
  <1>6. CASE SkipRow(w)
    <2> DEFINE j == [jw EXCEPT !.pc = "advance"]
    <2>1. Cur(w) \in Item /\ Cur(w).automaton \in Automata /\ Cur(w).due \in Nat
      BY <1>6, JobType DEF SkipRow, At
    <2> DEFINE new == NewRun(Cur(w).automaton, Cur(w).due, "scheduled", "skipped")
    <2>5. "skipped" \in Unfinished \cup Terminal BY DEF Terminal
    <2>6. new \in Seq(Row) /\ DOMAIN runs \subseteq DOMAIN new
      BY <2>1, <2>5, NewRunType
    <2>2. runs' \in Seq(Row) /\ DOMAIN runs \subseteq DOMAIN runs'
      BY <1>0, <1>6, <2>6 DEF SkipRow
    <2>3. j \in Job /\ job' = [job EXCEPT ![w] = j] BY <1>0, <1>6 DEF Job, Pcs, SkipRow
    <2>4. JobOK(w)' BY <1>0, <2>1, <2>3 DEF JobOK, Job, Cur
    <2> QED BY <1>0, <1>6, <2>2, <2>3, <2>4, StepType DEF SkipRow
  <1>7. CASE Claim(w)
    <2> DEFINE j == [jw EXCEPT !.pc = "begin", !.run = Len(runs) + 1]
    <2>1. Cur(w) \in Item /\ Cur(w).automaton \in Automata /\ Cur(w).due \in Nat
      BY <1>7, JobType DEF Claim, At
    <2> DEFINE new == NewRun(Cur(w).automaton, Cur(w).due, "scheduled", "queued")
    <2>5. "queued" \in Unfinished \cup Terminal BY DEF Unfinished
    <2>6. new \in Seq(Row) /\ DOMAIN runs \subseteq DOMAIN new /\ Len(runs) + 1 \in DOMAIN new
          /\ Len(runs) + 1 \in Nat
      BY <2>1, <2>5, NewRunType
    <2>2. runs' \in Seq(Row) /\ DOMAIN runs \subseteq DOMAIN runs' /\ Len(runs) + 1 \in DOMAIN runs'
          /\ Len(runs) + 1 \in Nat
      BY <1>7, <2>6 DEF Claim
    <2>3. j \in Job /\ job' = [job EXCEPT ![w] = j] BY <1>0, <1>7, <2>2 DEF Job, Pcs, Claim
    <2>4. JobOK(w)' BY <1>0, <2>1, <2>2, <2>3 DEF JobOK, Job, Cur
    <2> QED BY <1>0, <1>7, <2>2, <2>3, <2>4, StepType DEF Claim
  <1>8. CASE ClaimConflict(w)
    <2>1. JobOK(w)' BY <1>0, <1>8, ProceedType DEF JobOK, ClaimConflict
    <2> QED BY <1>0, <1>8, <2>1, ProceedType, StepType DEF ClaimConflict
  <1>9. CASE Begin(w)
    <2>1. PICK stored \in BOOLEAN, j \in Job :
            /\ runs' = [runs EXCEPT ![jw.run].begun = stored]
            /\ job' = [job EXCEPT ![w] = j]
            /\ j.pc = "fail" => j.run = jw.run
            /\ j.pc \in {"advance", "fail"} => j.cur = jw.cur
            /\ j.pc = "idle" => j = Idle
            /\ j.pc \in {"idle", "advance", "fail"}
      <3>1. CASE runs' = [runs EXCEPT ![jw.run].begun = TRUE] /\ job' = AfterStart(w)
        <4>1. TRUE \in BOOLEAN OBVIOUS
        <4> DEFINE j == IF Cur(w).due = 0 THEN Idle ELSE [jw EXCEPT !.pc = "advance"]
        <4>2. /\ j \in Job /\ job' = [job EXCEPT ![w] = j]
              /\ j.pc = IF Cur(w).due = 0 THEN "idle" ELSE "advance"
              /\ j.cur = IF Cur(w).due = 0 THEN NoItem ELSE Cur(w)
          BY <3>1, AfterStartType
        <4>3. j.pc = "idle" => j = Idle BY <4>2
        <4> HIDE DEF j
        <4> QED BY <3>1, <4>1, <4>2, <4>3 DEF Cur
      <3>2. CASE /\ \E stored \in BOOLEAN : runs' = [runs EXCEPT ![jw.run].begun = stored]
                 /\ job' = [job EXCEPT ![w].pc = "fail"]
        <4>1. [jw EXCEPT !.pc = "fail"] \in Job BY <1>0 DEF Job, Pcs
        <4> QED BY <1>0, <3>2, <4>1 DEF Job
      <3> QED BY <1>9, <3>1, <3>2 DEF Begin
    <2>2. jw.run \in DOMAIN runs /\ jw.cur \in Item BY <1>9, JobType DEF Begin, At, Cur
    <2>3. runs[jw.run] \in Row BY <1>0, <2>2
    <2>4. [runs[jw.run] EXCEPT !.begun = stored] \in Row BY <2>3 DEF Row
    <2>5. runs' \in Seq(Row) /\ DOMAIN runs' = DOMAIN runs BY <1>0, <2>1, <2>2, <2>4
    <2>6. JobOK(w)'
      <3>1. job'[w] = j BY <1>0, <2>1
      <3>2. j \in Job /\ (j.pc = "fail" => j.run \in DOMAIN runs')
            /\ (j.pc \in {"advance", "fail"} => j.cur \in Item)
            /\ (j.pc = "idle" => j = Idle) /\ j.pc \in {"idle", "advance", "fail"}
        BY <2>1, <2>2, <2>5
      <3> QED BY <3>1, <3>2 DEF JobOK
    <2> QED BY <1>0, <1>9, <2>1, <2>5, <2>6, StepType DEF Begin
  <1>10. CASE FailRun(w)
    <2>1. jw.run \in DOMAIN runs /\ jw.cur \in Item BY <1>10, JobType DEF FailRun, At, Cur
    <2>2. runs' \in Seq(Row) /\ DOMAIN runs' = DOMAIN runs
      BY <1>10, <2>1, MoveType DEF FailRun, Terminal
    <2> DEFINE j == IF Cur(w).due = 0 THEN Idle ELSE [jw EXCEPT !.pc = "advance"]
    <2>3. /\ j \in Job /\ job' = [job EXCEPT ![w] = j]
          /\ j.pc = IF Cur(w).due = 0 THEN "idle" ELSE "advance"
          /\ j.cur = IF Cur(w).due = 0 THEN NoItem ELSE Cur(w)
      BY <1>10, AfterStartType DEF FailRun
    <2>4. j.pc = "idle" => j = Idle BY <2>3
    <2> HIDE DEF j
    <2>5. JobOK(w)' BY <1>0, <2>1, <2>3, <2>4 DEF JobOK, Cur
    <2> QED BY <1>0, <1>10, <2>2, <2>3, <2>5, StepType DEF FailRun
  <1>11. CASE Advance(w)
    <2>1. Cur(w) \in Item /\ Cur(w).automaton \in Automata /\ Cur(w).due \in Nat
          /\ Cur(w).sched \in Schedule
      BY <1>11, JobType DEF Advance, At
    <2>2. NextDue(Cur(w).sched, Cur(w).due) \in Nat BY <2>1, NextDueType
    <2>3. Advanced(automata[Cur(w).automaton], Cur(w)) \in AutomatonRow
      BY <1>0, <2>1, <2>2 DEF Advanced, AutomatonRow
    <2>4. automata' \in [Automata -> AutomatonRow] /\ crossed' \subseteq Automata
      BY <1>0, <1>11, <2>1, <2>3 DEF Advance, CrossIfEdited
    <2>5. JobOK(w)' BY <1>0, <1>11, ProceedType DEF JobOK, Advance
    <2> QED BY <1>0, <1>11, <2>4, <2>5, ProceedType, StepType DEF Advance
  <1> QED
    BY <1>1, <1>2, <1>3, <1>4, <1>5, <1>6, <1>7, <1>8, <1>9, <1>10, <1>11 DEF Works

\* What an update in progress has read.
LEMMA EditType ==
  ASSUME TypeOK, NEW u \in Updates, edit[u].open
  PROVE  edit[u] \in Edit /\ edit[u].automaton \in Automata /\ edit[u].sched \in Schedule
  <1>1. edit[u] # NoEdit /\ edit[u] \in Edit \cup {NoEdit} BY DEF TypeOK, NoEdit
  <1> QED BY <1>1 DEF Edit

\* The row an update writes: with the due instant it had, or one that lies in
\* the future and belongs to the schedule of the patch or else the one read.
LEMMA PatchedRow ==
  ASSUME TypeOK, NEW u \in Updates, EditWrite(u), NEW a, a = edit[u].automaton
  PROVE  /\ automata'[a] \in AutomatonRow /\ automata' \in [Automata -> AutomatonRow]
         /\ \A b \in Automata \ {a} : automata'[b] = automata[b]
         /\ \/ \E s \in Schedule :
                 /\ Computable(s, now) /\ automata'[a].due = NextDue(s, now)
                 /\ \/ automata'[a].sched = s
                    \/ automata'[a].sched = automata[a].sched /\ s = edit[u].sched
            \/ /\ automata'[a].sched = automata[a].sched /\ automata'[a].due = automata[a].due
               /\ automata'[a].enabled => automata[a].enabled \/ edit[u].enabled
  <1>0. /\ automata \in [Automata -> AutomatonRow] /\ now \in Nat /\ edit[u] \in Edit
        /\ a \in Automata /\ edit[u].sched \in Schedule /\ edit[u].enabled \in BOOLEAN
    BY EditType DEF TypeOK, EditWrite, Edit
  <1>1. PICK newSched \in {{}} \cup {{s} : s \in Schedules}, retimed \in BOOLEAN,
             enable \in {{}, {TRUE}, {FALSE}} :
          /\ Accepted(edit[u], newSched, retimed, enable)
          /\ automata' =
               [automata EXCEPT ![a] = Patched(@, edit[u], newSched, retimed, enable)]
    BY DEF EditWrite
  <1> DEFINE sched == IF newSched = {} THEN edit[u].sched ELSE CHOOSE s \in newSched : TRUE
             recompute == Recomputes(edit[u], newSched, retimed, enable)
             new == Patched(automata[a], edit[u], newSched, retimed, enable)
  <1>2. newSched # {} => sched \in newSched /\ sched \in Schedule
    BY <1>1, SchedulesAssumption
  <1>3. sched \in Schedule BY <1>0, <1>2
  <1>4. recompute => Computable(sched, now)
    <2>1. CASE newSched # {} BY <1>1, <1>2, <2>1 DEF Accepted
    <2>2. CASE newSched = {} BY <1>1, <2>2 DEF Accepted
    <2> QED BY <2>1, <2>2
  <1>5. automata[a] \in AutomatonRow /\ (TRUE \in enable) \in BOOLEAN BY <1>0
  <1>6. NextDue(sched, now) \in Nat BY <1>0, <1>3, NextDueType
  <1>7. new = [automata[a] EXCEPT
                 !.sched = IF newSched = {} THEN @ ELSE sched,
                 !.enabled = IF enable = {} THEN @ ELSE TRUE \in enable,
                 !.due = IF recompute THEN NextDue(sched, now) ELSE @]
    BY DEF Patched
  <1>8. newSched = {} => sched = edit[u].sched OBVIOUS
  <1>9. ~recompute => newSched = {} /\ ~(enable = {TRUE} /\ ~edit[u].enabled)
    BY DEF Recomputes
  <1> HIDE DEF sched, recompute, new
  <1>10. /\ new.sched = IF newSched = {} THEN automata[a].sched ELSE sched
         /\ new.enabled = IF enable = {} THEN automata[a].enabled ELSE TRUE \in enable
         /\ new.due = IF recompute THEN NextDue(sched, now) ELSE automata[a].due
         /\ new \in AutomatonRow
    BY <1>3, <1>5, <1>6, <1>7 DEF AutomatonRow
  <1>11. automata' = [automata EXCEPT ![a] = new] BY <1>1 DEF new
  <1>12. automata'[a] = new /\ \A b \in Automata \ {a} : automata'[b] = automata[b]
    BY <1>0, <1>11
  <1>13. automata' \in [Automata -> AutomatonRow] BY <1>0, <1>10, <1>11
  <1>14. CASE recompute BY <1>3, <1>4, <1>8, <1>10, <1>12, <1>13, <1>14
  <1>15. CASE ~recompute
    <2>1. new.enabled => automata[a].enabled \/ edit[u].enabled BY <1>1, <1>9, <1>10, <1>15
    <2> QED BY <1>9, <1>10, <1>12, <1>13, <1>15, <2>1
  <1> QED BY <1>14, <1>15

LEMMA NextType ==
  ASSUME TypeOK, [Next]_vars
  PROVE  TypeOK'
  <1>0. /\ automata \in [Automata -> AutomatonRow] /\ runs \in Seq(Row) /\ now \in Nat
        /\ crossed \subseteq Automata /\ clashed \subseteq Automata
        /\ faults \in Nat /\ manuals \in Nat /\ edits \in Nat
        /\ job \in [Workers -> Job] /\ edit \in [Updates -> Edit \cup {NoEdit}]
    BY DEF TypeOK
  <1>1. ASSUME NEW w \in Workers, StartTick(w) PROVE TypeOK'
    <2> DEFINE j == [Idle EXCEPT !.pc = "reap", !.at = now]
    <2>1. j \in Job /\ j.pc = "reap" BY <1>0, IdleType DEF Job, Pcs
    <2>2. JobOK(w)' BY <1>0, <1>1, <2>1 DEF JobOK, StartTick
    <2> QED BY <1>0, <1>1, <2>1, <2>2, StepType DEF StartTick
  <1>2. ASSUME NEW w \in Workers, Works(w) PROVE TypeOK'
    BY <1>2, WorksType
  <1>3. ASSUME NEW w \in Workers, Drop(w) PROVE TypeOK'
    <2>1. faults' \in Nat BY <1>0, <1>3 DEF Drop, Fault
    <2>2. CASE At(w, "loop") /\ \E i \in Oldest(w) : job' = [job EXCEPT ![w].queue = @ \ {i}]
      <3>1. PICK i \in Oldest(w) : job' = [job EXCEPT ![w].queue = @ \ {i}] BY <2>2
      <3> DEFINE j == [job[w] EXCEPT !.queue = @ \ {i}]
      <3>2. j \in Job /\ j.pc = "loop" /\ job' = [job EXCEPT ![w] = j]
        BY <1>0, <2>2, <3>1 DEF Job, At
      <3>3. JobOK(w)' BY <1>0, <3>2 DEF JobOK
      <3> QED BY <1>0, <1>3, <2>1, <3>2, <3>3, StepType DEF Drop
    <2>3. CASE job' = Proceed(w)
      <3>1. JobOK(w)' BY <1>0, <2>3, ProceedType DEF JobOK
      <3> QED BY <1>0, <1>3, <2>1, <2>3, <3>1, ProceedType, StepType DEF Drop
    <2> QED BY <1>3, <2>2, <2>3 DEF Drop
  <1>4. ASSUME NEW w \in Workers, Crash(w) PROVE TypeOK'
    <2>1. faults' \in Nat BY <1>0, <1>4 DEF Crash, Fault
    <2>2. JobOK(w)' BY <1>0, <1>4, IdleType DEF JobOK, Crash
    <2> QED BY <1>0, <1>4, <2>1, <2>2, IdleType, StepType DEF Crash
  <1>5. ASSUME NEW w \in Workers, RunNow(w) PROVE TypeOK'
    <2>1. PICK a \in Automata :
            /\ runs' = NewRun(a, 0, "manual", "queued")
            /\ job' = [job EXCEPT ![w] =
                 [Idle EXCEPT !.pc = "begin", !.run = Len(runs) + 1,
                              !.cur = [ItemOf(a) EXCEPT !.due = 0]]]
      BY <1>5 DEF RunNow
    <2>7. "queued" \in Unfinished \cup Terminal /\ 0 \in Nat BY DEF Unfinished
    <2>2. runs' \in Seq(Row) /\ DOMAIN runs \subseteq DOMAIN runs' /\ Len(runs) + 1 \in DOMAIN runs'
          /\ Len(runs) + 1 \in Nat
      <3>1. NewRun(a, 0, "manual", "queued") \in Seq(Row)
        BY <2>7, NewRunType
      <3>2. /\ DOMAIN runs \subseteq DOMAIN NewRun(a, 0, "manual", "queued")
            /\ Len(runs) + 1 \in DOMAIN NewRun(a, 0, "manual", "queued")
            /\ Len(runs) + 1 \in Nat
        BY <2>7, NewRunType
      <3> QED BY <2>1, <3>1, <3>2
    <2>3. [ItemOf(a) EXCEPT !.due = 0] \in Item BY ItemOfType DEF Item
    <2> DEFINE j == [Idle EXCEPT !.pc = "begin", !.run = Len(runs) + 1,
                                 !.cur = [ItemOf(a) EXCEPT !.due = 0]]
    <2>4. /\ j \in Job /\ j.pc = "begin" /\ j.run = Len(runs) + 1
          /\ j.cur = [ItemOf(a) EXCEPT !.due = 0]
      BY <2>2, <2>3, IdleType DEF Job, Pcs
    <2>5. JobOK(w)' BY <1>0, <2>1, <2>2, <2>3, <2>4 DEF JobOK
    <2>6. manuals' \in Nat BY <1>0, <1>5 DEF RunNow
    <2> QED BY <1>0, <1>5, <2>1, <2>2, <2>4, <2>5, <2>6, StepType DEF RunNow
  <1>6. ASSUME NEW i \in DOMAIN runs, TurnStarts(i) \/ TurnEnds(i) PROVE TypeOK'
    <2>1. runs' \in Seq(Row) /\ DOMAIN runs' = DOMAIN runs
      BY <1>6, MoveType DEF TurnStarts, TurnEnds, Unfinished, Terminal
    <2> QED BY <1>6, <2>1 DEF TypeOK, TurnStarts, TurnEnds
  <1>7. ASSUME NEW u \in Updates, NEW a \in Automata, EditRead(u, a) PROVE TypeOK'
    <2>1. [open |-> TRUE, automaton |-> a,
           enabled |-> automata[a].enabled, sched |-> automata[a].sched] \in Edit
      BY <1>0 DEF Edit, AutomatonRow
    <2> QED BY <1>0, <1>7, <2>1 DEF TypeOK, EditRead
  <1>8. ASSUME NEW u \in Updates, EditWrite(u) PROVE TypeOK'
    <2>1. PICK a \in Automata : a = edit[u].automaton BY <1>8, EditType DEF EditWrite
    <2>2. automata'[a] \in AutomatonRow /\ \A b \in Automata \ {a} : automata'[b] = automata[b]
      BY <1>8, <2>1, PatchedRow
    <2>3. automata' \in [Automata -> AutomatonRow] BY <1>0, <1>8, <2>1, <2>2, PatchedRow
    <2>4. edit' \in [Updates -> Edit \cup {NoEdit}] BY <1>0, <1>8 DEF EditWrite
    <2>5. crossed' \subseteq Automata /\ clashed' \subseteq Automata
      BY <1>0, <1>8, <2>1 DEF EditWrite
    <2> QED BY <1>8, <2>3, <2>4, <2>5 DEF TypeOK, EditWrite
  <1>9. ASSUME NEW u \in Updates, EditRefused(u) PROVE TypeOK'
    BY <1>9 DEF TypeOK, EditRefused
  <1>10. ASSUME NEW a \in Automata, Archive(a) PROVE TypeOK'
    BY <1>0, <1>10 DEF TypeOK, Archive, AutomatonRow
  <1>11. CASE Clock
    BY <1>11 DEF TypeOK, Clock
  <1>12. CASE UNCHANGED vars
    BY <1>12 DEF TypeOK, vars
  <1> QED
    BY <1>1, <1>2, <1>3, <1>4, <1>5, <1>6, <1>7, <1>8, <1>9, <1>10, <1>11, <1>12 DEF Next

-------------------------------------------------------------------------------
(* The inductive invariant *)

\* A due instant has one row: the index.
OneRowPerDue ==
  \A a \in Automata : \A i, j \in Scheduled(a) : runs[i].due = runs[j].due => i = j

RowsPast == \A a \in Automata : \A r \in Scheduled(a) : runs[r].due <= now

\* The items some tick still has in hand or in its batch.
Held(a) ==
  {i \in Item : /\ i.automaton = a /\ i.due # 0
               /\ \E w \in Workers : i \in job[w].queue \/ i = job[w].cur}

HeldPast == \A a \in Automata : \A i \in Held(a) : i.due <= now

Dated ==
  \A w \in Workers :
    /\ job[w].at <= now
    /\ \A i \in job[w].queue : i.due # 0
    /\ job[w].pc \in {"skip", "fire", "advance"} => Cur(w).due # 0

\* The instants a tick may still settle: those held, and the row's own.
Standing(a) == Held(a) \cup (IF automata[a].due = 0 THEN {} ELSE {ItemOf(a)})

\* One instant f at most may still be claimed: every other instant that stands
\* has its row, and so has what follows each row from the oldest that stands,
\* which is where a late tick may turn the schedule back to.
Frontier(a, f) ==
  /\ \A i \in Standing(a) : i.due = f \/ Taken(a, i.due)
  /\ automata[a].sched.kind # "once" =>
       \A i \in Standing(a) : \A r \in Scheduled(a) : runs[r].due >= i.due =>
         \/ NextDue(automata[a].sched, runs[r].due) = f
         \/ Taken(a, NextDue(automata[a].sched, runs[r].due))

Undisturbed(a) ==
  /\ \A i \in Held(a) : i.sched = automata[a].sched
  /\ \E f \in Nat : Frontier(a, f)

\* What an update has read is still so, unless a tick or another update wrote
\* the row since.
Fresh(u) ==
  LET a == edit[u].automaton IN
    edit[u].open /\ a \notin crossed \cup clashed =>
      edit[u].enabled = automata[a].enabled /\ edit[u].sched = automata[a].sched

\* What a tick has found: the row of an instant it is past claiming, and, while
\* it is about to claim one, no unfinished run.
Stage(w) ==
  /\ job[w].pc \in {"begin", "fail", "advance"} /\ Cur(w).due # 0 =>
       Taken(Cur(w).automaton, Cur(w).due)
  /\ job[w].pc = "fire" /\ Cur(w).automaton \notin crossed =>
       Taken(Cur(w).automaton, Cur(w).due) \/ Live(Cur(w).automaton) = {}

IInv ==
  /\ TypeOK /\ OneRowPerDue /\ RowsPast /\ HeldPast /\ Dated
  /\ \A a \in Automata \ crossed : Undisturbed(a)
  /\ \A u \in Updates : Fresh(u)
  /\ \A w \in Workers : Stage(w)
  /\ OneLiveRun /\ DueFitsSchedule

-------------------------------------------------------------------------------
(* What a step keeps *)

LEMMA ScheduledRows ==
  ASSUME TypeOK, NEW a \in Automata, NEW i \in Scheduled(a)
  PROVE  i \in DOMAIN runs /\ runs[i] \in Row /\ runs[i].due \in Nat /\ runs[i].automaton = a
  <1>1. runs \in Seq(Row) /\ i \in DOMAIN runs /\ runs[i].automaton = a BY DEF TypeOK, Scheduled
  <1>2. runs[i] \in Row BY <1>1
  <1> QED BY <1>1, <1>2 DEF Row

LEMMA HeldItem ==
  ASSUME NEW a, NEW i \in Held(a)
  PROVE  i \in Item /\ i.automaton = a /\ i.due # 0 /\ i.due \in Nat /\ i.sched \in Schedule
  BY DEF Held, Item

\* The item in hand is held.
LEMMA CurHeld ==
  ASSUME TypeOK, Dated, NEW w \in Workers, job[w].pc \in {"skip", "fire", "advance"}
  PROVE  Cur(w) \in Held(Cur(w).automaton)
  <1>1. Cur(w) \in Item /\ Cur(w).due # 0 BY JobType DEF Dated
  <1> QED BY <1>1 DEF Held, Cur

LEMMA StandingItem ==
  ASSUME TypeOK, NEW a \in Automata, NEW i \in Standing(a)
  PROVE  i \in Item /\ i.automaton = a /\ i.due \in Nat
  BY ItemOfType, HeldItem DEF Standing, ItemOf, TypeOK, AutomatonRow, Item

\* The scheduled runs are the same ones and none came back to life.
SameRuns ==
  \A a \in Automata :
    /\ Scheduled(a)' = Scheduled(a)
    /\ \A i \in Scheduled(a) : runs'[i].due = runs[i].due
    /\ Live(a)' \subseteq Live(a)

LEMMA SameRowsRuns ==
  ASSUME TypeOK, TypeOK', SameRows
  PROVE  SameRuns
  <1> SUFFICES ASSUME NEW a \in Automata
               PROVE  /\ Scheduled(a)' = Scheduled(a)
                      /\ \A i \in Scheduled(a) : runs'[i].due = runs[i].due
                      /\ Live(a)' \subseteq Live(a)
    BY DEF SameRuns
  <1>1. Scheduled(a)' = Scheduled(a) BY DEF SameRows, Scheduled
  <1>2. \A i \in Scheduled(a) : runs'[i].due = runs[i].due BY DEF SameRows, Scheduled
  <1>3. \A i \in Live(a)' : i \in Live(a) BY <1>1 DEF SameRows, Scheduled, Live
  <1> QED BY <1>1, <1>2, <1>3

LEMMA ManualRun ==
  ASSUME TypeOK, NEW a \in Automata, runs' = NewRun(a, 0, "manual", "queued")
  PROVE  SameRuns
  <1>1. "queued" \in Unfinished \cup Terminal /\ 0 \in Nat BY DEF Unfinished
  <1> DEFINE n == Len(runs) + 1
             new == NewRun(a, 0, "manual", "queued")
  <1>6. DOMAIN runs \subseteq DOMAIN new BY <1>1, NewRunType
  <1>7. \A i \in DOMAIN new : i \in DOMAIN runs \/ i = n BY <1>1, NewRunType
  <1>8. new[n].trigger = "manual" /\ n \notin DOMAIN runs BY <1>1, NewRunType
  <1>9. ASSUME NEW i \in DOMAIN runs PROVE new[i] = runs[i] BY <1>1, NewRunType
  <1>2. /\ DOMAIN runs \subseteq DOMAIN runs'
        /\ \A i \in DOMAIN runs' : i \in DOMAIN runs \/ i = n
        /\ runs'[n].trigger = "manual" /\ n \notin DOMAIN runs
    BY <1>6, <1>7, <1>8
  <1>3. \A i \in DOMAIN runs : runs'[i] = runs[i] BY <1>9
  <1> HIDE DEF n, new
  <1>4. \A b \in Automata : Scheduled(b)' = Scheduled(b) BY <1>2, <1>3 DEF Scheduled
  <1>5. \A b \in Automata : \A i \in Scheduled(b) : runs'[i] = runs[i] BY <1>3 DEF Scheduled
  <1> QED BY <1>4, <1>5 DEF SameRuns, Live

LEMMA SameTaken ==
  ASSUME SameRuns, NEW a \in Automata, NEW d
  PROVE  Taken(a, d)' <=> Taken(a, d)
  BY DEF SameRuns, Taken

\* A step that writes no row of `automata', whose ticks hold what they held or
\* have just listed, and that starts no scheduled run.
LEMMA Quiet ==
  ASSUME IInv, TypeOK', SameRuns, now' >= now, UNCHANGED <<automata, crossed, clashed>>,
         \A a \in Automata : \A i \in Held(a)' :
           i \in Held(a) \/ (automata[a].due # 0 /\ i = ItemOf(a) /\ i.due <= now),
         \A u \in Updates : edit'[u].open =>
           edit'[u] = edit[u] \/ (/\ edit'[u].enabled = automata[edit'[u].automaton].enabled
                                 /\ edit'[u].sched = automata[edit'[u].automaton].sched),
         Dated', \A w \in Workers : Stage(w)'
  PROVE  IInv'
  <1>0. TypeOK /\ now \in Nat /\ now' \in Nat BY DEF IInv, TypeOK
  <1>1. OneRowPerDue' BY DEF IInv, OneRowPerDue, SameRuns
  <1>2. RowsPast'
    <2> SUFFICES ASSUME NEW a \in Automata, NEW r \in Scheduled(a) PROVE runs[r].due <= now'
      BY DEF RowsPast, SameRuns
    <2>1. runs[r].due \in Nat /\ runs[r].due <= now BY <1>0, ScheduledRows DEF IInv, RowsPast
    <2> QED BY <1>0, <2>1
  <1>3. HeldPast'
    <2> SUFFICES ASSUME NEW a \in Automata, NEW i \in Held(a)' PROVE i.due <= now'
      BY DEF HeldPast
    <2>1. i.due <= now BY DEF IInv, HeldPast
    <2>2. i.due \in Nat BY DEF Held, Item
    <2> QED BY <1>0, <2>1, <2>2
  <1>4. ASSUME NEW a \in Automata \ crossed' PROVE Undisturbed(a)'
    <2>0. a \in Automata \ crossed /\ Undisturbed(a) BY DEF IInv
    <2>1. \A i \in Held(a)' : i.sched = automata'[a].sched
      BY <2>0 DEF Undisturbed, ItemOf
    <2>2. PICK f \in Nat : Frontier(a, f) BY <2>0 DEF Undisturbed
    <2>3. \A i \in Standing(a)' : i \in Standing(a)
      BY DEF Standing, ItemOf
    <2>4. \A d : Taken(a, d)' <=> Taken(a, d) BY SameTaken
    <2>5. Scheduled(a)' = Scheduled(a) /\ \A r \in Scheduled(a) : runs'[r].due = runs[r].due
      BY DEF SameRuns
    <2>6. Frontier(a, f)' BY <2>2, <2>3, <2>4, <2>5 DEF Frontier
    <2> QED BY <2>1, <2>6 DEF Undisturbed
  <1>5. OneLiveRun' BY DEF IInv, OneLiveRun, SameRuns
  <1>6. DueFitsSchedule' BY DEF IInv, DueFitsSchedule, Fits
  <1>7. \A u \in Updates : Fresh(u)' BY DEF IInv, Fresh
  <1> QED BY <1>1, <1>2, <1>3, <1>4, <1>5, <1>6, <1>7 DEF IInv

\* Stage after a step, for a worker with item <<a, d>> in hand.
LEMMA StageOf ==
  ASSUME NEW w \in Workers, NEW a, NEW d, Cur(w)'.automaton = a, Cur(w)'.due = d,
         job'[w].pc \in {"begin", "fail", "advance"} /\ d # 0 => Taken(a, d)',
         job'[w].pc = "fire" /\ a \notin crossed' => Taken(a, d)' \/ Live(a)' = {}
  PROVE  Stage(w)'
  BY DEF Stage, Taken, Live, Scheduled

\* Stage of a worker the step leaves alone.
LEMMA SameStage ==
  ASSUME TypeOK, SameRuns, crossed' = crossed, NEW w \in Workers, job'[w] = job[w], Stage(w)
  PROVE  Stage(w)'
  <1>1. job[w].pc \in {"fire", "begin", "fail", "advance"} => Cur(w).automaton \in Automata
    BY JobType
  <1>2. Cur(w)' = Cur(w) BY DEF Cur
  <1>3. CASE job[w].pc \notin {"fire", "begin", "fail", "advance"} BY <1>3 DEF Stage
  <1>4. CASE job[w].pc \in {"fire", "begin", "fail", "advance"}
    <2>1. PICK a, d : a \in Automata /\ a = Cur(w).automaton /\ d = Cur(w).due BY <1>1, <1>4
    <2>2. Cur(w)'.automaton = a /\ Cur(w)'.due = d BY <1>2, <2>1
    <2>3. Taken(a, d)' <=> Taken(a, d) BY <2>1, SameTaken
    <2>4. Live(a)' \subseteq Live(a) BY <2>1 DEF SameRuns
    <2>5. /\ job[w].pc \in {"begin", "fail", "advance"} /\ d # 0 => Taken(a, d)
          /\ job[w].pc = "fire" /\ a \notin crossed => Taken(a, d) \/ Live(a) = {}
      BY <2>1 DEF Stage
    <2> QED BY <2>2, <2>3, <2>4, <2>5, StageOf
  <1> QED BY <1>3, <1>4

\* A quiet step of one worker: what it holds afterwards it held before.
LEMMA QuietWorker ==
  ASSUME IInv, TypeOK', SameRuns, UNCHANGED <<now, automata, edit, crossed, clashed>>,
         NEW w \in Workers, \A v \in Workers \ {w} : job'[v] = job[v],
         job'[w].queue \subseteq job[w].queue,
         \/ job'[w].cur = job[w].cur
         \/ job'[w].cur \in job[w].queue
         \/ job'[w].cur.due = 0 /\ job'[w].pc \notin {"skip", "fire", "advance"},
         job'[w].pc \in {"skip", "fire", "advance"} => job'[w].cur.due # 0,
         job'[w].at \in {job[w].at, now, 0},
         Stage(w)'
  PROVE  IInv'
  <1>0. TypeOK /\ Dated /\ now \in Nat BY DEF IInv, TypeOK
  <1>1. \A a \in Automata : \A i \in Held(a)' : i \in Held(a)
    <2> SUFFICES ASSUME NEW a \in Automata, NEW i \in Held(a)' PROVE i \in Held(a)
      OBVIOUS
    <2>1. /\ i \in Item /\ i.automaton = a /\ i.due # 0
          /\ \E v \in Workers : i \in job'[v].queue \/ i = job'[v].cur
      BY DEF Held
    <2>2. \E v \in Workers : i \in job[v].queue \/ i = job[v].cur BY <2>1
    <2> QED BY <2>1, <2>2 DEF Held
  <1>2. Dated'
    <2> SUFFICES ASSUME NEW v \in Workers
                 PROVE  /\ job'[v].at <= now'
                        /\ \A i \in job'[v].queue : i.due # 0
                        /\ job'[v].pc \in {"skip", "fire", "advance"} => job'[v].cur.due # 0
      BY DEF Dated, Cur
    <2>1. CASE v # w BY <1>0, <2>1 DEF Dated, Cur
    <2>2. CASE v = w BY <1>0, <2>2 DEF Dated
    <2> QED BY <2>1, <2>2
  <1>3. \A v \in Workers : Stage(v)'
    <2> SUFFICES ASSUME NEW v \in Workers, v # w PROVE Stage(v)' OBVIOUS
    <2> QED BY <1>0, SameStage DEF IInv
  <1> QED BY <1>0, <1>1, <1>2, <1>3, Quiet

LEMMA UnchangedRuns ==
  ASSUME UNCHANGED runs PROVE SameRuns
  BY DEF SameRuns, Scheduled, Live

LEMMA InitIInv == Init => IInv
  <1> SUFFICES ASSUME Init PROVE IInv OBVIOUS
  <1>0. \A a \in Automata : \E s \in Schedules :
          /\ s \in Schedule /\ automata[a].sched = s /\ automata[a].due = NextDue(s, 0)
          /\ automata[a].due \in Nat /\ automata[a].due # 0
          /\ automata[a] \in AutomatonRow
    <2>1. \A s \in Schedules : s \in Schedule /\ NextDue(s, 0) \in Nat /\ NextDue(s, 0) # 0
      BY SchedulesAssumption, NextDueType
    <2> TAKE a \in Automata
    <2>2. PICK e \in BOOLEAN, s \in Schedules :
            automata[a] = [enabled |-> e, archived |-> FALSE, sched |-> s, due |-> NextDue(s, 0)]
      BY DEF Init
    <2>3. s \in Schedule /\ NextDue(s, 0) \in Nat /\ NextDue(s, 0) # 0 BY <2>1
    <2> QED BY <2>2, <2>3 DEF AutomatonRow
  <1>1. TypeOK
    <2>1. automata \in [Automata -> AutomatonRow] BY <1>0 DEF Init
    <2> QED BY <2>1, IdleType DEF Init, TypeOK
  <1>2. \A a \in Automata : Scheduled(a) = {} BY DEF Init, Scheduled
  <1>3. \A a \in Automata : Held(a) = {} BY IdleType DEF Init, Held, NoItem
  <1>4. OneRowPerDue /\ RowsPast /\ HeldPast /\ OneLiveRun
    BY <1>2, <1>3 DEF OneRowPerDue, RowsPast, HeldPast, OneLiveRun, Live
  <1>5. Dated /\ \A w \in Workers : Stage(w) BY IdleType DEF Init, Dated, Stage, Idle
  <1>6. ASSUME NEW a \in Automata PROVE Undisturbed(a)
    <2>1. Frontier(a, automata[a].due) BY <1>2, <1>3 DEF Frontier, Standing, ItemOf
    <2> QED BY <1>0, <1>3, <2>1 DEF Undisturbed
  <1>7. DueFitsSchedule
    <2> SUFFICES ASSUME NEW a \in Automata PROVE Fits(automata[a]) BY DEF DueFitsSchedule
    <2>1. PICK s \in Schedule : /\ automata[a].sched = s /\ automata[a].due = NextDue(s, 0)
                               /\ automata[a].due # 0
      BY <1>0
    <2> QED BY <2>1, NextDueFits DEF Fits
  <1>8. \A u \in Updates : Fresh(u) BY DEF Init, NoEdit, Fresh
  <1> QED BY <1>1, <1>4, <1>5, <1>6, <1>7, <1>8 DEF IInv

-------------------------------------------------------------------------------
(* The steps that start no scheduled run and write no schedule *)

LEMMA QuietSteps ==
  ASSUME IInv, TypeOK', NEW w \in Workers,
         \/ StartTick(w) \/ Reap(w) \/ TickEnds(w) \/ Look(w) \/ ClaimConflict(w)
         \/ Begin(w) \/ FailRun(w) \/ Drop(w) \/ Crash(w) \/ RunNow(w)
  PROVE  IInv'
  <1>0. /\ TypeOK /\ Dated /\ Stage(w) /\ job \in [Workers -> Job] /\ job[w] \in Job
        /\ runs \in Seq(Row)
    BY DEF IInv, TypeOK
  <1>1. CASE StartTick(w)
    <2>1. /\ job'[w].pc = "reap" /\ job'[w].queue = {} /\ job'[w].cur.due = 0
          /\ job'[w].at = now /\ \A v \in Workers \ {w} : job'[v] = job[v]
      BY <1>0, <1>1, IdleType DEF StartTick, Job, NoItem
    <2>2. Stage(w)' BY <2>1 DEF Stage
    <2>3. SameRuns BY <1>1, UnchangedRuns DEF StartTick
    <2> QED BY <1>1, <2>1, <2>2, <2>3, QuietWorker DEF StartTick
  <1>2. CASE Reap(w)
    <2>1. PICK S \in SUBSET Unfinished : runs' = Reaped(w, S)
      BY <1>2 DEF Reap, Unfinished
    <2>2. SameRuns BY <1>0, <2>1, ReapedType, SameRowsRuns
    <2>3. /\ job'[w].pc = "list" /\ job'[w].queue = job[w].queue /\ job'[w].cur = job[w].cur
          /\ job'[w].at = job[w].at /\ \A v \in Workers \ {w} : job'[v] = job[v]
      BY <1>0, <1>2 DEF Reap, Job
    <2>4. Stage(w)' BY <2>3 DEF Stage
    <2> QED BY <1>2, <2>2, <2>3, <2>4, QuietWorker DEF Reap
  <1>3. CASE TickEnds(w) \/ Crash(w)
    <2>1. /\ job'[w] = Idle /\ \A v \in Workers \ {w} : job'[v] = job[v]
          /\ UNCHANGED <<now, automata, runs, edit, crossed, clashed>>
      BY <1>0, <1>3 DEF TickEnds, Crash
    <2>2. Stage(w)' BY <2>1, IdleType DEF Stage
    <2>3. Idle.at = 0 /\ Idle.cur.due = 0 /\ Idle.queue = {} BY DEF Idle, NoItem
    <2> QED BY <2>1, <2>2, <2>3, IdleType, UnchangedRuns, QuietWorker
  <1>4. CASE Look(w)
    <2>1. PICK i \in Oldest(w) :
            job' = [job EXCEPT ![w].queue = @ \ {i}, ![w].cur = i, ![w].pc = Decision(w, i)]
      BY <1>4 DEF Look
    <2>2. i \in job[w].queue /\ i \in Item /\ i.due # 0 BY <1>0, <2>1, JobType DEF Dated
    <2>3. /\ job'[w].pc = Decision(w, i) /\ job'[w].queue \subseteq job[w].queue
          /\ job'[w].cur = i /\ job'[w].at = job[w].at
          /\ \A v \in Workers \ {w} : job'[v] = job[v]
      BY <1>0, <2>1 DEF Job
    <2>4. SameRuns BY <1>4, UnchangedRuns DEF Look
    <2>5. Decision(w, i) \in {"skip", "fire"}
          /\ (Decision(w, i) = "fire" => ~HasUnfinishedRun(i.automaton))
      BY DEF Decision
    <2>6. ~HasUnfinishedRun(i.automaton) => Live(i.automaton) = {}
      BY DEF HasUnfinishedRun, Live, Scheduled
    <2>7. Stage(w)'
      <3>1. Cur(w)' = i BY <2>3 DEF Cur
      <3>2. Decision(w, i) = "fire" => Live(i.automaton)' = {}
        BY <1>4, <2>5, <2>6 DEF Look, Live, Scheduled
      <3> QED BY <2>3, <2>5, <3>1, <3>2, StageOf
    <2> QED BY <1>4, <2>2, <2>3, <2>4, <2>7, QuietWorker DEF Look
  <1>5. CASE ClaimConflict(w)
    <2>1. job'[w].pc = "loop" /\ job'[w].cur = NoItem /\ job'[w].queue = job[w].queue
          /\ job'[w].at = job[w].at /\ \A v \in Workers \ {w} : job'[v] = job[v]
      BY <1>0, <1>5 DEF ClaimConflict, Proceed, Job
    <2>2. Stage(w)' BY <2>1 DEF Stage
    <2>3. NoItem.due = 0 BY DEF NoItem
    <2>4. SameRuns BY <1>5, UnchangedRuns DEF ClaimConflict
    <2> QED BY <1>5, <2>1, <2>2, <2>3, <2>4, QuietWorker DEF ClaimConflict
  <1>6. ASSUME job[w].pc \in {"begin", "fail"}, SameRuns,
               UNCHANGED <<now, automata, edit, crossed, clashed>>,
               job' = AfterStart(w) \/ job' = [job EXCEPT ![w].pc = "fail"]
        PROVE  IInv'
    <2>1. \A v \in Workers \ {w} : job'[v] = job[v] BY <1>0, <1>6 DEF AfterStart
    <2>2. PICK a, d : a = Cur(w).automaton /\ d = Cur(w).due /\ a \in Automata /\ d \in Nat
      BY <1>0, <1>6, JobType
    <2>3. d # 0 => Taken(a, d)
      BY <1>0, <1>6, <2>2 DEF Stage
    <2>4. Taken(a, d)' <=> Taken(a, d) BY <1>6, <2>2, SameTaken
    <2>5. CASE job' = AfterStart(w) /\ d = 0
      <3>1. job'[w] = Idle BY <1>0, <2>2, <2>5 DEF AfterStart
      <3>2. Idle.at = 0 /\ Idle.cur.due = 0 /\ Idle.queue = {} BY DEF Idle, NoItem
      <3>3. Stage(w)' BY <3>1, IdleType DEF Stage
      <3> QED BY <1>6, <2>1, <3>1, <3>2, <3>3, IdleType, QuietWorker
    <2>6. CASE job' = [job EXCEPT ![w].pc = "fail"] \/ (job' = AfterStart(w) /\ d # 0)
      <3>1. /\ job'[w].pc \in {"fail", "advance"} /\ job'[w].queue = job[w].queue
            /\ job'[w].cur = job[w].cur /\ job'[w].at = job[w].at
            /\ job'[w].pc = "advance" => d # 0
        BY <1>0, <2>2, <2>6 DEF AfterStart, Job
      <3>2. Cur(w)'.automaton = a /\ Cur(w)'.due = d BY <2>2, <3>1 DEF Cur
      <3>3. Stage(w)' BY <2>3, <2>4, <3>1, <3>2, StageOf
      <3>4. job'[w].pc \in {"skip", "fire", "advance"} => job'[w].cur.due # 0
        BY <2>2, <3>1 DEF Cur
      <3> QED BY <1>6, <2>1, <3>1, <3>3, <3>4, QuietWorker
    <2> QED BY <1>6, <2>5, <2>6
  <1>7. CASE Begin(w)
    <2>1. job[w].pc = "begin" /\ job[w].run \in DOMAIN runs BY <1>0, <1>7, JobType DEF Begin, At
    <2>2. PICK stored \in BOOLEAN : runs' = [runs EXCEPT ![job[w].run].begun = stored]
      BY <1>7 DEF Begin
    <2>3. runs[job[w].run] \in Row BY <1>0, <2>1
    <2>4. SameRows BY <1>0, <2>1, <2>2, <2>3 DEF SameRows, Row
    <2>5. SameRuns BY <1>0, <2>4, SameRowsRuns
    <2>6. job' = AfterStart(w) \/ job' = [job EXCEPT ![w].pc = "fail"] BY <1>7 DEF Begin
    <2> QED BY <1>6, <1>7, <2>1, <2>5, <2>6 DEF Begin
  <1>8. CASE FailRun(w)
    <2>1. job[w].pc = "fail" /\ job[w].run \in DOMAIN runs BY <1>0, <1>8, JobType DEF FailRun, At
    <2>2. runs' = Move(job[w].run, Unfinished, "failed") BY <1>8 DEF FailRun
    <2>3. "failed" \in Unfinished \cup Terminal BY DEF Terminal
    <2>4. SameRows BY <1>0, <2>1, <2>2, <2>3, MoveType DEF SameRows
    <2>5. SameRuns BY <1>0, <2>4, SameRowsRuns
    <2> QED BY <1>6, <1>8, <2>1, <2>5 DEF FailRun
  <1>9. CASE Drop(w)
    <2>1. SameRuns /\ UNCHANGED <<now, automata, edit, crossed, clashed>>
      BY <1>9, UnchangedRuns DEF Drop
    <2>2. CASE At(w, "loop") /\ \E i \in Oldest(w) : job' = [job EXCEPT ![w].queue = @ \ {i}]
      <3>1. /\ job'[w].pc = "loop" /\ job'[w].queue \subseteq job[w].queue
            /\ job'[w].cur = job[w].cur /\ job'[w].at = job[w].at
            /\ \A v \in Workers \ {w} : job'[v] = job[v]
        BY <1>0, <2>2 DEF Job, At
      <3>2. Stage(w)' BY <3>1 DEF Stage
      <3> QED BY <2>1, <3>1, <3>2, QuietWorker
    <2>3. CASE job' = Proceed(w)
      <3>1. job'[w].pc = "loop" /\ job'[w].cur = NoItem /\ job'[w].queue = job[w].queue
            /\ job'[w].at = job[w].at /\ \A v \in Workers \ {w} : job'[v] = job[v]
        BY <1>0, <2>3 DEF Proceed, Job
      <3>2. Stage(w)' BY <3>1 DEF Stage
      <3>3. NoItem.due = 0 BY DEF NoItem
      <3> QED BY <2>1, <3>1, <3>2, <3>3, QuietWorker
    <2> QED BY <1>9, <2>2, <2>3 DEF Drop
  <1>10. CASE RunNow(w)
    <2>1. PICK a \in Automata :
            /\ runs' = NewRun(a, 0, "manual", "queued")
            /\ job' = [job EXCEPT ![w] =
                 [Idle EXCEPT !.pc = "begin", !.run = Len(runs) + 1,
                              !.cur = [ItemOf(a) EXCEPT !.due = 0]]]
      BY <1>10 DEF RunNow
    <2>2. SameRuns BY <1>0, <2>1, ManualRun
    <2> DEFINE j == [Idle EXCEPT !.pc = "begin", !.run = Len(runs) + 1,
                                 !.cur = [ItemOf(a) EXCEPT !.due = 0]]
    <2>3. j.pc = "begin" /\ j.queue = {} /\ j.cur.due = 0 /\ j.at = 0
      BY DEF Idle, ItemOf
    <2>4. job'[w] = j /\ \A v \in Workers \ {w} : job'[v] = job[v] BY <1>0, <2>1
    <2> HIDE DEF j
    <2>5. Stage(w)' BY <2>3, <2>4 DEF Stage, Cur
    <2> QED BY <1>10, <2>2, <2>3, <2>4, <2>5, QuietWorker DEF RunNow
  <1> QED BY <1>1, <1>2, <1>3, <1>4, <1>5, <1>7, <1>8, <1>9, <1>10

\* listDue: a tick takes hold of rows as they stand.
LEMMA ListStep ==
  ASSUME IInv, TypeOK', NEW w \in Workers, List(w)
  PROVE  IInv'
  <1>0. TypeOK /\ Dated /\ job \in [Workers -> Job] /\ job[w] \in Job /\ now \in Nat
        /\ automata \in [Automata -> AutomatonRow]
    BY DEF IInv, TypeOK
  <1>1. PICK Q \in SUBSET Due(job[w].at) :
          job' = [job EXCEPT ![w].pc = "loop", ![w].queue = {ItemOf(a) : a \in Q}]
    BY DEF List
  <1>2. /\ job'[w].pc = "loop" /\ job'[w].queue = {ItemOf(a) : a \in Q}
        /\ job'[w].cur = job[w].cur /\ job'[w].at = job[w].at
        /\ \A v \in Workers \ {w} : job'[v] = job[v]
    BY <1>0, <1>1 DEF Job
  <1>3. \A b \in Q : b \in Automata /\ automata[b].due # 0 /\ automata[b].due <= now
    BY <1>0 DEF Due, Dated, Job, AutomatonRow
  <1>4. \A a \in Automata : \A i \in Held(a)' :
          i \in Held(a) \/ (automata[a].due # 0 /\ i = ItemOf(a) /\ i.due <= now)
    <2> SUFFICES ASSUME NEW a \in Automata, NEW i \in Held(a)', i \notin Held(a)
                 PROVE  automata[a].due # 0 /\ i = ItemOf(a) /\ i.due <= now
      OBVIOUS
    <2>1. i \in Item /\ i.automaton = a /\ i.due # 0 BY DEF Held
    <2>2. i \in job'[w].queue BY <1>2, <2>1 DEF Held
    <2>3. PICK b \in Q : i = ItemOf(b) BY <1>2, <2>2
    <2>4. b = a BY <2>1, <2>3 DEF ItemOf
    <2> QED BY <1>3, <2>3, <2>4 DEF ItemOf
  <1>5. Dated'
    <2>1. \A i \in job'[w].queue : i.due # 0 BY <1>2, <1>3 DEF ItemOf
    <2>2. now' = now BY DEF List
    <2> QED BY <1>0, <1>2, <2>1, <2>2 DEF Dated, Cur
  <1>6. SameRuns BY UnchangedRuns DEF List
  <1>7. \A v \in Workers : Stage(v)'
    <2>1. Stage(w)' BY <1>2 DEF Stage
    <2>2. crossed' = crossed BY DEF List
    <2> QED BY <1>0, <1>2, <1>6, <2>1, <2>2, SameStage DEF IInv
  <1>8. now' >= now /\ UNCHANGED <<automata, edit, crossed, clashed>> BY <1>0 DEF List
  <1> QED BY <1>4, <1>5, <1>6, <1>7, <1>8, Quiet

\* The threads, the start of an update, the clock.
LEMMA OtherSteps ==
  ASSUME IInv, TypeOK',
         \/ \E i \in DOMAIN runs : TurnStarts(i) \/ TurnEnds(i)
         \/ \E u \in Updates : EditRefused(u) \/ \E a \in Automata : EditRead(u, a)
         \/ Clock
         \/ UNCHANGED vars
  PROVE  IInv'
  <1>0. TypeOK /\ Dated /\ now \in Nat BY DEF IInv, TypeOK
  <1>1. ASSUME SameRuns, now' >= now, UNCHANGED <<automata, job, crossed, clashed>>,
               \A u \in Updates : edit'[u].open =>
                 edit'[u] = edit[u] \/ (/\ edit'[u].enabled = automata[edit'[u].automaton].enabled
                                       /\ edit'[u].sched = automata[edit'[u].automaton].sched)
        PROVE  IInv'
    <2>1. \A a \in Automata : Held(a)' = Held(a) BY <1>1 DEF Held
    <2>2. now' \in Nat BY DEF TypeOK
    <2>3. Dated'
      <3>1. \A w \in Workers : job[w].at \in Nat BY <1>0 DEF TypeOK, Job
      <3> QED BY <1>0, <1>1, <2>2, <3>1 DEF Dated, Cur
    <2>4. \A w \in Workers : Stage(w)' BY <1>0, <1>1, SameStage DEF IInv
    <2> QED BY <1>1, <2>1, <2>3, <2>4, Quiet
  <1>2. ASSUME NEW i \in DOMAIN runs, TurnStarts(i) \/ TurnEnds(i) PROVE IInv'
    <2>1. SameRows
      <3>1. CASE TurnStarts(i)
        <4>1. "running" \in Unfinished \cup Terminal /\ "queued" \in Unfinished BY DEF Unfinished
        <4> QED BY <1>0, <3>1, <4>1, MoveType DEF TurnStarts, SameRows
      <3>2. CASE TurnEnds(i)
        <4>1. PICK t \in {"ended", "failed"} : runs' = Move(i, Unfinished, t)
          BY <3>2 DEF TurnEnds
        <4>2. t \in Unfinished \cup Terminal BY DEF Terminal
        <4> QED BY <1>0, <4>1, <4>2, MoveType DEF SameRows
      <3> QED BY <1>2, <3>1, <3>2
    <2>2. SameRuns BY <1>0, <2>1, SameRowsRuns
    <2>3. now' >= now /\ UNCHANGED <<automata, job, crossed, clashed, edit>>
      BY <1>0, <1>2 DEF TurnStarts, TurnEnds
    <2> QED BY <1>1, <2>2, <2>3
  <1>3. ASSUME NEW u \in Updates, NEW a \in Automata, EditRead(u, a) PROVE IInv'
    <2>1. SameRuns BY <1>3, UnchangedRuns DEF EditRead
    <2>2. now' >= now /\ UNCHANGED <<automata, job, crossed, clashed>> BY <1>0, <1>3 DEF EditRead
    <2>3. edit \in [Updates -> Edit \cup {NoEdit}] BY <1>0 DEF TypeOK
    <2>4. \A v \in Updates :
            edit'[v] = IF v = u THEN [open |-> TRUE, automaton |-> a,
                                      enabled |-> automata[a].enabled,
                                      sched |-> automata[a].sched]
                       ELSE edit[v]
      BY <1>3, <2>3 DEF EditRead
    <2> QED BY <1>1, <2>1, <2>2, <2>4
  <1>4. ASSUME NEW u \in Updates, EditRefused(u) PROVE IInv'
    <2>1. SameRuns BY <1>4, UnchangedRuns DEF EditRefused
    <2>2. now' >= now /\ UNCHANGED <<automata, job, crossed, clashed>>
      BY <1>0, <1>4 DEF EditRefused
    <2>3. edit \in [Updates -> Edit \cup {NoEdit}] BY <1>0 DEF TypeOK
    <2>4. \A v \in Updates : edit'[v] = IF v = u THEN NoEdit ELSE edit[v]
      BY <1>4, <2>3 DEF EditRefused
    <2>5. ~NoEdit.open BY DEF NoEdit
    <2> QED BY <1>1, <2>1, <2>2, <2>4, <2>5
  <1>5. CASE Clock
    BY <1>0, <1>1, <1>5, UnchangedRuns DEF Clock
  <1>6. CASE UNCHANGED vars
    BY <1>0, <1>1, <1>6, UnchangedRuns DEF vars
  <1> QED BY <1>2, <1>3, <1>4, <1>5, <1>6

-------------------------------------------------------------------------------
(* A scheduled run is recorded: the claim, or the skip of an instant *)

LEMMA NewScheduledRun ==
  ASSUME IInv, TypeOK', NEW w \in Workers, NEW a \in Automata, NEW d \in Nat,
         NEW s, s \in {"queued", "skipped"}, NEW c \in Held(a), c.due = d, ~Taken(a, d),
         runs' = NewRun(a, d, "scheduled", s),
         s = "queued" /\ a \notin crossed => Live(a) = {},
         UNCHANGED <<now, automata, edit, crossed, clashed>>,
         \A v \in Workers \ {w} : job'[v] = job[v],
         job'[w].queue = job[w].queue, job'[w].cur = job[w].cur, job'[w].at = job[w].at,
         Cur(w).automaton = a, Cur(w).due = d, job'[w].pc \in {"begin", "advance"}
  PROVE  IInv'
  <1> DEFINE n == Len(runs) + 1
             new == NewRun(a, d, "scheduled", s)
  <1>0. TypeOK /\ Dated /\ now \in Nat /\ HeldPast /\ d # 0 BY HeldItem DEF IInv, TypeOK
  <1>1. s \in Unfinished \cup Terminal /\ "scheduled" \in {"scheduled", "manual"}
    BY DEF Unfinished, Terminal
  <1>2. DOMAIN runs \subseteq DOMAIN new /\ n \in DOMAIN new /\ n \notin DOMAIN runs
    BY <1>0, <1>1, NewRunType
  <1>3. \A i \in DOMAIN new : i \in DOMAIN runs \/ i = n BY <1>0, <1>1, NewRunType
  <1> DEFINE row == [automaton |-> a, due |-> d, trigger |-> "scheduled", status |-> s,
                     touched |-> IF s \in Unfinished THEN now ELSE 0, begun |-> FALSE]
  <1>22. row.automaton = a /\ row.due = d /\ row.trigger = "scheduled" /\ row.status = s
    OBVIOUS
  <1>23. new = Append(runs, row) /\ runs \in Seq(Row) BY <1>0 DEF NewRun, TypeOK
  <1>24. row \in Row BY <1>0, <1>1, HeldItem DEF Row
  <1> HIDE DEF row
  <1>25. new[n] = row BY <1>23, <1>24
  <1>4. \A i \in DOMAIN runs : new[i] = runs[i] BY <1>23, <1>24
  <1>5. new[n].automaton = a /\ new[n].due = d /\ new[n].trigger = "scheduled"
        /\ new[n].status = s
    BY <1>22, <1>25
  <1> HIDE DEF n, new
  <1>6. runs' = new BY DEF new
  <1>7. Scheduled(a)' = Scheduled(a) \cup {n} /\ n \notin Scheduled(a)
    BY <1>2, <1>3, <1>4, <1>5, <1>6 DEF Scheduled
  <1>8. \A b \in Automata : b # a => Scheduled(b)' = Scheduled(b)
    BY <1>2, <1>3, <1>4, <1>5, <1>6 DEF Scheduled
  <1>9. \A b \in Automata : \A i \in Scheduled(b) : runs'[i] = runs[i]
    BY <1>4, <1>6 DEF Scheduled
  <1>10. ASSUME NEW b \in Automata, NEW e
         PROVE  Taken(b, e)' <=> Taken(b, e) \/ (b = a /\ e = d)
    <2>1. CASE b = a BY <1>5, <1>6, <1>7, <1>9, <2>1 DEF Taken
    <2>2. CASE b # a BY <1>8, <1>9, <2>2 DEF Taken
    <2> QED BY <2>1, <2>2
  <1>11. OneRowPerDue'
    <2> SUFFICES ASSUME NEW b \in Automata, NEW i \in Scheduled(b)', NEW j \in Scheduled(b)',
                        runs'[i].due = runs'[j].due
                 PROVE  i = j
      BY DEF OneRowPerDue
    <2>1. \A k \in Scheduled(a) : runs[k].due # d BY DEF Taken
    <2>2. CASE b # a BY <1>8, <1>9, <2>2 DEF IInv, OneRowPerDue
    <2>3. CASE b = a BY <1>5, <1>6, <1>7, <1>9, <2>1, <2>3 DEF IInv, OneRowPerDue
    <2> QED BY <2>2, <2>3
  <1>12. RowsPast'
    <2> SUFFICES ASSUME NEW b \in Automata, NEW i \in Scheduled(b)' PROVE runs'[i].due <= now
      BY DEF RowsPast
    <2>1. d <= now BY <1>0 DEF HeldPast
    <2>2. CASE b # a BY <1>8, <1>9, <2>2 DEF IInv, RowsPast
    <2>3. CASE b = a BY <1>5, <1>6, <1>7, <1>9, <2>1, <2>3 DEF IInv, RowsPast
    <2> QED BY <2>2, <2>3
  <1>13. \A b \in Automata : Held(b)' = Held(b)
    <2>1. \A v \in Workers : job'[v].queue = job[v].queue /\ job'[v].cur = job[v].cur
      OBVIOUS
    <2> QED BY <2>1 DEF Held
  <1>14. HeldPast' BY <1>13 DEF IInv, HeldPast
  <1>15. Dated'
    <2>1. Cur(w)'.due # 0 BY <1>0 DEF Cur
    <2>2. \A v \in Workers \ {w} : Cur(v)' = Cur(v) BY DEF Cur
    <2> QED BY <1>0, <2>1, <2>2 DEF Dated
  <1>16. ASSUME NEW b \in Automata \ crossed PROVE Undisturbed(b)'
    <2>1. Undisturbed(b) BY DEF IInv
    <2>2. PICK f \in Nat : Frontier(b, f) BY <2>1 DEF Undisturbed
    <2>3. Standing(b)' = Standing(b) BY <1>13 DEF Standing, ItemOf
    <2>4. CASE b # a
      <3>1. \A e : Taken(b, e)' <=> Taken(b, e) BY <1>10, <2>4
      <3>2. Frontier(b, f)' BY <1>8, <1>9, <2>2, <2>3, <2>4, <3>1 DEF Frontier
      <3> QED BY <1>13, <2>1, <3>2 DEF Undisturbed
    <2>5. CASE b = a
      <3>1. c \in Standing(a) BY DEF Standing
      <3>2. f = d BY <2>2, <2>5, <3>1 DEF Frontier
      <3>3. \A e : Taken(a, e)' <=> Taken(a, e) \/ e = d BY <1>10
      <3> DEFINE g == NextDue(automata[a].sched, d)
      <3>4. g \in Nat
        BY <1>0, NextDueType DEF TypeOK, AutomatonRow
      <3>5. Frontier(a, g)'
        <4>1. \A i \in Standing(a)' : i.due = g \/ Taken(a, i.due)'
          BY <2>2, <2>3, <2>5, <3>2, <3>3 DEF Frontier
        <4>2. ASSUME automata[a].sched.kind # "once", NEW i \in Standing(a)',
                     NEW r \in Scheduled(a)', runs'[r].due >= i.due,
                     NEW m, m = NextDue(automata[a].sched, runs'[r].due)
              PROVE  m = g \/ Taken(a, m)'
          <5>1. CASE r = n BY <1>5, <1>6, <4>2, <5>1
          <5>2. CASE r # n
            <6>1. r \in Scheduled(a) /\ runs'[r] = runs[r] BY <1>7, <1>9, <5>2
            <6>2. m = f \/ Taken(a, m) BY <2>2, <2>3, <2>5, <4>2, <6>1 DEF Frontier
            <6> QED BY <3>2, <3>3, <6>2
          <5> QED BY <5>1, <5>2
        <4> QED BY <4>1, <4>2 DEF Frontier
      <3> QED BY <1>13, <2>1, <2>5, <3>4, <3>5 DEF Undisturbed
    <2> QED BY <2>4, <2>5
  <1>17. \A b \in Automata : b # a => Live(b)' = Live(b)
    BY <1>8, <1>9 DEF Live
  <1>18. s = "skipped" => Live(a)' = Live(a)
    BY <1>5, <1>6, <1>7, <1>9 DEF Live, Unfinished
  <1>19. OneLiveRun'
    <2> SUFFICES ASSUME NEW b \in Automata, b \notin crossed, NEW i \in Live(b)', NEW j \in Live(b)'
                 PROVE  i = j
      BY DEF OneLiveRun
    <2>1. CASE b # a BY <1>17, <2>1 DEF IInv, OneLiveRun
    <2>2. CASE b = a /\ s = "skipped" BY <1>18, <2>2 DEF IInv, OneLiveRun
    <2>3. CASE b = a /\ s = "queued"
      <3>1. Live(a) = {} BY <2>3
      <3>2. \A k \in Live(a)' : k = n BY <1>7, <1>9, <3>1 DEF Live
      <3> QED BY <2>3, <3>2
    <2> QED BY <2>1, <2>2, <2>3
  <1>20. ASSUME NEW v \in Workers PROVE Stage(v)'
    <2>1. CASE v = w
      <3>1. Cur(w)'.automaton = a /\ Cur(w)'.due = d BY DEF Cur
      <3>2. Taken(a, d)' BY <1>10
      <3>3. job'[w].pc # "fire" OBVIOUS
      <3> QED BY <2>1, <3>1, <3>2, <3>3, StageOf
    <2>2. CASE v # w /\ job[v].pc \notin {"fire", "begin", "fail", "advance"}
      BY <2>2 DEF Stage
    <2>3. CASE v # w /\ job[v].pc \in {"fire", "begin", "fail", "advance"}
      <3>1. PICK b, e : b \in Automata /\ b = Cur(v).automaton /\ e = Cur(v).due
        BY <1>0, <2>3, JobType
      <3>2. Cur(v)'.automaton = b /\ Cur(v)'.due = e BY <2>3, <3>1 DEF Cur
      <3>3. /\ job[v].pc \in {"begin", "fail", "advance"} /\ e # 0 => Taken(b, e)
            /\ job[v].pc = "fire" /\ b \notin crossed => Taken(b, e) \/ Live(b) = {}
        BY <3>1 DEF IInv, Stage
      <3>4. Taken(b, e) => Taken(b, e)' BY <1>10, <3>1
      <3>5. ASSUME job[v].pc = "fire", b \notin crossed, ~Taken(b, e)
            PROVE  Taken(b, e)' \/ Live(b)' = {}
        <4>1. CASE b # a BY <1>17, <3>1, <3>3, <3>5, <4>1
        <4>2. CASE b = a
          <5>1. Cur(v) \in Held(a) BY <1>0, <3>1, <3>5, <4>2, CurHeld
          <5>2. PICK f \in Nat : Frontier(a, f) BY <3>5, <4>2 DEF IInv, Undisturbed
          <5>3. Cur(v) \in Standing(a) /\ c \in Standing(a) BY <5>1 DEF Standing
          <5>4. e = f BY <3>1, <3>5, <4>2, <5>2, <5>3 DEF Frontier
          <5>5. d = f BY <5>2, <5>3 DEF Frontier
          <5> QED BY <1>10, <4>2, <5>4, <5>5
        <4> QED BY <4>1, <4>2
      <3> QED BY <2>3, <3>2, <3>3, <3>4, <3>5, StageOf
    <2> QED BY <2>1, <2>2, <2>3
  <1>21. DueFitsSchedule' BY DEF IInv, DueFitsSchedule, Fits
  <1>26. \A u \in Updates : Fresh(u)' BY DEF IInv, Fresh
  <1> QED BY <1>11, <1>12, <1>14, <1>15, <1>16, <1>19, <1>20, <1>21, <1>26 DEF IInv

LEMMA RecordSteps ==
  ASSUME IInv, TypeOK', NEW w \in Workers, SkipRow(w) \/ Claim(w)
  PROVE  IInv'
  <1>0. TypeOK /\ Dated /\ Stage(w) /\ job \in [Workers -> Job] /\ job[w] \in Job
    BY DEF IInv, TypeOK
  <1>1. job[w].pc \in {"skip", "fire"} BY DEF SkipRow, Claim, At
  <1>2. PICK a, d, c : /\ a \in Automata /\ a = Cur(w).automaton /\ d \in Nat /\ d = Cur(w).due
                       /\ c = Cur(w) /\ c \in Held(a) /\ c.due = d
    BY <1>0, <1>1, JobType, CurHeld
  <1>3. /\ \A v \in Workers \ {w} : job'[v] = job[v]
        /\ job'[w].queue = job[w].queue /\ job'[w].cur = job[w].cur /\ job'[w].at = job[w].at
        /\ job'[w].pc = IF job[w].pc = "skip" THEN "advance" ELSE "begin"
    BY <1>0 DEF SkipRow, Claim, Job, At
  <1>4. UNCHANGED <<now, automata, edit, crossed, clashed>> BY DEF SkipRow, Claim
  <1>5. CASE SkipRow(w) /\ Taken(a, d)
    <2>1. runs' = runs /\ job'[w].pc = "advance" BY <1>2, <1>3, <1>5 DEF SkipRow, At
    <2>2. SameRuns BY <2>1, UnchangedRuns
    <2>3. Cur(w)'.automaton = a /\ Cur(w)'.due = d BY <1>2, <1>3 DEF Cur
    <2>4. Taken(a, d)' BY <1>2, <1>5, <2>2, SameTaken
    <2>5. Stage(w)' BY <2>1, <2>3, <2>4, StageOf
    <2>6. job'[w].cur.due # 0 BY <1>2, <1>3, HeldItem DEF Cur
    <2> QED BY <1>3, <1>4, <2>2, <2>5, <2>6, QuietWorker
  <1>6. CASE SkipRow(w) /\ ~Taken(a, d)
    <2>1. runs' = NewRun(a, d, "scheduled", "skipped") /\ job'[w].pc = "advance"
      BY <1>2, <1>3, <1>6 DEF SkipRow, At
    <2> QED BY <1>2, <1>3, <1>4, <1>6, <2>1, NewScheduledRun
  <1>7. CASE Claim(w)
    <2>1. runs' = NewRun(a, d, "scheduled", "queued") /\ job'[w].pc = "begin" /\ ~Taken(a, d)
      BY <1>2, <1>3, <1>7 DEF Claim, At
    <2>2. a \notin crossed => Live(a) = {} BY <1>0, <1>2, <1>7, <2>1 DEF Claim, At, Stage
    <2> QED BY <1>2, <1>3, <1>4, <2>1, <2>2, NewScheduledRun
  <1> QED BY <1>5, <1>6, <1>7

-------------------------------------------------------------------------------
(* The steps that write a row of `automata' *)

\* A step that writes the row of a alone and starts no run: what is left to
\* show is that a, when no update overlapped, still has its frontier.
LEMMA RowWritten ==
  ASSUME IInv, TypeOK', NEW a \in Automata, UNCHANGED <<runs, now>>,
         \A b \in Automata \ {a} : automata'[b] = automata[b],
         \A u \in Updates : edit'[u].open =>
           /\ edit'[u] = edit[u]
           /\ \/ edit[u].automaton # a
              \/ a \in crossed' \cup clashed'
              \/ /\ automata'[a].enabled = automata[a].enabled
                 /\ automata'[a].sched = automata[a].sched,
         crossed \subseteq crossed', crossed' \subseteq crossed \cup {a},
         clashed \subseteq clashed', clashed' \subseteq clashed \cup {a},
         \A b \in Automata : \A i \in Held(b)' : i \in Held(b),
         a \notin crossed' => Undisturbed(a)',
         a \notin crossed' \cup clashed' /\ automata'[a].enabled => Fits(automata'[a]),
         Dated', \A w \in Workers : Stage(w)'
  PROVE  IInv'
  <1>0. TypeOK BY DEF IInv
  <1>1. \A b \in Automata : Scheduled(b)' = Scheduled(b) /\ Live(b)' = Live(b)
    BY DEF Scheduled, Live
  <1>2. OneRowPerDue' /\ RowsPast' BY <1>1 DEF IInv, OneRowPerDue, RowsPast
  <1>3. OneLiveRun' BY <1>1 DEF IInv, OneLiveRun
  <1>4. HeldPast' BY DEF IInv, HeldPast
  <1>5. ASSUME NEW b \in Automata \ crossed' PROVE Undisturbed(b)'
    <2>1. CASE b = a BY <2>1
    <2>2. CASE b # a
      <3>1. Undisturbed(b) BY DEF IInv
      <3>2. PICK f \in Nat : Frontier(b, f) BY <3>1 DEF Undisturbed
      <3>3. \A i \in Standing(b)' : i \in Standing(b) BY <2>2 DEF Standing, ItemOf
      <3>4. \A d : Taken(b, d)' <=> Taken(b, d) BY <1>1 DEF Taken
      <3>5. Frontier(b, f)' BY <1>1, <2>2, <3>2, <3>3, <3>4 DEF Frontier
      <3> QED BY <2>2, <3>1, <3>5 DEF Undisturbed
    <2> QED BY <2>1, <2>2
  <1>6. DueFitsSchedule'
    <2> SUFFICES ASSUME NEW b \in Automata, b \notin crossed' \cup clashed', automata'[b].enabled
                 PROVE  Fits(automata'[b])
      BY DEF DueFitsSchedule, Fits
    <2>1. CASE b = a BY <2>1
    <2>2. CASE b # a BY <2>2 DEF IInv, DueFitsSchedule
    <2> QED BY <2>1, <2>2
  <1>7. ASSUME NEW u \in Updates PROVE Fresh(u)'
    <2>1. Fresh(u) BY DEF IInv
    <2>2. edit[u].open => edit[u].automaton \in Automata BY <1>0, EditType
    <2> QED BY <2>1, <2>2 DEF Fresh
  <1> QED BY <1>2, <1>3, <1>4, <1>5, <1>6, <1>7 DEF IInv

\* The stage of a worker whose job and runs the step leaves alone.
LEMMA KeptStage ==
  ASSUME UNCHANGED runs, crossed \subseteq crossed', NEW w \in Workers, job'[w] = job[w], Stage(w)
  PROVE  Stage(w)'
  <1>1. PICK a, d : a = Cur(w).automaton /\ d = Cur(w).due OBVIOUS
  <1>2. Cur(w)'.automaton = a /\ Cur(w)'.due = d BY <1>1 DEF Cur
  <1>3. (Taken(a, d)' <=> Taken(a, d)) /\ Live(a)' = Live(a) BY DEF Taken, Live, Scheduled
  <1>4. /\ job[w].pc \in {"begin", "fail", "advance"} /\ d # 0 => Taken(a, d)
        /\ job[w].pc = "fire" /\ a \notin crossed => Taken(a, d) \/ Live(a) = {}
    BY <1>1 DEF Stage
  <1> QED BY <1>2, <1>3, <1>4, StageOf

\* Dropping the item in hand, or one of the batch, takes hold of nothing new.
LEMMA LetGo ==
  ASSUME Dated, UNCHANGED now, NEW w \in Workers, \A v \in Workers \ {w} : job'[v] = job[v],
         job'[w].pc = "loop", job'[w].queue \subseteq job[w].queue, job'[w].at = job[w].at,
         job'[w].cur = NoItem \/ job'[w].cur = job[w].cur,
         UNCHANGED runs, crossed \subseteq crossed', \A v \in Workers : Stage(v)
  PROVE  /\ \A b \in Automata : \A i \in Held(b)' : i \in Held(b)
         /\ Dated' /\ \A v \in Workers : Stage(v)'
  <1>1. \A b \in Automata : \A i \in Held(b)' : i \in Held(b)
    <2> SUFFICES ASSUME NEW b \in Automata, NEW i \in Held(b)' PROVE i \in Held(b)
      OBVIOUS
    <2>1. /\ i \in Item /\ i.automaton = b /\ i.due # 0
          /\ \E v \in Workers : i \in job'[v].queue \/ i = job'[v].cur
      BY DEF Held
    <2>2. i # NoItem BY <2>1 DEF NoItem
    <2>3. \E v \in Workers : i \in job[v].queue \/ i = job[v].cur BY <2>1, <2>2
    <2> QED BY <2>1, <2>3 DEF Held
  <1>2. Dated' BY DEF Dated, Cur
  <1>3. Stage(w)' BY DEF Stage
  <1>4. \A v \in Workers \ {w} : Stage(v)' BY KeptStage
  <1> QED BY <1>1, <1>2, <1>3, <1>4

LEMMA AdvanceStep ==
  ASSUME IInv, TypeOK', NEW w \in Workers, Advance(w)
  PROVE  IInv'
  <1>0. /\ TypeOK /\ Dated /\ Stage(w) /\ job \in [Workers -> Job] /\ job[w] \in Job
        /\ automata \in [Automata -> AutomatonRow]
    BY DEF IInv, TypeOK
  <1>1. job[w].pc = "advance" BY DEF Advance, At
  <1>2. PICK a, d, c : /\ a \in Automata /\ a = Cur(w).automaton /\ d \in Nat /\ d = Cur(w).due
                       /\ c = Cur(w) /\ c \in Held(a) /\ c.due = d /\ d # 0 /\ c.sched \in Schedule
    BY <1>0, <1>1, JobType, CurHeld, HeldItem
  <1>3. /\ \A v \in Workers \ {w} : job'[v] = job[v]
        /\ job'[w].queue = job[w].queue /\ job'[w].cur = NoItem /\ job'[w].at = job[w].at
        /\ job'[w].pc = "loop"
    BY <1>0 DEF Advance, Proceed, Job
  <1>4. /\ automata'[a] = Advanced(automata[a], c)
        /\ \A b \in Automata \ {a} : automata'[b] = automata[b]
        /\ crossed' = IF Open(a) # {} THEN crossed \cup {a} ELSE crossed
        /\ UNCHANGED <<now, runs, edit, clashed>>
    BY <1>0, <1>2 DEF Advance, CrossIfEdited
  <1>5. crossed \subseteq crossed' /\ crossed' \subseteq crossed \cup {a} BY <1>4
  <1>6. /\ \A b \in Automata : \A i \in Held(b)' : i \in Held(b)
        /\ Dated' /\ \A v \in Workers : Stage(v)'
    BY <1>0, <1>3, <1>4, <1>5, LetGo DEF IInv
  <1> DEFINE t == NextDue(c.sched, d)
  <1>7. t \in Nat /\ t # 0 BY <1>2, NextDueType
  <1>8. automata[a] \in AutomatonRow BY <1>0, <1>2
  <1>9. /\ automata'[a].sched = automata[a].sched
        /\ c.sched.kind = "once" => automata'[a].due = 0 /\ ~automata'[a].enabled
        /\ c.sched.kind # "once" => automata'[a].due = t
    BY <1>2, <1>4, <1>8 DEF Advanced, AutomatonRow
  <1>10. c.sched.kind # "once" => t > d /\ t % c.sched.arg = 0 BY <1>2, NextDueFits
  <1> HIDE DEF t
  <1>11. ASSUME a \notin crossed' PROVE Undisturbed(a)' /\ c.sched = automata[a].sched
    <2>1. a \in Automata \ crossed BY <1>2, <1>4, <1>11
    <2>2. Undisturbed(a) BY <2>1 DEF IInv
    <2>3. c.sched = automata[a].sched BY <1>2, <2>2 DEF Undisturbed
    <2>4. PICK f \in Nat : Frontier(a, f) BY <2>2 DEF Undisturbed
    <2>5. Scheduled(a)' = Scheduled(a) /\ \A e : Taken(a, e)' <=> Taken(a, e)
      BY <1>4 DEF Scheduled, Taken
    <2>6. c \in Standing(a) BY <1>2 DEF Standing
    <2>7. PICK r \in Scheduled(a) : runs[r].due = d
      BY <1>0, <1>1, <1>2 DEF Stage, Taken
    <2>8. c.sched.kind # "once" => t = f \/ Taken(a, t)
      BY <1>2, <2>3, <2>4, <2>6, <2>7 DEF Frontier, t
    <2>9. \A i \in Standing(a)' : i \in Standing(a) \/ (c.sched.kind # "once" /\ i.due = t)
      BY <1>6, <1>2, <1>9 DEF Standing, ItemOf
    <2>10. Frontier(a, f)'
      <3>1. \A i \in Standing(a)' : i.due = f \/ Taken(a, i.due)'
        BY <2>4, <2>5, <2>8, <2>9 DEF Frontier
      <3>2. ASSUME automata[a].sched.kind # "once", NEW i \in Standing(a)', NEW q \in Scheduled(a),
                   runs[q].due >= i.due
            PROVE  \/ NextDue(automata[a].sched, runs[q].due) = f
                   \/ Taken(a, NextDue(automata[a].sched, runs[q].due))
        <4>1. CASE i \in Standing(a) BY <2>4, <3>2, <4>1 DEF Frontier
        <4>2. CASE c.sched.kind # "once" /\ i.due = t
          <5>1. runs[q].due \in Nat BY <1>0, <1>2, ScheduledRows
          <5>2. runs[q].due >= c.due BY <1>2, <1>7, <1>10, <3>2, <4>2, <5>1
          <5> QED BY <2>4, <2>6, <3>2, <5>2 DEF Frontier
        <4> QED BY <2>9, <4>1, <4>2
      <3> QED BY <1>4, <1>9, <2>5, <3>1, <3>2 DEF Frontier
    <2>11. \A i \in Held(a)' : i.sched = automata'[a].sched
      BY <1>2, <1>6, <1>9, <2>2 DEF Undisturbed
    <2> QED BY <2>3, <2>10, <2>11 DEF Undisturbed
  <1>12. a \notin crossed' /\ automata'[a].enabled => Fits(automata'[a])
    BY <1>7, <1>9, <1>10, <1>11 DEF Fits
  <1>13. \A u \in Updates : edit'[u].open =>
           edit'[u] = edit[u] /\ (edit[u].automaton # a \/ a \in crossed')
    BY <1>4 DEF Open
  <1> QED BY <1>2, <1>4, <1>5, <1>6, <1>11, <1>12, <1>13, RowWritten

LEMMA DisableStep ==
  ASSUME IInv, TypeOK', NEW w \in Workers, DisableCorrupt(w)
  PROVE  IInv'
  <1>0. /\ TypeOK /\ Dated /\ job \in [Workers -> Job] /\ job[w] \in Job
        /\ automata \in [Automata -> AutomatonRow]
    BY DEF IInv, TypeOK
  <1>1. PICK i \in Oldest(w) :
          /\ automata' = [automata EXCEPT ![i.automaton].enabled = FALSE]
          /\ CrossIfEdited(i.automaton)
          /\ job' = [job EXCEPT ![w].queue = @ \ {i}]
    BY DEF DisableCorrupt
  <1>2. PICK a \in Automata : a = i.automaton BY <1>0, JobType DEF Item
  <1>3. /\ \A v \in Workers \ {w} : job'[v] = job[v]
        /\ job'[w].queue \subseteq job[w].queue /\ job'[w].cur = job[w].cur
        /\ job'[w].at = job[w].at /\ job'[w].pc = "loop"
    BY <1>0, <1>1 DEF DisableCorrupt, At, Job
  <1>4. /\ automata'[a] = [automata[a] EXCEPT !.enabled = FALSE]
        /\ \A b \in Automata \ {a} : automata'[b] = automata[b]
        /\ crossed' = IF Open(a) # {} THEN crossed \cup {a} ELSE crossed
        /\ UNCHANGED <<now, runs, edit, clashed>>
    BY <1>0, <1>1, <1>2 DEF DisableCorrupt, CrossIfEdited
  <1>5. crossed \subseteq crossed' /\ crossed' \subseteq crossed \cup {a} BY <1>4
  <1>6. /\ \A b \in Automata : \A k \in Held(b)' : k \in Held(b)
        /\ Dated' /\ \A v \in Workers : Stage(v)'
    BY <1>0, <1>3, <1>4, <1>5, LetGo DEF IInv
  <1>7. automata[a] \in AutomatonRow BY <1>0
  <1>8. /\ automata'[a].sched = automata[a].sched /\ automata'[a].due = automata[a].due
        /\ ~automata'[a].enabled
    BY <1>4, <1>7 DEF AutomatonRow
  <1>9. ASSUME a \notin crossed' PROVE Undisturbed(a)'
    <2>1. a \in Automata \ crossed BY <1>4, <1>9
    <2>2. Undisturbed(a) BY <2>1 DEF IInv
    <2>3. PICK f \in Nat : Frontier(a, f) BY <2>2 DEF Undisturbed
    <2>4. Scheduled(a)' = Scheduled(a) /\ \A e : Taken(a, e)' <=> Taken(a, e)
      BY <1>4 DEF Scheduled, Taken
    <2>5. \A k \in Standing(a)' : k \in Standing(a) BY <1>6, <1>8 DEF Standing, ItemOf
    <2>6. Frontier(a, f)' BY <1>4, <1>8, <2>3, <2>4, <2>5 DEF Frontier
    <2> QED BY <1>6, <1>8, <2>2, <2>6 DEF Undisturbed
  <1>10. \A u \in Updates : edit'[u].open =>
           edit'[u] = edit[u] /\ (edit[u].automaton # a \/ a \in crossed')
    BY <1>4 DEF Open
  <1> QED BY <1>4, <1>5, <1>6, <1>8, <1>9, <1>10, RowWritten

LEMMA ArchiveStep ==
  ASSUME IInv, TypeOK', NEW a \in Automata, Archive(a)
  PROVE  IInv'
  <1>0. TypeOK /\ Dated /\ automata[a] \in AutomatonRow BY DEF IInv, TypeOK
  <1>1. /\ automata'[a] = [automata[a] EXCEPT !.archived = TRUE]
        /\ \A b \in Automata \ {a} : automata'[b] = automata[b]
        /\ UNCHANGED <<now, runs, job, edit, crossed, clashed>>
    BY <1>0 DEF Archive, TypeOK
  <1>2. /\ automata'[a].sched = automata[a].sched /\ automata'[a].due = automata[a].due
        /\ automata'[a].enabled = automata[a].enabled
    BY <1>0, <1>1 DEF AutomatonRow
  <1>3. (\A b \in Automata : Held(b)' = Held(b)) /\ Dated'
    BY <1>0, <1>1 DEF Held, Dated, Cur
  <1>4. \A v \in Workers : Stage(v)' BY <1>1, KeptStage DEF IInv
  <1>5. ASSUME a \notin crossed' PROVE Undisturbed(a)'
    <2>1. Undisturbed(a) BY <1>1, <1>5 DEF IInv
    <2>2. PICK f \in Nat : Frontier(a, f) BY <2>1 DEF Undisturbed
    <2>3. Scheduled(a)' = Scheduled(a) /\ \A e : Taken(a, e)' <=> Taken(a, e)
      BY <1>1 DEF Scheduled, Taken
    <2>4. \A k \in Standing(a)' : k \in Standing(a) BY <1>2, <1>3 DEF Standing, ItemOf
    <2>5. Frontier(a, f)' BY <1>1, <1>2, <2>2, <2>3, <2>4 DEF Frontier
    <2> QED BY <1>1, <1>2, <1>3, <2>1, <2>5 DEF Undisturbed
  <1>6. a \notin crossed' \cup clashed' /\ automata'[a].enabled => Fits(automata'[a])
    BY <1>1, <1>2 DEF IInv, DueFitsSchedule, Fits
  <1>7. /\ \A b \in Automata \ {a} : automata'[b] = automata[b]
        /\ crossed \subseteq crossed' /\ crossed' \subseteq crossed \cup {a}
        /\ \A b \in Automata : \A i \in Held(b)' : i \in Held(b)
    BY <1>1, <1>3
  <1> QED BY <1>1, <1>2, <1>3, <1>4, <1>5, <1>6, <1>7, RowWritten

\* The update: with no tick holding the automaton, a new due instant lies after
\* every row, so it may be claimed, and a kept one is what it was; it belongs to
\* the schedule it is written with when no other update was open.
LEMMA EditWriteStep ==
  ASSUME IInv, TypeOK', NEW u \in Updates, EditWrite(u)
  PROVE  IInv'
  <1>0. /\ TypeOK /\ Dated /\ automata \in [Automata -> AutomatonRow] /\ now \in Nat
        /\ edit \in [Updates -> Edit \cup {NoEdit}]
    BY DEF IInv, TypeOK
  <1>1. PICK a \in Automata : a = edit[u].automaton BY <1>0, EditType DEF EditWrite
  <1>2. /\ edit[u].open /\ UNCHANGED <<now, runs, job>>
        /\ edit' = [edit EXCEPT ![u] = NoEdit]
        /\ crossed' = IF \E w \in Workers : Holds(w, a) THEN crossed \cup {a} ELSE crossed
        /\ clashed' = IF Open(a) # {u} THEN clashed \cup {a} ELSE clashed
    BY <1>1 DEF EditWrite
  <1>3. automata[a] \in AutomatonRow /\ automata'[a] \in AutomatonRow
        /\ \A b \in Automata \ {a} : automata'[b] = automata[b]
    BY <1>0, <1>1, PatchedRow
  <1>4. \/ \E s \in Schedule :
             /\ Computable(s, now) /\ automata'[a].due = NextDue(s, now)
             /\ \/ automata'[a].sched = s
                \/ automata'[a].sched = automata[a].sched /\ s = edit[u].sched
        \/ /\ automata'[a].sched = automata[a].sched /\ automata'[a].due = automata[a].due
           /\ automata'[a].enabled => automata[a].enabled \/ edit[u].enabled
    BY <1>0, <1>1, PatchedRow
  <1>5. \A v \in Updates : edit'[v].open =>
          edit'[v] = edit[v] /\ (edit[v].automaton # a \/ a \in clashed')
    <2> SUFFICES ASSUME NEW v \in Updates, edit'[v].open
                 PROVE  edit'[v] = edit[v] /\ (edit[v].automaton # a \/ a \in clashed')
      OBVIOUS
    <2>1. v # u /\ edit'[v] = edit[v] BY <1>0, <1>2 DEF NoEdit
    <2> QED BY <1>2, <2>1 DEF Open
  <1>6. (\A b \in Automata : Held(b)' = Held(b)) /\ Dated' BY <1>0, <1>2 DEF Held, Dated, Cur
  <1>7. /\ crossed \subseteq crossed' /\ crossed' \subseteq crossed \cup {a}
        /\ clashed \subseteq clashed' /\ clashed' \subseteq clashed \cup {a}
    BY <1>2
  <1>8. \A v \in Workers : Stage(v)' BY <1>2, <1>7, KeptStage DEF IInv
  <1>9. ASSUME a \notin crossed' PROVE Held(a) = {} /\ Undisturbed(a)
    BY <1>2, <1>9 DEF Held, Holds, IInv
  <1>10. Scheduled(a)' = Scheduled(a) /\ \A e : Taken(a, e)' <=> Taken(a, e)
    BY <1>2 DEF Scheduled, Taken
  <1>11. ASSUME a \notin crossed' PROVE Undisturbed(a)'
    <2>1. CASE automata'[a].sched = automata[a].sched /\ automata'[a].due = automata[a].due
      <3>1. PICK f \in Nat : Frontier(a, f) BY <1>9, <1>11 DEF Undisturbed
      <3>2. \A k \in Standing(a)' : k \in Standing(a) BY <1>6, <2>1 DEF Standing, ItemOf
      <3>3. Frontier(a, f)' BY <1>2, <1>10, <2>1, <3>1, <3>2 DEF Frontier
      <3> QED BY <1>6, <1>9, <1>11, <3>3 DEF Undisturbed
    <2>2. ASSUME NEW s \in Schedule, Computable(s, now), automata'[a].due = NextDue(s, now)
          PROVE  Undisturbed(a)'
      <3>1. PICK f \in Nat : f = automata'[a].due /\ f > now
        BY <1>0, <2>2, NextDueType, NextDueLater
      <3>2. \A i \in Standing(a)' : i.due = f BY <1>6, <1>9, <1>11, <3>1 DEF Standing, ItemOf
      <3>3. \A r \in Scheduled(a) : runs'[r].due \in Nat /\ runs'[r].due <= now
        BY <1>0, <1>2, ScheduledRows DEF IInv, RowsPast
      <3>4. \A i \in Standing(a)', r \in Scheduled(a)' : ~(runs'[r].due >= i.due)
        BY <1>0, <1>10, <3>1, <3>2, <3>3
      <3>5. Frontier(a, f)' BY <3>2, <3>4 DEF Frontier
      <3> QED BY <1>6, <1>9, <1>11, <3>5 DEF Undisturbed
    <2> QED BY <1>4, <2>1, <2>2
  <1>12. ASSUME a \notin crossed' \cup clashed', automata'[a].enabled PROVE Fits(automata'[a])
    <2>1. edit[u].enabled = automata[a].enabled /\ edit[u].sched = automata[a].sched
      BY <1>1, <1>2, <1>7, <1>12 DEF IInv, Fresh
    <2>2. a \notin crossed \cup clashed BY <1>7, <1>12
    <2>3. CASE /\ automata'[a].sched = automata[a].sched /\ automata'[a].due = automata[a].due
               /\ automata'[a].enabled => automata[a].enabled \/ edit[u].enabled
      BY <1>12, <2>1, <2>2, <2>3 DEF IInv, DueFitsSchedule, Fits
    <2>4. ASSUME NEW s \in Schedule, automata'[a].due = NextDue(s, now), automata'[a].sched = s
          PROVE  Fits(automata'[a])
      <3>1. NextDue(s, now) # 0 BY <1>0, NextDueType
      <3>2. s.kind # "once" => NextDue(s, now) % s.arg = 0 BY <1>0, NextDueFits
      <3>3. s.kind = "once" => NextDue(s, now) = s.arg BY <1>0, NextDueFits
      <3> QED BY <2>4, <3>1, <3>2, <3>3 DEF Fits
    <2> QED BY <1>4, <2>1, <2>3, <2>4
  <1>13. \A b \in Automata : \A i \in Held(b)' : i \in Held(b) BY <1>6
  <1> QED BY <1>2, <1>3, <1>5, <1>6, <1>7, <1>8, <1>11, <1>12, <1>13, RowWritten

LEMMA NextIInv ==
  ASSUME IInv, [Next]_vars
  PROVE  IInv'
  <1>0. TypeOK' BY NextType DEF IInv
  <1>1. ASSUME NEW w \in Workers,
               StartTick(w) \/ Works(w) \/ Drop(w) \/ Crash(w) \/ RunNow(w)
        PROVE  IInv'
    <2>1. CASE \/ StartTick(w) \/ Reap(w) \/ TickEnds(w) \/ Look(w) \/ ClaimConflict(w)
               \/ Begin(w) \/ FailRun(w) \/ Drop(w) \/ Crash(w) \/ RunNow(w)
      BY <1>0, <2>1, QuietSteps
    <2>2. CASE List(w) BY <1>0, <2>2, ListStep
    <2>3. CASE SkipRow(w) \/ Claim(w) BY <1>0, <2>3, RecordSteps
    <2>4. CASE Advance(w) BY <1>0, <2>4, AdvanceStep
    <2>5. CASE DisableCorrupt(w) BY <1>0, <2>5, DisableStep
    <2> QED BY <1>1, <2>1, <2>2, <2>3, <2>4, <2>5 DEF Works
  <1>2. ASSUME NEW i \in DOMAIN runs, TurnStarts(i) \/ TurnEnds(i) PROVE IInv'
    BY <1>0, <1>2, OtherSteps
  <1>3. ASSUME NEW u \in Updates,
               EditWrite(u) \/ EditRefused(u) \/ \E a \in Automata : EditRead(u, a)
        PROVE  IInv'
    <2>1. CASE EditRefused(u) \/ \E a \in Automata : EditRead(u, a) BY <1>0, <2>1, OtherSteps
    <2>2. CASE EditWrite(u) BY <1>0, <2>2, EditWriteStep
    <2> QED BY <1>3, <2>1, <2>2
  <1>4. ASSUME NEW a \in Automata, Archive(a) PROVE IInv' BY <1>0, <1>4, ArchiveStep
  <1>5. CASE Clock \/ UNCHANGED vars BY <1>0, <1>5, OtherSteps
  <1> QED BY <1>1, <1>2, <1>3, <1>4, <1>5 DEF Next

\* The inductive invariant holds in every reachable state.
THEOREM Inductive == Spec => []IInv
  <1>1. IInv /\ [Next]_vars => IInv' BY NextIInv
  <1> QED BY InitIInv, <1>1, PTL DEF Spec

-------------------------------------------------------------------------------
(* The theorems *)

\* Every row and every job of the scheduler has its type; an invocation that
\* begins or fails a run works on a row that exists.
THEOREM TypeCorrect == Spec => []TypeOK
  <1>1. IInv => TypeOK BY DEF IInv
  <1> QED BY Inductive, <1>1, PTL

\* The index of automaton_runs and the insert of the claim let a due instant
\* start one thread at most, whatever ticks overlap, die or come late.
THEOREM DueStartsOneTurn == Spec => []OneTurnPerDue
  <1>1. IInv => OneTurnPerDue BY DEF IInv, OneRowPerDue, OneTurnPerDue
  <1> QED BY Inductive, <1>1, PTL

\* findUnfinishedRun is read long before the claim it guards, and yet two ticks
\* never both claim: one instant at most of an automaton is unclaimed.
THEOREM OneUnfinishedRun == Spec => []OneLiveRun
  <1>1. IInv => OneLiveRun BY DEF IInv
  <1> QED BY Inductive, <1>1, PTL

\* advanceSchedule and the update write a due instant of the schedule the row
\* has, unless an update overlaps a tick that holds the row or another update.
THEOREM DueBelongsToSchedule == Spec => []DueFitsSchedule
  <1>1. IInv => DueFitsSchedule BY DEF IInv
  <1> QED BY Inductive, <1>1, PTL

LEMMA AddedRun ==
  ASSUME TypeOK, NEW a \in Automata, NEW d \in Nat, NEW t, NEW s,
         runs' = NewRun(a, d, t, s), TypeOK'
  PROVE  \A i \in DOMAIN runs : runs'[i] = runs[i]
  <1> DEFINE row == [automaton |-> a, due |-> d, trigger |-> t, status |-> s,
                     touched |-> IF s \in Unfinished THEN now ELSE 0, begun |-> FALSE]
  <1>1. runs' = Append(runs, row) /\ runs \in Seq(Row) BY DEF NewRun, TypeOK
  <1> HIDE DEF row
  <1> QED BY <1>1

\* What a step leaves of the runs it finds.
RunsKept ==
  \A i \in DOMAIN runs :
    /\ runs[i].status \in Terminal => runs'[i].status = runs[i].status
    /\ runs'[i].due = runs[i].due /\ runs'[i].automaton = runs[i].automaton

LEMMA NextKeepsRuns ==
  ASSUME TypeOK, [Next]_vars
  PROVE  RunsKept
  <1>0. TypeOK' /\ runs \in Seq(Row) BY NextType DEF TypeOK
  <1>1. SameRows => RunsKept BY DEF SameRows, RunsKept, Unfinished, Terminal
  <1>2. ASSUME NEW w \in Workers,
               StartTick(w) \/ Works(w) \/ Drop(w) \/ Crash(w) \/ RunNow(w)
        PROVE  RunsKept
    <2>1. CASE Reap(w)
      <3>1. PICK S \in SUBSET Unfinished : runs' = Reaped(w, S) BY <2>1 DEF Reap, Unfinished
      <3> QED BY <1>1, <3>1, ReapedType
    <2>2. CASE SkipRow(w) \/ Claim(w)
      <3>1. Cur(w).automaton \in Automata /\ Cur(w).due \in Nat
        BY <2>2, JobType DEF SkipRow, Claim, At
      <3>2. runs' # runs => \A i \in DOMAIN runs : runs'[i] = runs[i]
        BY <1>0, <2>2, <3>1, AddedRun DEF SkipRow, Claim
      <3> QED BY <3>2 DEF RunsKept
    <2>3. CASE RunNow(w)
      <3>1. PICK a \in Automata : runs' = NewRun(a, 0, "manual", "queued") BY <2>3 DEF RunNow
      <3>2. \A i \in DOMAIN runs : runs'[i] = runs[i] BY <1>0, <3>1, AddedRun
      <3> QED BY <3>2 DEF RunsKept
    <2>4. CASE Begin(w)
      <3>1. job[w].run \in DOMAIN runs BY <2>4, JobType DEF Begin, At
      <3>2. PICK stored \in BOOLEAN : runs' = [runs EXCEPT ![job[w].run].begun = stored]
        BY <2>4 DEF Begin
      <3>3. runs[job[w].run] \in Row BY <1>0, <3>1
      <3> QED BY <1>0, <3>1, <3>2, <3>3 DEF RunsKept, Row
    <2>5. CASE FailRun(w)
      <3>1. job[w].run \in DOMAIN runs /\ "failed" \in Unfinished \cup Terminal
        BY <2>5, JobType DEF FailRun, At, Terminal
      <3>2. SameRows BY <2>5, <3>1, MoveType DEF FailRun, SameRows
      <3> QED BY <1>1, <3>2
    <2>6. CASE UNCHANGED runs BY <2>6 DEF RunsKept
    <2> QED
      BY <1>2, <2>1, <2>2, <2>3, <2>4, <2>5, <2>6
      DEF Works, StartTick, List, TickEnds, Look, DisableCorrupt, ClaimConflict, Advance, Drop,
          Crash
  <1>3. ASSUME NEW i \in DOMAIN runs, TurnStarts(i) PROVE RunsKept
    <2>1. "running" \in Unfinished \cup Terminal /\ "queued" \in Unfinished BY DEF Unfinished
    <2>2. SameRows BY <1>3, <2>1, MoveType DEF TurnStarts, SameRows
    <2> QED BY <1>1, <2>2
  <1>4. ASSUME NEW i \in DOMAIN runs, TurnEnds(i) PROVE RunsKept
    <2>1. PICK t \in {"ended", "failed"} : runs' = Move(i, Unfinished, t) BY <1>4 DEF TurnEnds
    <2>2. t \in Unfinished \cup Terminal BY DEF Terminal
    <2>3. SameRows BY <2>1, <2>2, MoveType DEF SameRows
    <2> QED BY <1>1, <2>3
  <1>5. ASSUME \/ \E u \in Updates :
                    EditWrite(u) \/ EditRefused(u) \/ \E a \in Automata : EditRead(u, a)
               \/ \E a \in Automata : Archive(a)
        PROVE  RunsKept
    BY <1>5 DEF EditRead, EditWrite, EditRefused, Archive, RunsKept
  <1>6. CASE Clock \/ UNCHANGED vars BY <1>6 DEF Clock, vars, RunsKept
  <1> QED BY <1>2, <1>3, <1>4, <1>5, <1>6 DEF Next

\* A run that ended stays as it ended: transitionFor, failRun and the reaper
\* all write unfinished rows only.
THEOREM RunsStayFinal == Spec => RunsAreFinal
  <1>1. IInv /\ [Next]_vars => [RunsKept]_vars BY NextKeepsRuns DEF IInv
  <1> QED BY Inductive, <1>1, PTL DEF Spec, RunsAreFinal, RunsKept
===============================================================================
