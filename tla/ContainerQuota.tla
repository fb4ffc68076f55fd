---------------------------- MODULE ContainerQuota ----------------------------
(***************************************************************************)
(* The cap on live containers of a workspace: the rows of the D1 table     *)
(* active_containers (container-ledger.ts), the gate that admits,          *)
(* refreshes and frees a thread's slot (container-quota.ts), and the       *)
(* reclaim call that asks another thread's Durable Object to give its      *)
(* container up (releaseIfReclaimable).                                    *)
(*                                                                         *)
(* Every statement on D1 is an await, so each is a step of its own.  An    *)
(* operation reads the clock once and carries that instant through several *)
(* statements: only instants relative to the present matter, so a row      *)
(* keeps the time it has LEFT (negative once expired) and an operation the *)
(* AGE of the instant it carries.  Time has no bound.                      *)
(*                                                                         *)
(* last_used_at and expires_at are always written together, one TTL apart, *)
(* so the order of the one is the order of the other.                      *)
(***************************************************************************)
EXTENDS Integers, Sequences, FiniteSets

CONSTANTS
    Threads,       \* the threads of the workspace, one Durable Object each
    Limit,         \* MAX_ACTIVE_CONTAINERS_PER_WORKSPACE
    Ttl,           \* idleTimeoutMs + LEDGER_GRACE_MS
    MaxAttempts,   \* MAX_RECLAIM_ATTEMPTS
    MaxDelay       \* how late a statement runs after the instant it carries

\* A lease outlives the statements that write it: no statement reaches D1 a
\* whole TTL after its operation read the clock.
ASSUME QuotaConstants ==
    /\ IsFiniteSet(Threads)
    /\ {Limit, Ttl, MaxAttempts} \subseteq Nat \ {0}
    /\ MaxDelay \in Nat
    /\ MaxDelay < Ttl

VARIABLES
    rows,   \* active_containers: thread |-> time left before expires_at
    env,    \* thread |-> the status of its environment in its own store
    op,     \* thread |-> the call or the tick that uses the gate
    rpc     \* <<asker, target>> |-> releaseIfReclaimable running in target for
            \* asker; <<t, t>> is t's own idle eviction, the same tail

vars == <<rows, env, op, rpc>>

EnvStatus == {"absent", "active", "releasing"}
StatementPc == {"prune", "insert", "confirm", "list", "update", "holds"}
OpPc == {"idle", "ask", "wait", "drop", "acquire", "undo"} \cup StatementPc
Stage == {"first", "retry", "last", "refresh"}
RpcPc == {"none", "asked", "releasing", "row", "yes"}

NoOp == [pc |-> "idle", stage |-> "first", age |-> 0, candidates |-> <<>>]

\* What an operation holds across its awaits.
Operation == [pc : OpPc, stage : Stage, age : 0..MaxDelay, candidates : Seq(Threads)]

TypeOK ==
    /\ DOMAIN rows \subseteq Threads
    /\ rows \in [DOMAIN rows -> Int]
    /\ env \in [Threads -> EnvStatus]
    /\ op \in [Threads -> Operation]
    /\ rpc \in [Threads \X Threads -> RpcPc]

Init ==
    /\ rows = <<>>
    /\ env = [t \in Threads |-> "absent"]
    /\ op = [t \in Threads |-> NoOp]
    /\ rpc = [p \in Threads \X Threads |-> "none"]

-------------------------------------------------------------------------------
(* The table.                                                              *)

\* DELETE of the rows of the threads in S.
Without(S) == [t \in DOMAIN rows \ S |-> rows[t]]

\* The upsert: last_used_at = now, expires_at = now + ttlMs.
Written(t, age) ==
    [u \in DOMAIN rows \cup {t} |-> IF u = t THEN Ttl - age ELSE rows[u]]

\* Variant: a row counts for as long as it is in the table.
EveryRow(age) == DOMAIN rows

\* The rows with expires_at > now, for an instant of the given age.
Unexpired(age) == {t \in DOMAIN rows : rows[t] > -age}

\* The rows of S in a least-recently-used order.
LruOrders(S) ==
    {s \in [1..Cardinality(S) -> S] :
        \A i, j \in 1..Cardinality(S) : i < j => s[i] # s[j] /\ rows[s[i]] <= rows[s[j]]}

FirstOf(s, n) == SubSeq(s, 1, IF Len(s) < n THEN Len(s) ELSE n)

-------------------------------------------------------------------------------
(* The gate: admit and refresh.                                            *)

\* A statement carries an instant read just now.
Begin(t, pc, stage) == [op[t] EXCEPT !.pc = pc, !.stage = stage, !.age = 0]

\* The loop over the candidates: the next reclaim, or the last attempt.
NextCandidate(t, left) ==
    IF left = <<>>
    THEN [Begin(t, "prune", "last") EXCEPT !.candidates = <<>>]
    ELSE [Begin(t, "ask", "retry") EXCEPT !.candidates = left]

\* What tryAdmit's answer leads to: it ends a refresh and admits an admit;
\* a refusal goes on to the candidates, or ends as quota_exhausted.
Answered(t, held) ==
    CASE op[t].stage = "refresh"         -> NoOp
      [] op[t].stage # "refresh" /\ held -> [NoOp EXCEPT !.pc = "acquire"]
      [] op[t].stage = "first" /\ ~held  -> [op[t] EXCEPT !.pc = "list"]
      [] op[t].stage = "retry" /\ ~held  -> NextCandidate(t, op[t].candidates)
      [] op[t].stage = "last" /\ ~held   -> NoOp

\* A call finds no active environment and asks for a slot.
StartAdmit(t) ==
    /\ op[t].pc = "idle"
    /\ env[t] # "active"
    /\ op' = [op EXCEPT ![t] = Begin(t, "prune", "first")]
    /\ UNCHANGED <<rows, env, rpc>>

\* A command ran in the environment (touchLastUsed, refreshRelease), or a tick
\* keeps the lease of an active environment warm.
StartRefresh(t) ==
    /\ op[t].pc = "idle"
    /\ env[t] = "active"
    /\ op' = [op EXCEPT ![t] = Begin(t, "update", "refresh")]
    /\ UNCHANGED <<rows, env, rpc>>

\* Variant: a row that expires at this very instant stays.
PruneStrictly(t) ==
    /\ op[t].pc = "prune"
    /\ rows' = Without({u \in DOMAIN rows : rows[u] < -op[t].age})
    /\ op' = [op EXCEPT ![t].pc = "insert"]
    /\ UNCHANGED <<env, rpc>>

\* tryAdmit, first statement: delete what has expired.
Prune(t) ==
    /\ op[t].pc = "prune"
    /\ rows' = Without(DOMAIN rows \ Unexpired(op[t].age))
    /\ op' = [op EXCEPT ![t].pc = "insert"]
    /\ UNCHANGED <<env, rpc>>

\* Variant: the count includes the thread's own row.
InsertCountingSelf(t) ==
    LET free == Cardinality(Unexpired(op[t].age)) < Limit
    IN  /\ op[t].pc = "insert"
        /\ rows' = IF free THEN Written(t, op[t].age) ELSE rows
        /\ \/ op' = [op EXCEPT ![t] = Answered(t, free)]
           \/ op' = [op EXCEPT ![t].pc = "confirm"]
        /\ UNCHANGED <<env, rpc>>

\* tryAdmit, second statement: the conditional upsert, "the insert IS the
\* lease".  The platform says whether it changed a row, or says null and the
\* row is read back.
Insert(t) ==
    LET free == Cardinality(Unexpired(op[t].age) \ {t}) < Limit
    IN  /\ op[t].pc = "insert"
        /\ rows' = IF free THEN Written(t, op[t].age) ELSE rows
        /\ \/ op' = [op EXCEPT ![t] = Answered(t, free)]
           \/ op' = [op EXCEPT ![t].pc = "confirm"]
        /\ UNCHANGED <<env, rpc>>

\* Variant: no word from the platform is taken for a written row.
ConfirmBlindly(t) ==
    /\ op[t].pc = "confirm"
    /\ op' = [op EXCEPT ![t] = Answered(t, TRUE)]
    /\ UNCHANGED <<rows, env, rpc>>

Confirm(t) ==
    /\ op[t].pc = "confirm"
    /\ op' = [op EXCEPT ![t] = Answered(t, t \in Unexpired(op[t].age))]
    /\ UNCHANGED <<rows, env, rpc>>

ListCandidates(t) ==
    /\ op[t].pc = "list"
    /\ \E s \in LruOrders(Unexpired(op[t].age) \ {t}) :
           op' = [op EXCEPT ![t] = NextCandidate(t, FirstOf(s, MaxAttempts))]
    /\ UNCHANGED <<rows, env, rpc>>

\* The call to the candidate's Durable Object leaves.  One already running
\* there for this asker (its answer was not waited for) is asked once.
Ask(t) ==
    LET target == Head(op[t].candidates)
    IN  /\ op[t].pc = "ask"
        /\ op' = [op EXCEPT ![t].pc = "wait"]
        /\ rpc' = IF rpc[<<t, target>>] = "none"
                  THEN [rpc EXCEPT ![<<t, target>>] = "asked"] ELSE rpc
        /\ UNCHANGED <<rows, env>>

Waits(a, t) == op[a].pc = "wait" /\ Head(op[a].candidates) = t

\* The candidate said yes: drop its row as well, then try again.
ToldYes(t) ==
    LET target == Head(op[t].candidates)
    IN  /\ op[t].pc = "wait"
        /\ rpc[<<t, target>>] = "yes"
        /\ op' = [op EXCEPT ![t].pc = "drop"]
        /\ rpc' = [rpc EXCEPT ![<<t, target>>] = "none"]
        /\ UNCHANGED <<rows, env>>

\* It said no, its call broke, or RECLAIM_RPC_TIMEOUT_MS passed: a refusal.  A
\* call that timed out goes on in the target.
ToldNo(t) ==
    LET target == Head(op[t].candidates)
    IN  /\ op[t].pc = "wait"
        /\ op' = [op EXCEPT ![t] = NextCandidate(t, Tail(op[t].candidates))]
        /\ rpc' = [rpc EXCEPT ![<<t, target>>] = IF @ = "yes" THEN "none" ELSE @]
        /\ UNCHANGED <<rows, env>>

DropCandidate(t) ==
    /\ op[t].pc = "drop"
    /\ rows' = Without({Head(op[t].candidates)})
    /\ op' = [op EXCEPT ![t] = [Begin(t, "prune", "retry")
                                    EXCEPT !.candidates = Tail(op[t].candidates)]]
    /\ UNCHANGED <<env, rpc>>

\* Variant: the refresh writes the row whether there is one or not.
UpsertRow(t) ==
    /\ op[t].pc = "update"
    /\ rows' = Written(t, op[t].age)
    /\ op' = [op EXCEPT ![t].pc = "holds"]
    /\ UNCHANGED <<env, rpc>>

\* refresh, first statement: push the expiry of the row forward, if there is one.
UpdateRow(t) ==
    /\ op[t].pc = "update"
    /\ rows' = IF t \in DOMAIN rows THEN Written(t, op[t].age) ELSE rows
    /\ op' = [op EXCEPT ![t].pc = "holds"]
    /\ UNCHANGED <<env, rpc>>

\* refresh, second statement: a live container without a row claims one again.
HoldsSlot(t) ==
    /\ op[t].pc = "holds"
    /\ op' = [op EXCEPT ![t] = IF t \in Unexpired(op[t].age) THEN NoOp
                               ELSE [@ EXCEPT !.pc = "prune"]]
    /\ UNCHANGED <<rows, env, rpc>>

\* The backend acquires: the environment is active and its lease refreshed.
Acquired(t) ==
    /\ op[t].pc = "acquire"
    /\ env' = [env EXCEPT ![t] = "active"]
    /\ op' = [op EXCEPT ![t] = Begin(t, "update", "refresh")]
    /\ UNCHANGED <<rows, rpc>>

\* The backend fails: the slot is freed at once.
AcquireFails(t) ==
    /\ op[t].pc = "acquire"
    /\ op' = [op EXCEPT ![t].pc = "undo"]
    /\ UNCHANGED <<rows, env, rpc>>

Undo(t) ==
    /\ op[t].pc = "undo"
    /\ rows' = Without({t})
    /\ op' = [op EXCEPT ![t] = NoOp]
    /\ UNCHANGED <<env, rpc>>

-------------------------------------------------------------------------------
(* A container is given up: for another thread, or for being idle.         *)

\* It yields an active environment that is not in use: no turn, process,
\* watcher or child, and untouched for RECLAIM_MIN_IDLE_MS.
CheckUse(a, t, used) ==
    LET yields == env[t] = "active" /\ ~used
    IN  /\ rpc[<<a, t>>] = "asked"
        /\ rpc' = [rpc EXCEPT ![<<a, t>>] = IF yields THEN "releasing" ELSE "none"]
        /\ env' = IF yields THEN [env EXCEPT ![t] = "releasing"] ELSE env
        /\ UNCHANGED <<rows, op>>

EvictIdle(t) ==
    /\ rpc[<<t, t>>] = "none"
    /\ env[t] = "active"
    /\ rpc' = [rpc EXCEPT ![<<t, t>>] = "releasing"]
    /\ env' = [env EXCEPT ![t] = "releasing"]
    /\ UNCHANGED <<rows, op>>

\* Variant: a status the store does not know.
ReleasedAsDestroyed(a, t) ==
    /\ rpc[<<a, t>>] = "releasing"
    /\ rpc' = [rpc EXCEPT ![<<a, t>>] = "row"]
    /\ env' = [env EXCEPT ![t] = "destroyed"]
    /\ UNCHANGED <<rows, op>>

\* The backend took the container: the status is recorded over whatever a call
\* made of it meanwhile.
Released(a, t) ==
    /\ rpc[<<a, t>>] = "releasing"
    /\ rpc' = [rpc EXCEPT ![<<a, t>>] = "row"]
    /\ env' = [env EXCEPT ![t] = "absent"]
    /\ UNCHANGED <<rows, op>>

\* The backend kept it: back to active, and refuse.
ReleaseFails(a, t) ==
    /\ rpc[<<a, t>>] = "releasing"
    /\ rpc' = [rpc EXCEPT ![<<a, t>>] = "none"]
    /\ env' = [env EXCEPT ![t] = "active"]
    /\ UNCHANGED <<rows, op>>

\* quota.release, once more when it throws; a second failure leaves the row to
\* its TTL.  The answer is yes either way, if it is still waited for: the
\* container is gone.
FreeRow(a, t, freed) ==
    /\ rpc[<<a, t>>] = "row"
    /\ rows' = IF freed THEN Without({t}) ELSE rows
    /\ rpc' = [rpc EXCEPT ![<<a, t>>] = IF Waits(a, t) THEN "yes" ELSE "none"]
    /\ UNCHANGED <<env, op>>

-------------------------------------------------------------------------------
(* The environment.                                                        *)

\* The Durable Object restarts: what it was doing is forgotten, and a call it
\* was answering breaks, which the asker takes for a refusal.
Crash(t) ==
    /\ op' = [op EXCEPT ![t] = NoOp]
    /\ rpc' = [p \in Threads \X Threads |->
                  IF p[2] = t \/ (p[1] = t /\ rpc[p] = "yes") THEN "none" ELSE rpc[p]]
    /\ UNCHANGED <<rows, env>>

\* Time passes.  A row is kept no longer expired than any instant in use can tell.
Tick ==
    /\ \A t \in Threads : op[t].pc \in StatementPc => op[t].age < MaxDelay
    /\ rows' = [t \in DOMAIN rows |-> IF rows[t] > -MaxDelay THEN rows[t] - 1 ELSE rows[t]]
    /\ op' = [t \in Threads |-> IF op[t].pc \in StatementPc
                                THEN [op[t] EXCEPT !.age = @ + 1] ELSE op[t]]
    /\ UNCHANGED <<env, rpc>>

-------------------------------------------------------------------------------
OpStep(t) ==
    \/ Prune(t) \/ Insert(t) \/ Confirm(t) \/ ListCandidates(t)
    \/ Ask(t) \/ ToldYes(t) \/ ToldNo(t) \/ DropCandidate(t)
    \/ UpdateRow(t) \/ HoldsSlot(t)
    \/ Acquired(t) \/ AcquireFails(t) \/ Undo(t)

RpcStep(a, t) ==
    \/ \E used \in BOOLEAN : CheckUse(a, t, used)
    \/ Released(a, t) \/ ReleaseFails(a, t)
    \/ \E freed \in BOOLEAN : FreeRow(a, t, freed)

Next ==
    \/ \E t \in Threads :
          \/ StartAdmit(t)
          \/ StartRefresh(t)
          \/ OpStep(t)
          \/ EvictIdle(t)
          \/ Crash(t)
    \/ \E a, t \in Threads : RpcStep(a, t)
    \/ Tick

Spec == Init /\ [][Next]_vars

\* Statements and calls in flight end (D1 answers, a call times out) and time
\* passes; nobody has to start a call or a restart.
Fairness ==
    /\ \A t \in Threads : WF_vars(OpStep(t))
    /\ \A a, t \in Threads : WF_vars(RpcStep(a, t))
    /\ SF_vars(Tick)

FairSpec == Spec /\ Fairness

-------------------------------------------------------------------------------
(* The properties.                                                         *)

\* The workspace never holds more rows than its limit, expired ones included,
\* however the statements of its threads interleave, leases lapse and come
\* back, and Durable Objects restart (container-ledger.ts: the conditional
\* insert is the lease; a read-then-insert would let two threads in).
CapHolds == Cardinality(DOMAIN rows) <= Limit

\* Between its two statements, tryAdmit may rely on its first: no row that had
\* expired at its instant is in the table, not even one revived since.
PrunedBeforeInsert ==
    \A t \in Threads :
        op[t].pc = "insert" => \A u \in DOMAIN rows : rows[u] > -op[t].age

\* A thread that holds a row is never refused by the cap: its own row is not
\* counted against it, and at the limit it renews the slot it has.
OwnRowIsRenewed ==
    [][\A t \in Threads :
          Insert(t) /\ t \in DOMAIN rows => rows'[t] = Ttl - op[t].age]_vars

\* A thread told it is admitted has a row in the table at that moment, also
\* where the platform does not say whether the insert took place.
AdmittedHoldsRow ==
    [][\A t \in Threads :
          op[t].pc # "acquire" /\ op'[t].pc = "acquire" => t \in DOMAIN rows']_vars

\* A leaked row heals: once the other threads have no container and do nothing
\* more, there comes a time from which thread t is never told the workspace is full,
\* whatever rows restarts and failed releases have left behind.
Quiet(t) ==
    \A u \in Threads \ {t} :
        /\ env[u] = "absent" /\ op[u].pc = "idle"
        /\ \A a \in Threads : rpc[<<a, u>>] = "none" \/ a = t

AboutToBeRefused(t) ==
    /\ op[t].pc = "insert" /\ op[t].stage = "last"
    /\ Cardinality(Unexpired(op[t].age) \ {t}) >= Limit

LeakedRowHeals(t) == <>[]Quiet(t) => <>[]~AboutToBeRefused(t)
===============================================================================
