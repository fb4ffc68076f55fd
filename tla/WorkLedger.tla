------------------------------ MODULE WorkLedger ------------------------------
(***************************************************************************)
(* The background work ledger of one thread: the row of the SQLite table   *)
(* background_work (agent/work-ledger-store.ts), the statements that       *)
(* change one row, and the reaper's pure classification of a row           *)
(* (agent/work-ledger.ts).  No state here: a store is a function from work *)
(* ids to rows, held by the module that EXTENDS this one.                  *)
(*                                                                         *)
(* Times are ticks of one poll interval.  0 is UNKNOWN_GENERATION and the  *)
(* nonce of a container that carries none; real nonces are positive.       *)
(***************************************************************************)
EXTENDS Integers, FiniteSets

CONSTANTS
    StaleAfter,   \* PROCESS_STALE_AFTER_MS: silence after which a row is stale
    WatchMax,     \* MAX_WATCH_TIMEOUT_MS: a row's budget, and the longest watch
    RetryAfter,   \* WORK_DELIVERY_RETRY_MS: wait before an owed delivery is retried
    Retention,    \* WORK_ROW_RETENTION_MS: how long a settled row is kept
    None          \* no value (no alarm, no terminal)

ASSUME LedgerAssumption ==
    /\ StaleAfter \in Nat \ {0}
    /\ WatchMax \in Nat \ {0}
    /\ RetryAfter \in Nat \ {0}
    /\ Retention \in Nat
    /\ None \notin Int

UNKNOWN_GENERATION == 0

\* WorkReason: why a row closed.  The last three are what the reaper writes
\* (the poll of a watcher writes "watch_timeout" too).
WorkReason ==
    {"process_exit", "process_stopped", "sandbox_reset", "watch_timeout", "no_liveness"}

\* A row is absent from the table, open (terminal NULL) or closed.
Row == [state      : {"absent", "open", "closed"},
        startedAt  : Nat,
        lastAlive  : Nat,
        deadlineAt : Nat,
        generation : Nat,
        reason     : WorkReason \cup {"none"},
        terminalAt : Nat,
        delivered  : BOOLEAN]

NoRow == [state |-> "absent", startedAt |-> 0, lastAlive |-> 0, deadlineAt |-> 0,
          generation |-> UNKNOWN_GENERATION, reason |-> "none", terminalAt |-> 0,
          delivered |-> FALSE]

\* CurrentGeneration: what the compute store says of the live container's
\* nonce.  value is the nonce when known, observedAt when absent.
CurrentGeneration == [kind : {"unknown", "known", "absent"}, value : Nat]

UnknownGeneration == [kind |-> "unknown", value |-> 0]
KnownGeneration(nonce) == [kind |-> "known", value |-> nonce]

Later(s, t) == IF s >= t THEN s ELSE t

IsOpen(row) == row.state = "open"
IsOwed(row) == row.state = "closed" /\ ~row.delivered
IsSettled(row) == row.state = "closed" /\ row.delivered

-------------------------------------------------------------------------------
(* The statements of the store, each on the row it addresses.              *)

\* buildProcessWorkRow: the row a watched process registers.
ProcessWorkRow(generation, t) ==
    [NoRow EXCEPT !.state = "open", !.startedAt = t, !.lastAlive = t,
                  !.deadlineAt = t + WatchMax, !.generation = generation]

\* register: INSERT, or on conflict refresh; the start and the terminal stay.
RegisterRow(row, new) ==
    IF row.state = "absent" THEN new
    ELSE [row EXCEPT !.lastAlive = Later(row.lastAlive, new.lastAlive),
                     !.deadlineAt = new.deadlineAt,
                     !.generation = new.generation]

\* stampAlive: only an open row, and never backwards.
StampAlive(row, t) ==
    IF IsOpen(row) THEN [row EXCEPT !.lastAlive = Later(row.lastAlive, t)] ELSE row

\* Variant: UPDATE without the IS NULL guard on the terminal.
TerminalizeAgain(row, reason, t) ==
    IF row.state = "absent" THEN row
    ELSE [row EXCEPT !.state = "closed", !.reason = reason, !.terminalAt = t]

\* terminalize: writes the terminal of an open row only; its boolean result is
\* IsOpen of the row it found.
Terminalize(row, reason, t) ==
    IF IsOpen(row)
    THEN [row EXCEPT !.state = "closed", !.reason = reason, !.terminalAt = t]
    ELSE row

\* markDelivered: closes the delivery gate of a closed row.
MarkDelivered(row) ==
    IF IsOwed(row) THEN [row EXCEPT !.delivered = TRUE] ELSE row

\* prune: drops a settled row past the retention window.
PruneRow(row, before) ==
    IF IsSettled(row) /\ row.terminalAt < before THEN NoRow ELSE row

-------------------------------------------------------------------------------
(* Classification: reads the row and the supplied generation, no more.     *)

IsReset(row, current) ==
    \/ /\ current.kind = "known"
       /\ row.generation # UNKNOWN_GENERATION
       /\ row.generation # current.value
    \/ /\ current.kind = "absent"
       /\ row.startedAt < current.value

\* classifyWork: the reason to close the row for, or "alive".
ClassifyWork(row, current, t) ==
    CASE ~IsOpen(row)                         -> "alive"
      [] IsOpen(row) /\ IsReset(row, current) -> "sandbox_reset"
      [] /\ IsOpen(row) /\ ~IsReset(row, current)
         /\ t > row.deadlineAt                -> "watch_timeout"
      [] /\ IsOpen(row) /\ ~IsReset(row, current)
         /\ t <= row.deadlineAt
         /\ t - row.lastAlive > StaleAfter    -> "no_liveness"
      [] OTHER                                -> "alive"

\* The least of a set of times, None when there is none.
Soonest(times) ==
    IF times = {} THEN None
    ELSE CHOOSE t \in times : \A u \in times : t <= u

\* The times at which the sweep must look at the open rows of a store again.
SweepTimes(rows) ==
    UNION { {rows[p].deadlineAt, rows[p].lastAlive + StaleAfter} :
            p \in {q \in DOMAIN rows : IsOpen(rows[q])} }

\* workHorizon: the soonest sweep of an open row (nextSweepAt), and one retry
\* interval out while any delivery is owed.
WorkHorizonTimes(rows, t) ==
    SweepTimes(rows)
      \cup (IF \E p \in DOMAIN rows : IsOwed(rows[p]) THEN {t + RetryAfter} ELSE {})
===============================================================================
