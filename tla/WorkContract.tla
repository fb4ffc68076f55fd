----------------------------- MODULE WorkContract -----------------------------
(***************************************************************************)
(* What the ledger promises about each background process, however the     *)
(* alarm, the tools and the sandbox interleave: once the model was told    *)
(* that a process runs in the background, the process ends exactly once,   *)
(* for one reason, and the model hears of it exactly once, unless it or    *)
(* the user stopped the process, which needs no message.                   *)
(***************************************************************************)
EXTENDS Naturals

CONSTANTS
    Work,       \* the background processes
    Reasons,    \* why a process may be over
    Requested   \* the reason of those: somebody asked for the stop

VARIABLE promise

\* The life of one promise: unmade; open; closed with a message owed; closed
\* and told; closed without a message; dropped from the record.
Phase == {"unmade", "open", "owed", "told", "silent", "forgotten"}

Promise == [phase : Phase, reason : Reasons \cup {"none"}, sent : Nat]

Unmade == [phase |-> "unmade", reason |-> "none", sent |-> 0]

Opens(was, is) ==
    was = Unmade /\ is = [phase |-> "open", reason |-> "none", sent |-> 0]

Closes(was, is) ==
    /\ was.phase = "open"
    /\ \E r \in Reasons : is = [phase |-> "owed", reason |-> r, sent |-> was.sent]

Tells(was, is) ==
    /\ was.phase = "owed"
    /\ is = [phase |-> "told", reason |-> was.reason, sent |-> was.sent + 1]

ClosesTelling(was, is) ==
    /\ was.phase = "open"
    /\ \E r \in Reasons :
         is = [phase |-> "told", reason |-> r, sent |-> was.sent + 1]

\* Only a stop that was asked for is silent.
ClosesSilently(was, is) ==
    /\ was.phase = "open"
    /\ is = [phase |-> "silent", reason |-> Requested, sent |-> was.sent]

\* An owed message is never dropped.
Forgets(was, is) ==
    /\ was.phase \in {"told", "silent"}
    /\ is = [phase |-> "forgotten", reason |-> "none", sent |-> 0]

Moves(was, is) ==
    \/ Opens(was, is) \/ Closes(was, is) \/ Tells(was, is)
    \/ ClosesTelling(was, is) \/ ClosesSilently(was, is) \/ Forgets(was, is)

Init == promise = [w \in Work |-> Unmade]

\* The loss of the environment ends several processes in one step.
Next ==
    /\ promise' \in [Work -> Promise]
    /\ \A w \in Work : promise'[w] = promise[w] \/ Moves(promise[w], promise'[w])

Spec == Init /\ [][Next]_promise
===============================================================================
