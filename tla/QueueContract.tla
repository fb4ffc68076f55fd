---------------------------- MODULE QueueContract ----------------------------
(***************************************************************************)
(* What the queue of a thread promises of the messages a user sends while  *)
(* a turn runs: there is one batch that waits, and it runs as a whole, or  *)
(* is taken apart as a whole.  A message that joins, and one that leaves,  *)
(* take the others along and bring them back; no message is ever in two    *)
(* places, and none leaves but by running, by its own cancel, or with the  *)
(* call that had it in hand.                                               *)
(***************************************************************************)
CONSTANT Message

VARIABLES
  waiting,    \* the batch that the next turn runs
  joining,    \* what the call in progress will put there
  ran,        \* messages in the transcript
  cancelled,  \* messages whose cancel was acknowledged
  lost        \* messages whose call died

queue == <<waiting, joining, ran, cancelled, lost>>

Known == waiting \cup joining \cup ran \cup cancelled \cup lost

Init == waiting = {} /\ joining = {} /\ ran = {} /\ cancelled = {} /\ lost = {}

\* One call at a time.
Accepts(m) ==
  /\ joining = {} /\ m \notin Known
  /\ joining' = {m}
  /\ UNCHANGED <<waiting, ran, cancelled, lost>>

TakesAlong ==
  /\ joining # {}
  /\ joining' = joining \cup waiting /\ waiting' = {}
  /\ UNCHANGED <<ran, cancelled, lost>>

\* Nothing else waits by then.
Submits ==
  /\ joining # {} /\ waiting = {}
  /\ waiting' = joining /\ joining' = {}
  /\ UNCHANGED <<ran, cancelled, lost>>

Cancels(m) ==
  /\ joining = {} /\ m \in waiting
  /\ cancelled' = cancelled \cup {m}
  /\ joining' = waiting \ {m} /\ waiting' = {}
  /\ UNCHANGED <<ran, lost>>

\* The batch that runs is the whole batch, whatever a call is about to add.
Runs ==
  /\ waiting # {}
  /\ ran' = ran \cup waiting /\ waiting' = {}
  /\ UNCHANGED <<joining, cancelled, lost>>

\* A call dies; what waits stays.
Dies ==
  /\ joining # {}
  /\ lost' = lost \cup joining /\ joining' = {}
  /\ UNCHANGED <<waiting, ran, cancelled>>

Next ==
  \/ \E m \in Message : Accepts(m) \/ Cancels(m)
  \/ TakesAlong \/ Submits \/ Runs \/ Dies

Spec == Init /\ [][Next]_queue

\* No message is in two places.  It follows from the steps above.
Apart ==
  /\ waiting \cap joining = {}
  /\ (waiting \cup joining) \cap (ran \cup cancelled \cup lost) = {}
  /\ ran \cap cancelled = {} /\ (ran \cup cancelled) \cap lost = {}
=============================================================================
