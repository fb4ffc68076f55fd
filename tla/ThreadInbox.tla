----------------------------- MODULE ThreadInbox -----------------------------
(***************************************************************************)
(* What reaches a thread while its agent may be busy: messages the user    *)
(* queues behind the turn, messages the user steers into it, and the       *)
(* completions of background work.  Queued messages wait in ONE submission *)
(* that every queue call takes apart and puts together again; steers and   *)
(* completions wait in the durable injection buffer, which the next step   *)
(* of the turn, or a turn started for them, empties.                       *)
(*                                                                         *)
(* The object is single-threaded between awaits: a step below is what runs *)
(* from one await to the next, and anything may come in between.  The      *)
(* submission ledger, its drain loop and the turn queue are the agent      *)
(* SDK's; they are modelled from what the code relies on.                  *)
(***************************************************************************)
EXTENDS Integers, Sequences, FiniteSets

CONSTANTS
  Queued,       \* messages the user queues
  Steers,       \* messages the user steers
  Completions,  \* completions of background work
  Callers,      \* queue calls that may be in flight at once
  MaxChats,     \* bound: turns a client starts directly
  MaxFaults     \* bound: crashes, calls that throw, turns that die early

Injected == Steers \cup Completions
Messages == Queued \cup Injected

ASSUME KindsAssumption ==
  Queued \cap Injected = {} /\ Steers \cap Completions = {} /\ "flush" \notin Messages
ASSUME BoundsAssumption == {MaxChats, MaxFaults} \subseteq Nat

VARIABLES
  buffer,     \* pending_injections
  subs,       \* submissions, in the order they were created
  history,    \* the messages of the transcript
  turn,       \* the active turn
  kicks,      \* _kickInjectionTurn calls in flight, by what started them
  hooks,      \* onChatResponse calls that have not reached the flush
  rpc,        \* [c -> the queue call c runs]
  accepted,   \* messages that were handed to the thread
  withdrawn,  \* messages whose cancel was acknowledged
  dropped,    \* messages a queue call held when it died
  chats, faults

vars == <<buffer, subs, history, turn, kicks, hooks, rpc, accepted, withdrawn, dropped,
          chats, faults>>

Live == {"pending", "running"}
Submission == [msgs: SUBSET Messages, queued: BOOLEAN,
               status: Live \cup {"completed", "aborted", "error"}]

\* sub is 0 for a turn no submission started; peeked is what the step's drain
\* has read of the buffer.
Turn == [pc: {"none", "run", "persist", "delete"}, sub: Nat, peeked: SUBSET Injected]
NoTurn == [pc |-> "none", sub |-> 0, peeked |-> {}]

Kickers == Injected \cup {"flush"}
Kick == [pc: {"idle", "submit", "delete"}, msgs: SUBSET Injected]
NoKick == [pc |-> "idle", msgs |-> {}]

\* hand: the messages the call would lose if it died here.
Rpc == [pc: {"idle", "list", "pick", "merge", "inspect", "check", "submit"},
        msg: Queued \cup {"none"}, sub: Nat, seen: SUBSET Nat, hand: SUBSET Queued]
NoRpc == [pc |-> "idle", msg |-> "none", sub |-> 0, seen |-> {}, hand |-> {}]

-----------------------------------------------------------------------------

TurnActive == turn.pc # "none"
Fault == faults < MaxFaults /\ faults' = faults + 1

LiveSubs == {i \in DOMAIN subs : subs[i].status \in Live}

\* isQueuedBatchApplied: some message of the submission is in the transcript.
Applied(i) == subs[i].msgs \cap history # {}

\* A batch the queue may still take apart.
Waiting == {i \in LiveSubs : subs[i].queued /\ ~Applied(i)}

Submitted(msgs, queued) ==
  Append(subs, [msgs |-> msgs, queued |-> queued, status |-> "pending"])

\* cancelSubmission: a submission that has ended is left alone.
Cancelled(i) ==
  IF subs[i].status \in Live THEN [subs EXCEPT ![i].status = "aborted"] ELSE subs

-----------------------------------------------------------------------------
(* Queued messages *)

\* Variant: the calls are not chained.
CallerFree(c) == rpc[c].pc = "idle"

\* serializeQueuedRpc: one queue call runs at a time.
ChainFree(c) == \A d \in Callers : rpc[d].pc = "idle"

\* submitQueuedUserMessage
Send(c) ==
  /\ ChainFree(c)
  /\ \E m \in Queued \ accepted :
       /\ rpc' = [rpc EXCEPT ![c] = [NoRpc EXCEPT !.pc = "list", !.msg = m, !.hand = {m}]]
       /\ accepted' = accepted \cup {m}
  /\ UNCHANGED <<buffer, subs, history, turn, kicks, hooks, withdrawn, dropped, chats, faults>>

\* findWaitingQueuedBatch: the submissions as listed ...
ListSubs(c) ==
  /\ rpc[c].pc = "list"
  /\ rpc' = [rpc EXCEPT ![c].pc = "pick", ![c].seen = {i \in LiveSubs : subs[i].queued}]
  /\ UNCHANGED <<buffer, subs, history, turn, kicks, hooks, accepted, withdrawn, dropped,
                 chats, faults>>

\* Variant: a submission the drain loop has claimed is taken for the turn.
PickPending(c) ==
  LET free == {i \in rpc[c].seen : subs[i].status = "pending"} IN
  /\ rpc[c].pc = "pick"
  /\ rpc' = [rpc EXCEPT ![c].pc = "merge", ![c].seen = {},
                        ![c].sub = IF free = {} THEN 0
                                   ELSE CHOOSE i \in free : \A j \in free : j <= i]
  /\ UNCHANGED <<buffer, subs, history, turn, kicks, hooks, accepted, withdrawn, dropped,
                 chats, faults>>

\* ... of which the newest that is not applied is picked.
Pick(c) ==
  LET free == {i \in rpc[c].seen : ~Applied(i)} IN
  /\ rpc[c].pc = "pick"
  /\ rpc' = [rpc EXCEPT ![c].pc = "merge", ![c].seen = {},
                        ![c].sub = IF free = {} THEN 0
                                   ELSE CHOOSE i \in free : \A j \in free : j <= i]
  /\ UNCHANGED <<buffer, subs, history, turn, kicks, hooks, accepted, withdrawn, dropped,
                 chats, faults>>

\* Variant: the batch was free when it was picked, and that will do.
MergeUnchecked(c) ==
  /\ rpc[c].pc = "merge"
  /\ IF rpc[c].sub # 0
     THEN /\ subs' = Cancelled(rpc[c].sub)
          /\ rpc' = [rpc EXCEPT ![c].pc = "submit", ![c].hand = @ \cup subs[rpc[c].sub].msgs]
     ELSE subs' = subs /\ rpc' = [rpc EXCEPT ![c].pc = "submit"]
  /\ UNCHANGED <<buffer, history, turn, kicks, hooks, accepted, withdrawn, dropped, chats, faults>>

\* The applied re-check and, with no await between, the cancel of the batch
\* whose messages are submitted again with the new one.
Merge(c) ==
  /\ rpc[c].pc = "merge"
  /\ IF rpc[c].sub # 0 /\ ~Applied(rpc[c].sub)
     THEN /\ subs' = Cancelled(rpc[c].sub)
          /\ rpc' = [rpc EXCEPT ![c].pc = "submit", ![c].hand = @ \cup subs[rpc[c].sub].msgs]
     ELSE subs' = subs /\ rpc' = [rpc EXCEPT ![c].pc = "submit"]
  /\ UNCHANGED <<buffer, history, turn, kicks, hooks, accepted, withdrawn, dropped, chats, faults>>

SubmitBatch(c) ==
  /\ rpc[c].pc = "submit"
  /\ subs' = Submitted(rpc[c].hand, TRUE)
  /\ rpc' = [rpc EXCEPT ![c] = NoRpc]
  /\ UNCHANGED <<buffer, history, turn, kicks, hooks, accepted, withdrawn, dropped, chats, faults>>

\* cancelQueuedUserMessage, for a row the client has listed at some time.
CancelQueued(c) ==
  /\ ChainFree(c)
  /\ \E i \in DOMAIN subs : \E m \in subs[i].msgs \cap Queued :
       /\ subs[i].queued /\ m \notin withdrawn
       /\ rpc' = [rpc EXCEPT ![c] = [NoRpc EXCEPT !.pc = "inspect", !.msg = m, !.sub = i]]
  /\ UNCHANGED <<buffer, subs, history, turn, kicks, hooks, accepted, withdrawn, dropped,
                 chats, faults>>

Inspect(c) ==
  /\ rpc[c].pc = "inspect"
  /\ rpc' = [rpc EXCEPT ![c] = IF subs[@.sub].status \in Live THEN [@ EXCEPT !.pc = "check"]
                               ELSE NoRpc]
  /\ UNCHANGED <<buffer, subs, history, turn, kicks, hooks, accepted, withdrawn, dropped,
                 chats, faults>>

\* Variant: the rebuilt batch is cut from the one that was there.
CheckKeepingItem(c) ==
  LET batch == subs[rpc[c].sub].msgs IN
  /\ rpc[c].pc = "check"
  /\ ~Applied(rpc[c].sub)
  /\ subs' = Cancelled(rpc[c].sub)
  /\ withdrawn' = withdrawn \cup {rpc[c].msg}
  /\ rpc' = [rpc EXCEPT ![c] = IF batch = {@.msg} THEN NoRpc
                               ELSE [@ EXCEPT !.pc = "submit", !.hand = batch]]
  /\ UNCHANGED <<buffer, history, turn, kicks, hooks, accepted, dropped, chats, faults>>

\* canCancelQueuedUserMessageBatch, the cancel, and what remains to resubmit.
Check(c) ==
  LET remaining == subs[rpc[c].sub].msgs \ {rpc[c].msg} IN
  /\ rpc[c].pc = "check"
  /\ ~Applied(rpc[c].sub)
  /\ subs' = Cancelled(rpc[c].sub)
  /\ withdrawn' = withdrawn \cup {rpc[c].msg}
  /\ rpc' = [rpc EXCEPT ![c] = IF remaining = {} THEN NoRpc
                               ELSE [@ EXCEPT !.pc = "submit", !.hand = remaining]]
  /\ UNCHANGED <<buffer, history, turn, kicks, hooks, accepted, dropped, chats, faults>>

Refused(c) ==
  /\ rpc[c].pc = "check"
  /\ Applied(rpc[c].sub)
  /\ rpc' = [rpc EXCEPT ![c] = NoRpc]
  /\ UNCHANGED <<buffer, subs, history, turn, kicks, hooks, accepted, withdrawn, dropped,
                 chats, faults>>

\* A call of the SDK throws; the chain goes on with the next queue call.
RpcThrows(c) ==
  /\ rpc[c].pc # "idle" /\ Fault
  /\ dropped' = dropped \cup rpc[c].hand
  /\ rpc' = [rpc EXCEPT ![c] = NoRpc]
  /\ UNCHANGED <<buffer, subs, history, turn, kicks, hooks, accepted, withdrawn, chats>>

-----------------------------------------------------------------------------
(* The injection buffer *)

\* Variant: a turn that is only submitted counts as active.
DeliverBehindSubmission(m) ==
  /\ m \notin accepted
  /\ accepted' = accepted \cup {m}
  /\ buffer' = buffer \cup {m}
  /\ kicks' = IF TurnActive \/ LiveSubs # {} THEN kicks
              ELSE [kicks EXCEPT ![m] = [pc |-> "submit", msgs |-> buffer']]
  /\ UNCHANGED <<subs, history, turn, hooks, rpc, withdrawn, dropped, chats, faults>>

\* deliverInjection: durable on return.  With a turn active its next step
\* drains the buffer, else a turn is started for what the buffer holds.
Deliver(m) ==
  /\ m \notin accepted
  /\ accepted' = accepted \cup {m}
  /\ buffer' = buffer \cup {m}
  /\ kicks' = IF TurnActive THEN kicks
              ELSE [kicks EXCEPT ![m] = [pc |-> "submit", msgs |-> buffer']]
  /\ UNCHANGED <<subs, history, turn, hooks, rpc, withdrawn, dropped, chats, faults>>

\* _kickInjectionTurn: peeked when it was called; submit, then delete.
KickSubmit(k) ==
  /\ kicks[k].pc = "submit"
  /\ subs' = Submitted(kicks[k].msgs, FALSE)
  /\ kicks' = [kicks EXCEPT ![k].pc = "delete"]
  /\ UNCHANGED <<buffer, history, turn, hooks, rpc, accepted, withdrawn, dropped, chats, faults>>

\* Variant: the buffer is emptied, whatever was peeked.
KickDeleteAll(k) ==
  /\ kicks[k].pc = "delete"
  /\ buffer' = {}
  /\ kicks' = [kicks EXCEPT ![k] = NoKick]
  /\ UNCHANGED <<subs, history, turn, hooks, rpc, accepted, withdrawn, dropped, chats, faults>>

KickDelete(k) ==
  /\ kicks[k].pc = "delete"
  /\ buffer' = buffer \ kicks[k].msgs
  /\ kicks' = [kicks EXCEPT ![k] = NoKick]
  /\ UNCHANGED <<subs, history, turn, hooks, rpc, accepted, withdrawn, dropped, chats, faults>>

\* submitMessages throws: the rows stay.
KickThrows(k) ==
  /\ kicks[k].pc = "submit" /\ Fault
  /\ kicks' = [kicks EXCEPT ![k] = NoKick]
  /\ UNCHANGED <<buffer, subs, history, turn, hooks, rpc, accepted, withdrawn, dropped, chats>>

\* cancelSteer: acknowledged while the entry is still buffered.
CancelSteer(m) ==
  /\ m \in buffer
  /\ buffer' = buffer \ {m}
  /\ withdrawn' = withdrawn \cup {m}
  /\ UNCHANGED <<subs, history, turn, kicks, hooks, rpc, accepted, dropped, chats, faults>>

-----------------------------------------------------------------------------
(* Turns *)

\* A client sends directly while the thread is idle.
ChatTurn ==
  /\ ~TurnActive /\ chats < MaxChats
  /\ turn' = [NoTurn EXCEPT !.pc = "run"]
  /\ chats' = chats + 1
  /\ UNCHANGED <<buffer, subs, history, kicks, hooks, rpc, accepted, withdrawn, dropped, faults>>

\* The drain loop claims the oldest pending submission once the one before it
\* has ended; its turn still waits behind the active one.
ClaimSub(i) ==
  /\ subs[i].status = "pending"
  /\ \A j \in DOMAIN subs : subs[j].status # "running"
  /\ \A j \in DOMAIN subs : subs[j].status = "pending" => i <= j
  /\ subs' = [subs EXCEPT ![i].status = "running"]
  /\ UNCHANGED <<buffer, history, turn, kicks, hooks, rpc, accepted, withdrawn, dropped,
                 chats, faults>>

\* The messages of the submission enter the transcript, and its turn runs.
StartTurn(i) ==
  /\ ~TurnActive /\ subs[i].status = "running"
  /\ history' = history \cup subs[i].msgs
  /\ turn' = [NoTurn EXCEPT !.pc = "run", !.sub = i]
  /\ UNCHANGED <<buffer, subs, kicks, hooks, rpc, accepted, withdrawn, dropped, chats, faults>>

\* Variant: the peek takes the rows with it.
StepPeekTaking ==
  /\ turn.pc = "run" /\ buffer # {}
  /\ turn' = [turn EXCEPT !.pc = "persist", !.peeked = buffer]
  /\ buffer' = {}
  /\ UNCHANGED <<subs, history, kicks, hooks, rpc, accepted, withdrawn, dropped, chats, faults>>

\* beforeStep, _drainInjectionsIntoTurn: peek, persist, delete.
StepPeek ==
  /\ turn.pc = "run" /\ buffer # {}
  /\ turn' = [turn EXCEPT !.pc = "persist", !.peeked = buffer]
  /\ UNCHANGED <<buffer, subs, history, kicks, hooks, rpc, accepted, withdrawn, dropped,
                 chats, faults>>

StepPersist ==
  /\ turn.pc = "persist"
  /\ history' = history \cup turn.peeked
  /\ turn' = [turn EXCEPT !.pc = "delete"]
  /\ UNCHANGED <<buffer, subs, kicks, hooks, rpc, accepted, withdrawn, dropped, chats, faults>>

StepDelete ==
  /\ turn.pc = "delete"
  /\ buffer' = buffer \ turn.peeked
  /\ turn' = [turn EXCEPT !.pc = "run", !.peeked = {}]
  /\ UNCHANGED <<subs, history, kicks, hooks, rpc, accepted, withdrawn, dropped, chats, faults>>

Ended(status) ==
  IF turn.sub = 0 \/ subs[turn.sub].status # "running" THEN subs
  ELSE [subs EXCEPT ![turn.sub].status = status]

\* The turn releases the queue, and onChatResponse follows.
TurnEnds ==
  /\ turn.pc = "run"
  /\ subs' = Ended("completed")
  /\ turn' = NoTurn
  /\ hooks' = hooks + 1
  /\ UNCHANGED <<buffer, history, kicks, rpc, accepted, withdrawn, dropped, chats, faults>>

\* A turn that dies before any part of its answer was persisted has no hook.
TurnDies ==
  /\ turn.pc \in {"run", "persist"} /\ Fault
  /\ subs' = Ended("error")
  /\ turn' = NoTurn
  /\ UNCHANGED <<buffer, history, kicks, hooks, rpc, accepted, withdrawn, dropped, chats>>

\* Variant: the hook starts no turn.
FlushNothing ==
  /\ hooks > 0
  /\ hooks' = hooks - 1
  /\ UNCHANGED <<buffer, subs, history, turn, kicks, rpc, accepted, withdrawn, dropped,
                 chats, faults>>

\* onChatResponse: what came too late for a step is given a turn of its own.
Flush ==
  /\ hooks > 0 /\ kicks["flush"].pc = "idle"
  /\ hooks' = hooks - 1
  /\ kicks' = IF buffer = {} THEN kicks
              ELSE [kicks EXCEPT !["flush"] = [pc |-> "submit", msgs |-> buffer]]
  /\ UNCHANGED <<buffer, subs, history, turn, rpc, accepted, withdrawn, dropped, chats, faults>>

\* The object is evicted: memory is lost, rows stay.  The SDK makes interrupted
\* submissions pending again, or gives one up that was under way.
Crash ==
  /\ Fault
  /\ \E lost \in SUBSET {i \in LiveSubs : i = turn.sub} :
       subs' = [i \in DOMAIN subs |->
                  IF i \in lost THEN [subs[i] EXCEPT !.status = "error"]
                  ELSE IF i \in LiveSubs THEN [subs[i] EXCEPT !.status = "pending"]
                  ELSE subs[i]]
  /\ turn' = NoTurn /\ hooks' = 0
  /\ kicks' = [k \in Kickers |-> NoKick]
  /\ rpc' = [c \in Callers |-> NoRpc]
  /\ dropped' = dropped \cup UNION {rpc[c].hand : c \in Callers}
  /\ UNCHANGED <<buffer, history, accepted, withdrawn, chats>>

-----------------------------------------------------------------------------
Init ==
  /\ buffer = {} /\ subs = <<>> /\ history = {} /\ turn = NoTurn
  /\ kicks = [k \in Kickers |-> NoKick] /\ hooks = 0
  /\ rpc = [c \in Callers |-> NoRpc]
  /\ accepted = {} /\ withdrawn = {} /\ dropped = {}
  /\ chats = 0 /\ faults = 0

\* The continuations of a queue call.
Continues(c) ==
  ListSubs(c) \/ Pick(c) \/ Merge(c) \/ SubmitBatch(c) \/ Inspect(c) \/ Check(c) \/ Refused(c)

Next ==
  \/ \E c \in Callers : Send(c) \/ CancelQueued(c) \/ Continues(c) \/ RpcThrows(c)
  \/ \E m \in Injected : Deliver(m)
  \/ \E k \in Kickers : KickSubmit(k) \/ KickDelete(k) \/ KickThrows(k)
  \/ \E m \in Steers : CancelSteer(m)
  \/ \E i \in DOMAIN subs : ClaimSub(i) \/ StartTurn(i)
  \/ ChatTurn \/ StepPeek \/ StepPersist \/ StepDelete \/ TurnEnds \/ TurnDies
  \/ Flush \/ Crash

Spec == Init /\ [][Next]_vars

\* A continuation runs when its await is over, the drain loop runs on, and a
\* turn ends.  Nothing is assumed of the users.
Fairness ==
  /\ \A c \in Callers : WF_vars(Continues(c))
  /\ \A k \in Kickers : WF_vars(KickSubmit(k) \/ KickDelete(k))
  /\ WF_vars(\E i \in DOMAIN subs : ClaimSub(i))
  /\ WF_vars(\E i \in DOMAIN subs : StartTurn(i))
  /\ WF_vars(StepPersist \/ StepDelete)
  /\ WF_vars(TurnEnds) /\ WF_vars(Flush)

FairSpec == Spec /\ Fairness

-----------------------------------------------------------------------------
(* Properties *)

TypeOK ==
  /\ buffer \subseteq Injected
  /\ subs \in Seq(Submission)
  /\ history \subseteq Messages
  /\ turn \in Turn /\ turn.sub \in {0} \cup DOMAIN subs
  /\ turn.sub # 0 => subs[turn.sub].status = "running"
  /\ kicks \in [Kickers -> Kick]
  /\ hooks \in Nat
  /\ rpc \in [Callers -> Rpc]
  /\ \A c \in Callers : rpc[c].pc \in {"inspect", "check"} => rpc[c].sub \in DOMAIN subs
  /\ accepted \subseteq Messages /\ withdrawn \subseteq accepted /\ dropped \subseteq Queued
  /\ chats \in Nat /\ faults \in Nat

\* The queue holds at most one waiting submission, whatever the calls of two
\* tabs, the drain loop and crashes do: all that waits runs as one turn.
OneWaiting == \A i, j \in Waiting : i = j

\* No queue call cancels the active turn: a batch whose messages have entered
\* the transcript is never aborted.
ActiveTurnIsSafe ==
  [][\A i \in DOMAIN subs :
       subs[i].status # "aborted" /\ subs'[i].status = "aborted" => ~Applied(i)]_vars

\* Where a queued message is, besides the transcript.
Places(m) ==
  {i \in LiveSubs : m \in subs[i].msgs /\ ~Applied(i)} \cup
  {c \in Callers : m \in rpc[c].hand}

\* A queued message is in exactly one place through every merge and every
\* cancel of a neighbour, until it is in the transcript, unless its own cancel
\* was acknowledged or the call that had it in hand died.
QueuedKept ==
  \A m \in Queued \cap accepted :
    m \notin history \cup withdrawn \cup dropped => \E p \in Places(m) : Places(m) = {p}

\* A queued message whose cancel was acknowledged never runs.
WithdrawnStaysOut ==
  \A m \in Queued \cap withdrawn : m \notin history /\ Places(m) = {}

\* The queue as QueueContract sees it: what waits, and what the queue calls hold.
WaitingMessages == UNION {subs[i].msgs : i \in Waiting}
JoiningMessages == UNION {rpc[c].hand : c \in Callers}

QueueSeen == INSTANCE QueueContract WITH
  Message <- Queued, waiting <- WaitingMessages, joining <- JoiningMessages,
  ran <- history \cap Queued, cancelled <- withdrawn \cap Queued, lost <- dropped

\* Through its lists, looks, cancels, submits, deaths and restarts, the queue is
\* one batch that is run or taken apart as a whole (QueueContract).
KeepsQueueContract == QueueSeen!Spec

\* A steer or a completion that was handed over is never lost, whatever
\* crashes: it is buffered, submitted or in the transcript.
InjectionKept ==
  \A m \in (Injected \cap accepted) \ withdrawn :
    m \in buffer \cup history \/ \E i \in LiveSubs : m \in subs[i].msgs

\* Unless something dies, what is handed to the thread reaches the transcript
\* or is cancelled: nothing that comes too late for the last step is left in
\* the buffer.
EverythingArrives ==
  [](faults = 0) => \A m \in Messages : m \in accepted ~> m \in history \cup withdrawn

\* Unless something died, what is buffered has something in flight that will
\* drain it: a turn with a step or an end to come, the hook of one that ended,
\* or a turn being started.
BufferIsDrained ==
  buffer # {} /\ faults = 0 =>
    TurnActive \/ hooks > 0 \/ \E k \in Kickers : kicks[k].pc # "idle"
=============================================================================
