-------------------------- MODULE ThreadInboxProofs --------------------------
(***************************************************************************)
(* Nothing handed to a thread is lost, doubled or run after its cancel,    *)
(* and no active turn is aborted, for any messages, queue calls, turns and *)
(* faults.                                                                 *)
(***************************************************************************)
EXTENDS ThreadInbox, TLAPS

-------------------------------------------------------------------------------
(* The inductive invariant *)

\* The queue calls are chained.
Chained == \A c, d \in Callers : rpc[c].pc # "idle" /\ rpc[d].pc # "idle" => c = d

\* A batch of the queue is in the transcript as a whole or not at all; a
\* submission of injections is live or in the transcript.
SubsInv ==
  /\ \A i \in DOMAIN subs :
       /\ subs[i].queued =>
            /\ subs[i].msgs # {} /\ subs[i].msgs \subseteq Queued \cap accepted
            /\ subs[i].status \in Live /\ Applied(i) => subs[i].msgs \subseteq history
       /\ ~subs[i].queued =>
            /\ subs[i].msgs \subseteq Injected
            /\ subs[i].status \in Live \/ subs[i].msgs \subseteq history
  /\ history \cap Queued \subseteq accepted

\* What a queue call may rely on after its await: the batch it has picked is
\* still the one that waits, or has been started meanwhile.
CallInv(r) ==
  /\ r.hand \subseteq accepted \ (history \cup withdrawn)
  /\ r.pc = "idle" => r.hand = {}
  /\ r.pc \in {"list", "pick", "merge"} =>
       r.msg \in Queued /\ r.hand = {r.msg} /\ \A i \in DOMAIN subs : r.msg \notin subs[i].msgs
  /\ r.pc = "pick" =>
       /\ Waiting \subseteq r.seen /\ r.seen \subseteq DOMAIN subs
       /\ \A i \in r.seen : subs[i].queued /\ (subs[i].status \in Live \/ Applied(i))
  /\ r.pc = "merge" =>
       /\ Waiting \subseteq {r.sub}
       /\ r.sub # 0 => /\ r.sub \in DOMAIN subs /\ subs[r.sub].queued
                       /\ subs[r.sub].status \in Live \/ Applied(r.sub)
  /\ r.pc = "submit" => Waiting = {} /\ r.hand # {}
  /\ r.pc \in {"inspect", "check"} =>
       /\ r.sub \in DOMAIN subs /\ subs[r.sub].queued
       /\ r.msg \in subs[r.sub].msgs /\ r.hand = {}
  /\ r.pc = "check" => subs[r.sub].status \in Live \/ Applied(r.sub)

RpcInv == \A c \in Callers : CallInv(rpc[c])

Kept ==
  \A m \in Queued \cap accepted :
    \/ m \in history \cup withdrawn \cup dropped
    \/ \E i \in Waiting : m \in subs[i].msgs
    \/ \E c \in Callers : m \in rpc[c].hand

Out == \A m \in Queued \cap withdrawn : m \notin history /\ \A i \in Waiting : m \notin subs[i].msgs

QueueInv == Chained /\ SubsInv /\ RpcInv /\ Kept /\ Out /\ OneWaiting

\* An injection needs its row no more: its turn will run, or has.
Landed(m) == m \in history \/ \E i \in LiveSubs : m \in subs[i].msgs

TurnInv ==
  /\ turn.sub # 0 => subs[turn.sub].msgs \subseteq history
  /\ turn.pc = "delete" => turn.peeked \subseteq history

KickInv ==
  \A k \in Kickers :
    /\ kicks[k].pc # "idle" /\ k \in Injected => k \in accepted
    /\ kicks[k].pc = "delete" => \A m \in kicks[k].msgs : Landed(m)

BufferInv ==
  /\ buffer \subseteq accepted
  /\ \A m \in (Injected \cap accepted) \ withdrawn : m \in buffer \/ Landed(m)

\* Who drains a row that is buffered.
Covered ==
  faults = 0 =>
    \A m \in buffer :
      TurnActive \/ hooks > 0 \/ \E k \in Kickers : kicks[k].pc # "idle" /\ m \in kicks[k].msgs

IInv == TypeOK /\ QueueInv /\ TurnInv /\ KickInv /\ BufferInv /\ Covered

-------------------------------------------------------------------------------
(* Submissions *)

LEMMA SubmissionFields ==
  ASSUME TypeOK, NEW i \in DOMAIN subs
  PROVE  /\ subs[i] \in Submission /\ subs[i].msgs \subseteq Messages
         /\ subs[i].queued \in BOOLEAN /\ i \in Nat \ {0}
  <1>1. subs \in Seq(Submission) BY DEF TypeOK
  <1>2. subs[i] \in Submission /\ i \in Nat \ {0} BY <1>1
  <1> QED BY <1>2 DEF Submission

LEMMA SubmittedType ==
  ASSUME TypeOK, NEW M \in SUBSET Messages, NEW q \in BOOLEAN
  PROVE  LET s == Submitted(M, q) IN
         /\ s \in Seq(Submission)
         /\ DOMAIN s = DOMAIN subs \cup {Len(subs) + 1}
         /\ Len(subs) + 1 \notin DOMAIN subs
         /\ \A i \in DOMAIN subs : s[i] = subs[i]
         /\ s[Len(subs) + 1] = [msgs |-> M, queued |-> q, status |-> "pending"]
  <1>1. subs \in Seq(Submission) BY DEF TypeOK
  <1>2. [msgs |-> M, queued |-> q, status |-> "pending"] \in Submission BY DEF Submission, Live
  <1> QED BY <1>1, <1>2 DEF Submitted

LEMMA StatusType ==
  ASSUME TypeOK, NEW i \in DOMAIN subs,
         NEW st \in Live \cup {"completed", "aborted", "error"}
  PROVE  LET s == [subs EXCEPT ![i].status = st] IN
         /\ s \in Seq(Submission) /\ DOMAIN s = DOMAIN subs
         /\ \A j \in DOMAIN subs :
              /\ s[j].msgs = subs[j].msgs /\ s[j].queued = subs[j].queued
              /\ s[j].status = IF j = i THEN st ELSE subs[j].status
  <1>1. subs \in Seq(Submission) BY DEF TypeOK
  <1>2. \A j \in DOMAIN subs : subs[j] \in Submission BY <1>1
  <1>3. [subs[i] EXCEPT !.status = st] \in Submission BY <1>2 DEF Submission
  <1>4. [subs EXCEPT ![i].status = st] \in Seq(Submission) BY <1>1, <1>3
  <1>5. \A j \in DOMAIN subs :
          LET t == [subs EXCEPT ![i].status = st][j] IN
          /\ t.msgs = subs[j].msgs /\ t.queued = subs[j].queued
          /\ t.status = IF j = i THEN st ELSE subs[j].status
    BY <1>2 DEF Submission
  <1> QED BY <1>4, <1>5

\* A step of the turn or of the drain loop: submissions keep what they hold,
\* those that end are in the transcript, new ones hold injections, and what
\* enters the transcript comes as whole batches.
Moved ==
  /\ DOMAIN subs \subseteq DOMAIN subs'
  /\ \A i \in DOMAIN subs :
       /\ subs'[i].msgs = subs[i].msgs /\ subs'[i].queued = subs[i].queued
       /\ subs'[i].status \in Live => subs[i].status \in Live
       /\ subs[i].status \in Live => subs'[i].status \in Live \/ subs[i].msgs \subseteq history'
       /\ subs[i].queued /\ subs[i].status \in Live =>
            (history' \ history) \cap subs[i].msgs = {} \/ subs[i].msgs \subseteq history'
  /\ \A i \in DOMAIN subs' \ DOMAIN subs :
       ~subs'[i].queued /\ subs'[i].msgs \subseteq Injected /\ subs'[i].status \in Live
  /\ history \subseteq history'
  /\ \A m \in Queued \cap (history' \ history) : \E i \in Waiting : m \in subs[i].msgs

\* A queue call goes on undisturbed or dies with what it holds.
CallsOrDrops ==
  /\ dropped \subseteq dropped'
  /\ \A c \in Callers : rpc'[c] = rpc[c] \/ (rpc'[c] = NoRpc /\ rpc[c].hand \subseteq dropped')

\* Only injections are handed over or withdrawn.
InjectionsOnly ==
  /\ accepted \subseteq accepted' /\ accepted' \ accepted \subseteq Injected
  /\ withdrawn \subseteq withdrawn' /\ withdrawn' \ withdrawn \subseteq Injected

LEMMA MovedWaiting ==
  ASSUME TypeOK, TypeOK', QueueInv, Moved
  PROVE  /\ Waiting' \subseteq Waiting
         /\ \A i \in Waiting \ Waiting' : subs[i].msgs \subseteq history'
         /\ \A i \in Waiting : i \in DOMAIN subs /\ subs[i].queued /\ subs[i].status \in Live
         /\ \A i \in DOMAIN subs : Applied(i) => Applied(i)'
  <1>1. \A i \in DOMAIN subs : Applied(i) => Applied(i)' BY DEF Moved, Applied
  <1>2. \A i \in Waiting : i \in DOMAIN subs /\ subs[i].queued /\ subs[i].status \in Live
    BY DEF Waiting, LiveSubs
  <1>3. ASSUME NEW i \in Waiting' PROVE i \in Waiting
    <2>1. /\ i \in DOMAIN subs' /\ subs'[i].queued /\ subs'[i].status \in Live
          /\ ~(subs'[i].msgs \cap history' # {})
      BY DEF Waiting, LiveSubs, Applied
    <2>2. i \in DOMAIN subs BY <2>1 DEF Moved
    <2>3. subs[i].queued /\ subs[i].status \in Live /\ ~Applied(i)
      BY <2>1, <2>2 DEF Moved, Applied
    <2> QED BY <2>2, <2>3 DEF Waiting, LiveSubs
  <1>4. ASSUME NEW i \in Waiting \ Waiting' PROVE subs[i].msgs \subseteq history'
    <2>1. i \in DOMAIN subs /\ subs[i].queued /\ subs[i].status \in Live /\ ~Applied(i)
      BY DEF Waiting, LiveSubs
    <2>2. i \in DOMAIN subs' /\ subs'[i].queued /\ subs'[i].msgs = subs[i].msgs
      BY <2>1 DEF Moved
    <2>3. subs'[i].status \notin Live \/ subs'[i].msgs \cap history' # {}
      BY <2>2 DEF Waiting, LiveSubs, Applied
    <2>4. CASE subs'[i].status \notin Live BY <2>1, <2>4 DEF Moved
    <2>5. CASE subs'[i].msgs \cap history' # {}
      <3>1. (history' \ history) \cap subs[i].msgs # {} BY <2>1, <2>2, <2>5 DEF Applied
      <3> QED BY <2>1, <3>1 DEF Moved
    <2> QED BY <2>3, <2>4, <2>5
  <1> QED BY <1>1, <1>2, <1>3, <1>4

LEMMA MovedSubs ==
  ASSUME TypeOK, TypeOK', QueueInv, Moved, InjectionsOnly
  PROVE  SubsInv'
  <1>1. SubsInv BY DEF QueueInv
  <1>2. ASSUME NEW i \in DOMAIN subs', subs'[i].queued
        PROVE  /\ subs'[i].msgs # {} /\ subs'[i].msgs \subseteq Queued \cap accepted'
               /\ subs'[i].status \in Live /\ Applied(i)' => subs'[i].msgs \subseteq history'
    <2>1. i \in DOMAIN subs /\ subs[i].queued /\ subs'[i].msgs = subs[i].msgs BY <1>2 DEF Moved
    <2>2. subs[i].msgs # {} /\ subs[i].msgs \subseteq Queued \cap accepted
      BY <1>1, <2>1 DEF SubsInv
    <2>3. ASSUME subs'[i].status \in Live, subs'[i].msgs \cap history' # {}
          PROVE  subs'[i].msgs \subseteq history'
      <3>1. subs[i].status \in Live BY <2>1, <2>3 DEF Moved
      <3>2. CASE Applied(i)
        <4>1. subs[i].msgs \subseteq history BY <1>1, <2>1, <3>1, <3>2 DEF SubsInv
        <4> QED BY <2>1, <4>1 DEF Moved
      <3>3. CASE ~Applied(i)
        <4>1. (history' \ history) \cap subs[i].msgs # {} BY <2>1, <2>3, <3>3 DEF Applied
        <4> QED BY <2>1, <3>1, <4>1 DEF Moved
      <3> QED BY <3>2, <3>3
    <2> QED BY <2>1, <2>2, <2>3 DEF InjectionsOnly, Applied
  <1>3. ASSUME NEW i \in DOMAIN subs', ~subs'[i].queued
        PROVE  /\ subs'[i].msgs \subseteq Injected
               /\ subs'[i].status \in Live \/ subs'[i].msgs \subseteq history'
    <2>1. CASE i \in DOMAIN subs
      <3>1. ~subs[i].queued /\ subs'[i].msgs = subs[i].msgs BY <1>3, <2>1 DEF Moved
      <3>2. /\ subs[i].msgs \subseteq Injected
            /\ subs[i].status \in Live \/ subs[i].msgs \subseteq history
        BY <1>1, <2>1, <3>1 DEF SubsInv
      <3> QED BY <2>1, <3>1, <3>2 DEF Moved
    <2>2. CASE i \notin DOMAIN subs BY <2>2 DEF Moved
    <2> QED BY <2>1, <2>2
  <1>4. history' \cap Queued \subseteq accepted'
    <2>1. ASSUME NEW m \in Queued \cap (history' \ history) PROVE m \in accepted'
      <3>1. PICK i \in Waiting : m \in subs[i].msgs BY DEF Moved
      <3>2. i \in DOMAIN subs /\ subs[i].queued BY DEF Waiting, LiveSubs
      <3> QED BY <1>1, <3>1, <3>2 DEF SubsInv, InjectionsOnly
    <2> QED BY <1>1, <2>1 DEF SubsInv, InjectionsOnly
  <1> QED BY <1>2, <1>3, <1>4 DEF SubsInv

LEMMA RpcFields ==
  ASSUME TypeOK, NEW c \in Callers
  PROVE  /\ rpc[c] \in Rpc /\ rpc[c].hand \subseteq Queued /\ rpc[c].seen \subseteq Nat
         /\ rpc[c].sub \in Nat
  <1>1. rpc[c] \in Rpc BY DEF TypeOK
  <1> QED BY <1>1 DEF Rpc

LEMMA MovedCalls ==
  ASSUME TypeOK, TypeOK', QueueInv, Moved, InjectionsOnly, CallsOrDrops
  PROVE  RpcInv'
  <1>1. SubsInv /\ RpcInv BY DEF QueueInv
  <1>2. /\ Waiting' \subseteq Waiting
        /\ \A i \in Waiting : i \in DOMAIN subs /\ subs[i].queued /\ subs[i].status \in Live
        /\ \A i \in DOMAIN subs : Applied(i) => subs'[i].msgs \cap history' # {}
    BY MovedWaiting DEF Applied
  <1>3. \A c \in Callers : rpc'[c] = rpc[c] \/ rpc'[c] = NoRpc BY DEF CallsOrDrops
  <1> SUFFICES ASSUME NEW c \in Callers
               PROVE  LET r == rpc'[c] IN
                 /\ r.hand \subseteq accepted' \ (history' \cup withdrawn')
                 /\ r.pc = "idle" => r.hand = {}
                 /\ r.pc \in {"list", "pick", "merge"} =>
                      /\ r.msg \in Queued /\ r.hand = {r.msg}
                      /\ \A i \in DOMAIN subs' : r.msg \notin subs'[i].msgs
                 /\ r.pc = "pick" =>
                      /\ Waiting' \subseteq r.seen /\ r.seen \subseteq DOMAIN subs'
                      /\ \A i \in r.seen : subs'[i].queued /\ (subs'[i].status \in Live \/ subs'[i].msgs \cap history' # {})
                 /\ r.pc = "merge" =>
                      /\ Waiting' \subseteq {r.sub}
                      /\ r.sub # 0 => /\ r.sub \in DOMAIN subs' /\ subs'[r.sub].queued
                                      /\ subs'[r.sub].status \in Live \/ subs'[r.sub].msgs \cap history' # {}
                 /\ r.pc = "submit" => Waiting' = {} /\ r.hand # {}
                 /\ r.pc \in {"inspect", "check"} =>
                      /\ r.sub \in DOMAIN subs' /\ subs'[r.sub].queued
                      /\ r.msg \in subs'[r.sub].msgs /\ r.hand = {}
                 /\ r.pc = "check" => subs'[r.sub].status \in Live \/ subs'[r.sub].msgs \cap history' # {}
    BY DEF RpcInv, CallInv, Applied
  <1>4. CASE rpc'[c] = NoRpc BY <1>4 DEF NoRpc
  <1>5. CASE rpc'[c] = rpc[c] /\ rpc[c].pc = "idle"
    <2>1. rpc[c].hand = {} BY <1>1, <1>5 DEF RpcInv, CallInv
    <2> QED BY <1>5, <2>1
  <1>6. CASE rpc'[c] = rpc[c] /\ rpc[c].pc # "idle"
    <2> DEFINE r == rpc[c]
    <2>0. rpc'[c] = r /\ r \in Rpc /\ r.hand \subseteq Queued BY <1>6, RpcFields
    <2>1. r.hand \subseteq accepted \ (history \cup withdrawn) BY <1>1 DEF RpcInv, CallInv
    <2>2. r.pc \in {"list", "pick", "merge"} =>
            r.msg \in Queued /\ r.hand = {r.msg} /\ \A i \in DOMAIN subs : r.msg \notin subs[i].msgs
      BY <1>1 DEF RpcInv, CallInv
    <2>3. r.pc = "submit" => Waiting = {} /\ r.hand # {} BY <1>1 DEF RpcInv, CallInv
    <2>4. r.pc \in {"inspect", "check"} =>
            /\ r.sub \in DOMAIN subs /\ subs[r.sub].queued
            /\ r.msg \in subs[r.sub].msgs /\ r.hand = {}
      BY <1>1 DEF RpcInv, CallInv
    <2>5. r.pc = "check" => subs[r.sub].status \in Live \/ Applied(r.sub) BY <1>1 DEF RpcInv, CallInv
    <2>6. r.pc = "pick" =>
            /\ Waiting \subseteq r.seen /\ r.seen \subseteq DOMAIN subs
            /\ \A i \in r.seen : subs[i].queued /\ (subs[i].status \in Live \/ Applied(i))
      BY <1>1 DEF RpcInv, CallInv
    <2>7. r.pc = "merge" =>
            /\ Waiting \subseteq {r.sub}
            /\ r.sub # 0 => /\ r.sub \in DOMAIN subs /\ subs[r.sub].queued
                            /\ subs[r.sub].status \in Live \/ Applied(r.sub)
      BY <1>1 DEF RpcInv, CallInv
    <2> HIDE DEF r
    <2>8. \A i \in DOMAIN subs :
            /\ i \in DOMAIN subs'
            /\ subs'[i].msgs = subs[i].msgs /\ subs'[i].queued = subs[i].queued
      BY DEF Moved
    <2>9. ASSUME NEW i \in DOMAIN subs, subs[i].queued, subs[i].status \in Live \/ Applied(i)
          PROVE  subs'[i].status \in Live \/ subs'[i].msgs \cap history' # {}
      <3>1. CASE Applied(i) BY <1>2, <3>1
      <3>2. CASE subs[i].status \in Live
        <4>1. subs'[i].status \in Live \/ subs[i].msgs \subseteq history' BY <3>2 DEF Moved
        <4>2. subs[i].msgs # {} BY <1>1, <2>9 DEF SubsInv
        <4> QED BY <2>8, <4>1, <4>2 DEF Applied
      <3> QED BY <2>9, <3>1, <3>2
    <2>10. r.hand \cap history' = {}
      <3> SUFFICES ASSUME NEW m \in r.hand, m \in history' PROVE FALSE OBVIOUS
      <3>1. m \in Queued /\ m \notin history BY <2>0, <2>1
      <3>2. PICK i \in Waiting : m \in subs[i].msgs BY <3>1 DEF Moved
      <3>3. i \in DOMAIN subs BY <1>2
      <3>4. r.pc \in {"list", "pick", "merge", "submit", "inspect", "check"}
        BY <1>6, <2>0 DEF Rpc, r
      <3> QED BY <2>2, <2>3, <2>4, <3>2, <3>3, <3>4
    <2>11. r.hand \subseteq accepted' \ (history' \cup withdrawn')
      <3>1. Queued \cap Injected = {} BY KindsAssumption
      <3> QED BY <2>0, <2>1, <2>10, <3>1 DEF InjectionsOnly
    <2>12. r.pc \in {"list", "pick", "merge"} => \A i \in DOMAIN subs' : r.msg \notin subs'[i].msgs
      <3>1. Queued \cap Injected = {} BY KindsAssumption
      <3> QED BY <2>2, <2>8, <3>1 DEF Moved
    <2>13. r.pc = "pick" =>
             /\ Waiting' \subseteq r.seen /\ r.seen \subseteq DOMAIN subs'
             /\ \A i \in r.seen : subs'[i].queued /\ (subs'[i].status \in Live \/ subs'[i].msgs \cap history' # {})
      BY <1>2, <2>6, <2>8, <2>9
    <2>14. r.pc = "merge" =>
             /\ Waiting' \subseteq {r.sub}
             /\ r.sub # 0 => /\ r.sub \in DOMAIN subs' /\ subs'[r.sub].queued
                             /\ subs'[r.sub].status \in Live \/ subs'[r.sub].msgs \cap history' # {}
      BY <1>2, <2>7, <2>8, <2>9
    <2>15. r.pc \in {"inspect", "check"} =>
             /\ r.sub \in DOMAIN subs' /\ subs'[r.sub].queued
             /\ r.msg \in subs'[r.sub].msgs /\ r.hand = {}
      BY <2>4, <2>8
    <2>16. r.pc = "check" => subs'[r.sub].status \in Live \/ subs'[r.sub].msgs \cap history' # {}
      BY <2>4, <2>5, <2>9
    <2>17. r.pc # "idle" BY <1>6 DEF r
    <2> QED BY <1>2, <2>0, <2>2, <2>3, <2>11, <2>12, <2>13, <2>14, <2>15, <2>16, <2>17
  <1> QED BY <1>3, <1>4, <1>5, <1>6

LEMMA MovedQueue ==
  ASSUME TypeOK, TypeOK', QueueInv, Moved, InjectionsOnly, CallsOrDrops
  PROVE  QueueInv'
  <1>0. Chained /\ SubsInv /\ RpcInv /\ Kept /\ Out /\ OneWaiting BY DEF QueueInv
  <1>1. SubsInv' BY MovedSubs
  <1>2. RpcInv' BY MovedCalls
  <1>3. /\ Waiting' \subseteq Waiting
        /\ \A i \in Waiting \ Waiting' : subs[i].msgs \subseteq history'
        /\ \A i \in Waiting : i \in DOMAIN subs /\ subs[i].queued
    BY MovedWaiting
  <1>4. \A i \in DOMAIN subs : subs'[i].msgs = subs[i].msgs BY DEF Moved
  <1>5. Queued \cap Injected = {} BY KindsAssumption
  <1>6. OneWaiting' BY <1>0, <1>3 DEF OneWaiting
  <1>7. Chained'
    <2>1. \A c \in Callers : rpc'[c].pc # "idle" => rpc[c].pc # "idle"
      BY DEF CallsOrDrops, NoRpc
    <2> QED BY <1>0, <2>1 DEF Chained
  <1>8. Kept'
    <2> SUFFICES ASSUME NEW m \in Queued, m \in accepted'
                 PROVE  \/ m \in history' \cup withdrawn' \cup dropped'
                        \/ \E i \in Waiting' : m \in subs'[i].msgs
                        \/ \E c \in Callers : m \in rpc'[c].hand
      BY DEF Kept
    <2>1. m \in accepted BY <1>5 DEF InjectionsOnly
    <2>2. CASE m \in history \cup withdrawn \cup dropped
      BY <2>2 DEF Moved, InjectionsOnly, CallsOrDrops
    <2>3. CASE \E i \in Waiting : m \in subs[i].msgs BY <1>3, <1>4, <2>3
    <2>4. CASE \E c \in Callers : m \in rpc[c].hand BY <2>4 DEF CallsOrDrops
    <2> QED BY <1>0, <2>1, <2>2, <2>3, <2>4 DEF Kept
  <1>9. Out'
    <2> SUFFICES ASSUME NEW m \in Queued, m \in withdrawn'
                 PROVE  m \notin history' /\ \A i \in Waiting' : m \notin subs'[i].msgs
      BY DEF Out
    <2>1. m \in withdrawn BY <1>5 DEF InjectionsOnly
    <2>2. m \notin history /\ \A i \in Waiting : m \notin subs[i].msgs BY <1>0, <2>1 DEF Out
    <2>3. m \notin history' BY <2>2 DEF Moved
    <2> QED BY <1>3, <1>4, <2>2, <2>3
  <1> QED BY <1>1, <1>2, <1>6, <1>7, <1>8, <1>9 DEF QueueInv

\* What has landed stays landed.
LEMMA MovedLanded ==
  ASSUME TypeOK, TypeOK', Moved
  PROVE  \A m : Landed(m) => Landed(m)'
  <1> SUFFICES ASSUME NEW m, Landed(m) PROVE Landed(m)' OBVIOUS
  <1>1. CASE m \in history BY <1>1 DEF Moved, Landed
  <1>2. CASE \E i \in LiveSubs : m \in subs[i].msgs
    <2>1. PICK i \in LiveSubs : m \in subs[i].msgs BY <1>2
    <2>2. i \in DOMAIN subs /\ subs[i].status \in Live BY DEF LiveSubs
    <2>3. i \in DOMAIN subs' /\ subs'[i].msgs = subs[i].msgs BY <2>2 DEF Moved
    <2>4. subs'[i].status \in Live \/ subs[i].msgs \subseteq history' BY <2>2 DEF Moved
    <2> QED BY <2>1, <2>3, <2>4 DEF Landed, LiveSubs
  <1> QED BY <1>1, <1>2 DEF Landed

-------------------------------------------------------------------------------
(* Types *)

\* The batch a queue call cancels is not that of the turn.
LEMMA CutIsNotTurn ==
  ASSUME TypeOK, QueueInv, TurnInv, NEW c \in Callers,
         rpc[c].sub \in DOMAIN subs, subs[rpc[c].sub].queued, ~Applied(rpc[c].sub)
  PROVE  /\ rpc[c].sub # turn.sub
         /\ LET s == Cancelled(rpc[c].sub) IN
            /\ s \in Seq(Submission) /\ DOMAIN s = DOMAIN subs
            /\ \A j \in DOMAIN subs :
                 /\ s[j].msgs = subs[j].msgs /\ s[j].queued = subs[j].queued
                 /\ j # rpc[c].sub => s[j].status = subs[j].status
            /\ s[rpc[c].sub].status \notin Live
  <1>1. rpc[c].sub # turn.sub
    <2>1. subs[rpc[c].sub].msgs # {} BY DEF QueueInv, SubsInv
    <2>2. 0 \notin DOMAIN subs BY SubmissionFields
    <2> QED BY <2>1, <2>2 DEF TurnInv, Applied
  <1>2. "aborted" \in Live \cup {"completed", "aborted", "error"} /\ "aborted" \notin Live
    BY DEF Live
  <1>3. subs \in Seq(Submission) BY DEF TypeOK
  <1>4. CASE subs[rpc[c].sub].status \in Live
    <2>1. Cancelled(rpc[c].sub) = [subs EXCEPT ![rpc[c].sub].status = "aborted"]
      BY <1>4 DEF Cancelled
    <2>2. LET s == [subs EXCEPT ![rpc[c].sub].status = "aborted"] IN
         /\ s \in Seq(Submission) /\ DOMAIN s = DOMAIN subs
         /\ \A j \in DOMAIN subs :
              /\ s[j].msgs = subs[j].msgs /\ s[j].queued = subs[j].queued
              /\ s[j].status = IF j = rpc[c].sub THEN "aborted" ELSE subs[j].status
      BY <1>2, StatusType
    <2> QED BY <1>1, <1>2, <2>1, <2>2
  <1>5. CASE subs[rpc[c].sub].status \notin Live BY <1>1, <1>3, <1>5 DEF Cancelled
  <1> QED BY <1>4, <1>5

LEMMA NoRpcType == NoRpc \in Rpc
  BY DEF NoRpc, Rpc

LEMMA CallType ==
  ASSUME IInv, NEW c \in Callers,
         Send(c) \/ CancelQueued(c) \/ Continues(c) \/ RpcThrows(c)
  PROVE  TypeOK'
  <1>0. TypeOK /\ QueueInv /\ RpcInv /\ SubsInv /\ TurnInv BY DEF IInv, QueueInv
  <1>1. /\ rpc \in [Callers -> Rpc] /\ rpc[c] \in Rpc /\ rpc[c].hand \subseteq Queued
        /\ rpc[c].sub \in Nat /\ subs \in Seq(Submission)
    BY <1>0, RpcFields DEF TypeOK
  <1>2. \A d \in Callers : rpc[d].pc \in {"inspect", "check"} => rpc[d].sub \in DOMAIN subs
    BY <1>0 DEF TypeOK
  <1>3. CASE Send(c)
    <2>1. PICK m \in Queued \ accepted :
            /\ rpc' = [rpc EXCEPT ![c] = [NoRpc EXCEPT !.pc = "list", !.msg = m, !.hand = {m}]]
            /\ accepted' = accepted \cup {m}
      BY <1>3 DEF Send
    <2>2. [NoRpc EXCEPT !.pc = "list", !.msg = m, !.hand = {m}] \in Rpc BY DEF NoRpc, Rpc
    <2>3. rpc' \in [Callers -> Rpc] /\ rpc'[c].pc = "list" BY <1>1, <2>1, <2>2 DEF NoRpc
    <2>4. m \in Messages BY DEF Messages
    <2> QED BY <1>0, <1>3, <2>1, <2>3, <2>4 DEF TypeOK, Send
  <1>4. CASE ListSubs(c)
    <2>1. {i \in LiveSubs : subs[i].queued} \subseteq Nat BY <1>0, SubmissionFields DEF LiveSubs
    <2>2. [rpc[c] EXCEPT !.pc = "pick", !.seen = {i \in LiveSubs : subs[i].queued}] \in Rpc
      BY <1>1, <2>1 DEF Rpc
    <2>3. rpc' = [rpc EXCEPT ![c] =
                    [rpc[c] EXCEPT !.pc = "pick", !.seen = {i \in LiveSubs : subs[i].queued}]]
      BY <1>1, <1>4 DEF ListSubs
    <2>4. rpc' \in [Callers -> Rpc] /\ rpc'[c].pc = "pick" BY <1>1, <2>2, <2>3 DEF Rpc
    <2> QED BY <1>0, <1>4, <2>3, <2>4 DEF TypeOK, ListSubs
  <1>5. CASE Pick(c)
    <2> DEFINE free == {i \in rpc[c].seen : ~Applied(i)}
               n == IF free = {} THEN 0 ELSE CHOOSE i \in free : \A j \in free : j <= i
               r == [rpc[c] EXCEPT !.pc = "merge", !.seen = {}, !.sub = n]
    <2>0. rpc' = [rpc EXCEPT ![c].pc = "merge", ![c].seen = {}, ![c].sub = n] BY <1>5 DEF Pick
    <2>2. n \in Nat
      <3>1. CASE free = {} BY <3>1
      <3>2. CASE free # {}
        <4>1. rpc[c].seen \subseteq DOMAIN subs BY <1>0, <1>5 DEF RpcInv, CallInv, Pick
        <4>2. \A i \in free : i \in Waiting
          BY <1>0, <1>5, <4>1 DEF RpcInv, CallInv, Pick, Waiting, LiveSubs
        <4>3. \A i \in free : i \in Nat BY <1>0, <4>1, SubmissionFields
        <4>4. \A i, j \in free : i = j BY <1>0, <4>2 DEF QueueInv, OneWaiting
        <4>5. \E i \in free : \A j \in free : j <= i BY <3>2, <4>3, <4>4
        <4> QED BY <3>2, <4>3, <4>5
      <3> QED BY <3>1, <3>2
    <2> HIDE DEF n
    <2>1. rpc' = [rpc EXCEPT ![c] = r] BY <1>1, <2>0
    <2>3. r \in Rpc /\ r.pc = "merge" BY <1>1, <2>2 DEF Rpc
    <2> HIDE DEF r
    <2>4. rpc' \in [Callers -> Rpc] /\ rpc'[c].pc = "merge" BY <1>1, <2>1, <2>3
    <2> QED BY <1>0, <1>5, <2>1, <2>4 DEF TypeOK, Pick
  <1>6. CASE Merge(c)
    <2>1. CASE rpc[c].sub # 0 /\ ~Applied(rpc[c].sub)
      <3>1. rpc[c].sub \in DOMAIN subs /\ subs[rpc[c].sub].queued
        BY <1>0, <1>6, <2>1 DEF RpcInv, CallInv, Merge
      <3>2. /\ rpc[c].sub # turn.sub /\ subs' = Cancelled(rpc[c].sub)
            /\ subs' \in Seq(Submission) /\ DOMAIN subs' = DOMAIN subs
            /\ \A j \in DOMAIN subs : j # rpc[c].sub => subs'[j].status = subs[j].status
        BY <1>0, <1>6, <2>1, <3>1, CutIsNotTurn DEF Merge
      <3>3. subs[rpc[c].sub].msgs \subseteq Queued BY <1>0, <3>1 DEF SubsInv
      <3>4. [rpc[c] EXCEPT !.pc = "submit", !.hand = @ \cup subs[rpc[c].sub].msgs] \in Rpc
        BY <1>1, <3>3 DEF Rpc
      <3>5. rpc' = [rpc EXCEPT ![c] =
                      [rpc[c] EXCEPT !.pc = "submit", !.hand = @ \cup subs[rpc[c].sub].msgs]]
        BY <1>1, <1>6, <2>1 DEF Merge
      <3>6. rpc' \in [Callers -> Rpc] /\ rpc'[c].pc = "submit" BY <1>1, <3>4, <3>5 DEF Rpc
      <3> QED BY <1>0, <1>6, <3>2, <3>5, <3>6 DEF TypeOK, Merge
    <2>2. CASE ~(rpc[c].sub # 0 /\ ~Applied(rpc[c].sub))
      <3>1. rpc' = [rpc EXCEPT ![c] = [rpc[c] EXCEPT !.pc = "submit"]] /\ subs' = subs
        BY <1>1, <1>6, <2>2 DEF Merge
      <3>2. [rpc[c] EXCEPT !.pc = "submit"] \in Rpc BY <1>1 DEF Rpc
      <3>3. rpc' \in [Callers -> Rpc] /\ rpc'[c].pc = "submit" BY <1>1, <3>1, <3>2 DEF Rpc
      <3> QED BY <1>0, <1>6, <3>1, <3>3 DEF TypeOK, Merge
    <2> QED BY <2>1, <2>2
  <1>7. CASE SubmitBatch(c)
    <2>1. rpc[c].hand \subseteq Messages BY <1>1 DEF Messages
    <2>2. /\ subs' \in Seq(Submission) /\ DOMAIN subs \subseteq DOMAIN subs'
          /\ \A i \in DOMAIN subs : subs'[i] = subs[i]
      BY <1>0, <1>7, <2>1, SubmittedType DEF SubmitBatch
    <2>3. rpc' \in [Callers -> Rpc] /\ rpc'[c].pc = "idle" /\ rpc' = [rpc EXCEPT ![c] = NoRpc]
      BY <1>1, <1>7, NoRpcType DEF SubmitBatch, NoRpc
    <2> QED BY <1>0, <1>7, <2>2, <2>3 DEF TypeOK, SubmitBatch
  <1>8. CASE CancelQueued(c)
    <2>1. PICK i \in DOMAIN subs : \E m \in subs[i].msgs \cap Queued :
            rpc' = [rpc EXCEPT ![c] = [NoRpc EXCEPT !.pc = "inspect", !.msg = m, !.sub = i]]
      BY <1>8 DEF CancelQueued
    <2>2. PICK m \in Queued :
            rpc' = [rpc EXCEPT ![c] = [NoRpc EXCEPT !.pc = "inspect", !.msg = m, !.sub = i]]
      BY <2>1
    <2>3. i \in Nat BY <1>0, SubmissionFields
    <2>4. [NoRpc EXCEPT !.pc = "inspect", !.msg = m, !.sub = i] \in Rpc BY <2>3 DEF NoRpc, Rpc
    <2>5. rpc' \in [Callers -> Rpc] /\ rpc'[c].sub = i BY <1>1, <2>2, <2>4 DEF NoRpc
    <2> QED BY <1>0, <1>8, <2>2, <2>5 DEF TypeOK, CancelQueued
  <1>9. CASE Inspect(c)
    <2>1. rpc[c].sub \in DOMAIN subs BY <1>2, <1>9 DEF Inspect
    <2>2. PICK r \in Rpc : rpc' = [rpc EXCEPT ![c] = r] /\ (r.sub = rpc[c].sub \/ r.pc = "idle")
      <3>1. [rpc[c] EXCEPT !.pc = "check"] \in Rpc BY <1>1 DEF Rpc
      <3>2. [rpc[c] EXCEPT !.pc = "check"].sub = rpc[c].sub BY <1>1 DEF Rpc
      <3> QED BY <1>1, <1>9, <3>1, <3>2, NoRpcType DEF Inspect, NoRpc
    <2>3. rpc' \in [Callers -> Rpc] /\ rpc'[c] = r BY <1>1, <2>2
    <2> QED BY <1>0, <1>9, <2>1, <2>2, <2>3 DEF TypeOK, Inspect
  <1>10. CASE Check(c)
    <2>1. /\ rpc[c].sub \in DOMAIN subs /\ subs[rpc[c].sub].queued
          /\ rpc[c].msg \in subs[rpc[c].sub].msgs
      BY <1>0, <1>10 DEF RpcInv, CallInv, Check
    <2>2. /\ rpc[c].sub # turn.sub
          /\ subs' \in Seq(Submission) /\ DOMAIN subs' = DOMAIN subs
          /\ \A j \in DOMAIN subs : j # rpc[c].sub => subs'[j].status = subs[j].status
      BY <1>0, <1>10, <2>1, CutIsNotTurn DEF Check
    <2>3. subs[rpc[c].sub].msgs \subseteq Queued \cap accepted BY <1>0, <2>1 DEF SubsInv
    <2> DEFINE rest == subs[rpc[c].sub].msgs \ {rpc[c].msg}
               r == IF rest = {} THEN NoRpc ELSE [rpc[c] EXCEPT !.pc = "submit", !.hand = rest]
    <2>4. r \in Rpc /\ r.pc \in {"idle", "submit"}
      <3>1. [rpc[c] EXCEPT !.pc = "submit", !.hand = rest] \in Rpc BY <1>1, <2>3 DEF Rpc
      <3>2. [rpc[c] EXCEPT !.pc = "submit", !.hand = rest].pc = "submit" BY <1>1 DEF Rpc
      <3> QED BY <3>1, <3>2, NoRpcType DEF NoRpc
    <2>5. rpc' = [rpc EXCEPT ![c] = r] BY <1>1, <1>10 DEF Check
    <2> HIDE DEF r
    <2>6. rpc' \in [Callers -> Rpc] /\ rpc'[c].pc \in {"idle", "submit"} BY <1>1, <2>4, <2>5
    <2>7. withdrawn' \subseteq accepted' BY <1>0, <1>10, <2>1, <2>3 DEF TypeOK, Check
    <2> QED BY <1>0, <1>10, <2>2, <2>5, <2>6, <2>7 DEF TypeOK, Check
  <1>11. CASE Refused(c) \/ RpcThrows(c)
    <2>1. rpc' = [rpc EXCEPT ![c] = NoRpc] BY <1>11 DEF Refused, RpcThrows
    <2>2. rpc' \in [Callers -> Rpc] /\ rpc'[c].pc = "idle" BY <1>1, <2>1, NoRpcType DEF NoRpc
    <2>3. dropped' \subseteq Queued /\ faults' \in Nat
      BY <1>0, <1>1, <1>11 DEF TypeOK, Refused, RpcThrows, Fault
    <2> QED BY <1>0, <1>11, <2>1, <2>2, <2>3 DEF TypeOK, Refused, RpcThrows
  <1> QED
    BY <1>3, <1>4, <1>5, <1>6, <1>7, <1>8, <1>9, <1>10, <1>11 DEF Continues

LEMMA InjectionType ==
  ASSUME IInv,
         \/ \E m \in Injected : Deliver(m)
         \/ \E k \in Kickers : KickSubmit(k) \/ KickDelete(k) \/ KickThrows(k)
         \/ \E m \in Steers : CancelSteer(m)
  PROVE  TypeOK'
  <1>0. TypeOK /\ BufferInv BY DEF IInv
  <1>1. kicks \in [Kickers -> Kick] /\ NoKick \in Kick /\ buffer \subseteq Injected
    BY <1>0 DEF TypeOK, NoKick, Kick
  <1>2. ASSUME NEW m \in Injected, Deliver(m) PROVE TypeOK'
    <2>1. m \in Kickers /\ m \in Messages BY DEF Kickers, Messages
    <2>2. buffer' \subseteq Injected BY <1>1, <1>2 DEF Deliver
    <2>3. [pc |-> "submit", msgs |-> buffer'] \in Kick BY <2>2 DEF Kick
    <2>4. kicks' \in [Kickers -> Kick] BY <1>1, <1>2, <2>1, <2>3 DEF Deliver
    <2> QED BY <1>0, <1>2, <2>1, <2>2, <2>4 DEF TypeOK, Deliver
  <1>3. ASSUME NEW k \in Kickers, KickSubmit(k) PROVE TypeOK'
    <2>1. kicks[k] \in Kick /\ kicks[k].msgs \subseteq Messages BY <1>1 DEF Kick, Messages
    <2>2. /\ subs' \in Seq(Submission) /\ DOMAIN subs \subseteq DOMAIN subs'
          /\ \A i \in DOMAIN subs : subs'[i] = subs[i]
      BY <1>0, <1>3, <2>1, SubmittedType DEF KickSubmit
    <2>3. [kicks[k] EXCEPT !.pc = "delete"] \in Kick BY <2>1 DEF Kick
    <2>4. kicks' \in [Kickers -> Kick] BY <1>1, <1>3, <2>3 DEF KickSubmit
    <2> QED BY <1>0, <1>3, <2>2, <2>4 DEF TypeOK, KickSubmit
  <1>4. ASSUME NEW k \in Kickers, KickDelete(k) \/ KickThrows(k) PROVE TypeOK'
    <2>1. kicks' \in [Kickers -> Kick] BY <1>1, <1>4 DEF KickDelete, KickThrows
    <2>2. buffer' \subseteq Injected /\ faults' \in Nat
      BY <1>0, <1>4 DEF TypeOK, KickDelete, KickThrows, Fault
    <2> QED BY <1>0, <1>4, <2>1, <2>2 DEF TypeOK, KickDelete, KickThrows
  <1>5. ASSUME NEW m \in Steers, CancelSteer(m) PROVE TypeOK'
    <2>1. m \in accepted BY <1>0, <1>5 DEF BufferInv, CancelSteer
    <2> QED BY <1>0, <1>5, <2>1 DEF TypeOK, CancelSteer
  <1> QED BY <1>2, <1>3, <1>4, <1>5

\* The object restarts: what was live waits again or is given up.
Restarted ==
  \E lost \in SUBSET {i \in LiveSubs : i = turn.sub} :
    subs' = [i \in DOMAIN subs |->
               IF i \in lost THEN [subs[i] EXCEPT !.status = "error"]
               ELSE IF i \in LiveSubs THEN [subs[i] EXCEPT !.status = "pending"]
               ELSE subs[i]]

LEMMA RestartedType ==
  ASSUME TypeOK, Restarted
  PROVE  /\ subs' \in Seq(Submission) /\ DOMAIN subs' = DOMAIN subs
         /\ \A i \in DOMAIN subs :
              /\ subs'[i].msgs = subs[i].msgs /\ subs'[i].queued = subs[i].queued
              /\ subs'[i].status \in Live => subs[i].status \in Live
              /\ subs[i].status \in Live => subs'[i].status \in Live \/ i = turn.sub
  <1>1. subs \in Seq(Submission) /\ \A i \in DOMAIN subs : subs[i] \in Submission
    BY DEF TypeOK
  <1>2. PICK lost \in SUBSET {i \in LiveSubs : i = turn.sub} :
          subs' = [i \in DOMAIN subs |->
                     IF i \in lost THEN [subs[i] EXCEPT !.status = "error"]
                     ELSE IF i \in LiveSubs THEN [subs[i] EXCEPT !.status = "pending"]
                     ELSE subs[i]]
    BY DEF Restarted
  <1>3. ASSUME NEW i \in DOMAIN subs
        PROVE  /\ subs'[i] \in Submission
               /\ subs'[i].msgs = subs[i].msgs /\ subs'[i].queued = subs[i].queued
               /\ subs'[i].status \in Live => subs[i].status \in Live
               /\ subs[i].status \in Live => subs'[i].status \in Live \/ i = turn.sub
    BY <1>1, <1>2 DEF Submission, LiveSubs, Live
  <1>4. DOMAIN subs' = DOMAIN subs BY <1>2
  <1>5. DOMAIN subs = 1..Len(subs) /\ Len(subs) \in Nat BY <1>1
  <1>6. subs' = [i \in 1..Len(subs) |-> subs'[i]] BY <1>2, <1>5
  <1>7. subs' \in Seq(Submission) BY <1>3, <1>5, <1>6
  <1> QED BY <1>3, <1>4, <1>7

LEMMA TurnType ==
  ASSUME IInv,
         \/ ChatTurn \/ StepPeek \/ StepPersist \/ StepDelete \/ TurnEnds \/ TurnDies
         \/ \E i \in DOMAIN subs : ClaimSub(i) \/ StartTurn(i)
         \/ Flush \/ Crash
  PROVE  TypeOK'
  <1>0. TypeOK BY DEF IInv
  <1>1. /\ turn \in Turn /\ NoTurn \in Turn /\ subs \in Seq(Submission)
        /\ buffer \subseteq Injected /\ turn.peeked \subseteq Injected
        /\ kicks \in [Kickers -> Kick] /\ NoKick \in Kick /\ hooks \in Nat /\ faults \in Nat
    BY <1>0 DEF TypeOK, Turn, NoTurn, NoKick, Kick
  <1>2. CASE ChatTurn
    <2>1. turn' \in Turn /\ turn'.sub = 0 BY <1>1, <1>2 DEF ChatTurn, NoTurn, Turn
    <2>2. chats' \in Nat BY <1>0, <1>2 DEF TypeOK, ChatTurn
    <2> QED BY <1>0, <1>2, <2>1, <2>2 DEF TypeOK, ChatTurn
  <1>3. CASE StepPeek \/ StepPersist \/ StepDelete
    <2>1. turn' \in Turn /\ turn'.sub = turn.sub
      BY <1>1, <1>3 DEF StepPeek, StepPersist, StepDelete, Turn
    <2>2. history' \subseteq Messages /\ buffer' \subseteq Injected
      BY <1>0, <1>1, <1>3 DEF TypeOK, StepPeek, StepPersist, StepDelete, Messages
    <2> QED BY <1>0, <1>3, <2>1, <2>2 DEF TypeOK, StepPeek, StepPersist, StepDelete
  <1>4. CASE TurnEnds \/ TurnDies
    <2>1. PICK st \in {"completed", "error"} : subs' = Ended(st)
      BY <1>4 DEF TurnEnds, TurnDies
    <2>2. subs' \in Seq(Submission) /\ DOMAIN subs' = DOMAIN subs
      <3>1. CASE turn.sub = 0 \/ subs[turn.sub].status # "running" BY <1>1, <2>1, <3>1 DEF Ended
      <3>2. CASE ~(turn.sub = 0 \/ subs[turn.sub].status # "running")
        <4>1. turn.sub \in DOMAIN subs BY <1>0, <3>2 DEF TypeOK
        <4>2. st \in Live \cup {"completed", "aborted", "error"} OBVIOUS
        <4>3. subs' = [subs EXCEPT ![turn.sub].status = st] BY <2>1, <3>2 DEF Ended
        <4> QED BY <1>0, <4>1, <4>2, <4>3, StatusType
      <3> QED BY <3>1, <3>2
    <2>3. turn' = NoTurn /\ hooks' \in Nat /\ faults' \in Nat
      BY <1>1, <1>4 DEF TurnEnds, TurnDies, Fault
    <2>4. NoTurn.sub = 0 BY DEF NoTurn
    <2> QED BY <1>0, <1>1, <1>4, <2>2, <2>3, <2>4 DEF TypeOK, TurnEnds, TurnDies
  <1>5. ASSUME NEW i \in DOMAIN subs, ClaimSub(i) PROVE TypeOK'
    <2>1. "running" \in Live \cup {"completed", "aborted", "error"} BY DEF Live
    <2>2. /\ subs' \in Seq(Submission) /\ DOMAIN subs' = DOMAIN subs
          /\ \A j \in DOMAIN subs :
               subs'[j].status = IF j = i THEN "running" ELSE subs[j].status
      BY <1>0, <1>5, <2>1, StatusType DEF ClaimSub
    <2> QED BY <1>0, <1>5, <2>2 DEF TypeOK, ClaimSub
  <1>6. ASSUME NEW i \in DOMAIN subs, StartTurn(i) PROVE TypeOK'
    <2>1. i \in Nat /\ subs[i].msgs \subseteq Messages BY <1>0, SubmissionFields
    <2>2. turn' \in Turn /\ turn'.sub = i BY <1>6, <2>1 DEF StartTurn, NoTurn, Turn
    <2> QED BY <1>0, <1>6, <2>1, <2>2 DEF TypeOK, StartTurn
  <1>7. CASE Flush
    <2>1. "flush" \in Kickers /\ [pc |-> "submit", msgs |-> buffer] \in Kick
      BY <1>1 DEF Kickers, Kick
    <2>2. kicks' \in [Kickers -> Kick] BY <1>1, <1>7, <2>1 DEF Flush
    <2>3. hooks' \in Nat BY <1>1, <1>7 DEF Flush
    <2> QED BY <1>0, <1>7, <2>2, <2>3 DEF TypeOK, Flush
  <1>8. CASE Crash
    <2>1. subs' \in Seq(Submission) BY <1>0, <1>8, RestartedType DEF Crash, Restarted
    <2>2. turn' = NoTurn /\ NoTurn.sub = 0 /\ hooks' = 0 /\ faults' \in Nat
      BY <1>1, <1>8 DEF Crash, NoTurn, Fault
    <2>3. kicks' \in [Kickers -> Kick] BY <1>1, <1>8 DEF Crash
    <2>4. rpc' \in [Callers -> Rpc] /\ \A c \in Callers : rpc'[c].pc = "idle"
      BY <1>8, NoRpcType DEF Crash, NoRpc
    <2>5. dropped' \subseteq Queued BY <1>0, <1>8, RpcFields DEF TypeOK, Crash
    <2> QED BY <1>0, <1>1, <1>8, <2>1, <2>2, <2>3, <2>4, <2>5 DEF TypeOK, Crash
  <1> QED BY <1>2, <1>3, <1>4, <1>5, <1>6, <1>7, <1>8

LEMMA NextType == ASSUME IInv, [Next]_vars PROVE TypeOK'
  <1>1. CASE UNCHANGED vars BY <1>1 DEF IInv, TypeOK, vars
  <1> QED BY <1>1, CallType, InjectionType, TurnType DEF Next

-------------------------------------------------------------------------------
(* Queue calls *)

\* The call that moves is the only one.
LEMMA OneCall ==
  ASSUME TypeOK, QueueInv, NEW c \in Callers, NEW r \in Rpc,
         rpc' = [rpc EXCEPT ![c] = r], rpc[c].pc # "idle" \/ ChainFree(c)
  PROVE  /\ rpc'[c] = r /\ Chained'
         /\ \A d \in Callers : d # c => rpc'[d] = rpc[d] /\ rpc[d].pc = "idle" /\ rpc[d].hand = {}
  <1>1. rpc \in [Callers -> Rpc] BY DEF TypeOK
  <1>2. \A d \in Callers : d # c => rpc[d].pc = "idle" BY DEF QueueInv, Chained, ChainFree
  <1>3. \A d \in Callers : d # c => rpc[d].hand = {} BY <1>2 DEF QueueInv, RpcInv, CallInv
  <1>4. \A d \in Callers : d # c => rpc'[d] = rpc[d] BY <1>1
  <1>5. Chained' BY <1>2, <1>4 DEF Chained
  <1> QED BY <1>1, <1>2, <1>3, <1>4, <1>5

LEMMA OneCallInv ==
  ASSUME TypeOK, QueueInv, NEW c \in Callers, NEW r \in Rpc,
         rpc' = [rpc EXCEPT ![c] = r], rpc[c].pc # "idle" \/ ChainFree(c),
         CallInv(rpc[c])'
  PROVE  RpcInv'
  <1>1. \A d \in Callers : d # c => rpc'[d].pc = "idle" /\ rpc'[d].hand = {} BY OneCall
  <1>2. ASSUME NEW d \in Callers, d # c PROVE CallInv(rpc[d])' BY <1>1, <1>2 DEF CallInv
  <1> QED BY <1>2 DEF RpcInv

\* A call that only looks.
LEMMA LookQueue ==
  ASSUME TypeOK, QueueInv, NEW c \in Callers, NEW r \in Rpc,
         rpc' = [rpc EXCEPT ![c] = r], rpc[c].pc # "idle" \/ ChainFree(c),
         r.hand = rpc[c].hand, CallInv(rpc[c])',
         UNCHANGED <<subs, history, accepted, withdrawn, dropped>>
  PROVE  QueueInv'
  <1>1. RpcInv' BY OneCallInv
  <1>2. /\ Chained' /\ rpc'[c] = r
        /\ \A d \in Callers : d # c => rpc'[d] = rpc[d]
    BY OneCall
  <1>3. \A d \in Callers : rpc'[d].hand = rpc[d].hand BY <1>2
  <1>4. SubsInv' /\ OneWaiting' /\ Out'
    BY DEF QueueInv, SubsInv, OneWaiting, Out, Waiting, LiveSubs, Applied
  <1>5. Kept' BY <1>3 DEF QueueInv, Kept, Waiting, LiveSubs, Applied
  <1> QED BY <1>1, <1>2, <1>4, <1>5 DEF QueueInv

\* A waiting batch is cut: nothing waits any more.
LEMMA CutQueue ==
  ASSUME TypeOK, QueueInv, TurnInv, NEW c \in Callers,
         rpc[c].sub \in DOMAIN subs, subs[rpc[c].sub].queued, ~Applied(rpc[c].sub),
         subs[rpc[c].sub].status \in Live,
         subs' = Cancelled(rpc[c].sub), history' = history, accepted' = accepted
  PROVE  /\ Waiting = {rpc[c].sub} /\ Waiting' = {} /\ SubsInv'
         /\ \A m \in subs[rpc[c].sub].msgs :
              m \in Queued \cap accepted /\ m \notin history /\ m \notin withdrawn
         /\ \A m \in Injected : Landed(m) => Landed(m)'
  <1> DEFINE s == rpc[c].sub
  <1>1. SubsInv /\ OneWaiting /\ Out BY DEF QueueInv
  <1>2. s \in Waiting BY DEF Waiting, LiveSubs
  <1>3. Waiting = {s} BY <1>1, <1>2 DEF OneWaiting
  <1>4. /\ DOMAIN subs' = DOMAIN subs /\ subs'[s].status \notin Live
        /\ \A j \in DOMAIN subs :
             /\ subs'[j].msgs = subs[j].msgs /\ subs'[j].queued = subs[j].queued
             /\ j # s => subs'[j].status = subs[j].status
    BY CutIsNotTurn
  <1>5. \A j \in DOMAIN subs : Applied(j)' <=> Applied(j) BY <1>4 DEF Applied
  <1>6. Waiting' = {}
    <2> SUFFICES ASSUME NEW j \in Waiting' PROVE FALSE OBVIOUS
    <2>1. j \in DOMAIN subs' /\ subs'[j].status \in Live /\ subs'[j].queued /\ ~Applied(j)'
      BY DEF Waiting, LiveSubs
    <2>2. j \in DOMAIN subs /\ j # s BY <1>4, <2>1
    <2>3. j \in Waiting BY <1>4, <1>5, <2>1, <2>2 DEF Waiting, LiveSubs
    <2> QED BY <1>3, <2>2, <2>3
  <1>7. SubsInv'
    <2>1. ASSUME NEW j \in DOMAIN subs', subs'[j].queued
          PROVE  /\ subs'[j].msgs # {} /\ subs'[j].msgs \subseteq Queued \cap accepted'
                 /\ subs'[j].status \in Live /\ Applied(j)' => subs'[j].msgs \subseteq history'
      <3>1. j \in DOMAIN subs /\ subs[j].queued BY <1>4, <2>1
      <3>2. /\ subs[j].msgs # {} /\ subs[j].msgs \subseteq Queued \cap accepted
            /\ subs[j].status \in Live /\ Applied(j) => subs[j].msgs \subseteq history
        BY <1>1, <3>1 DEF SubsInv
      <3> QED BY <1>4, <1>5, <3>1, <3>2
    <2>2. ASSUME NEW j \in DOMAIN subs', ~subs'[j].queued
          PROVE  /\ subs'[j].msgs \subseteq Injected
                 /\ subs'[j].status \in Live \/ subs'[j].msgs \subseteq history'
      <3>1. j \in DOMAIN subs /\ ~subs[j].queued /\ j # s BY <1>4, <2>2
      <3> QED BY <1>1, <1>4, <3>1 DEF SubsInv
    <2> QED BY <1>1, <2>1, <2>2 DEF SubsInv
  <1>8. \A m \in subs[s].msgs : m \in Queued \cap accepted /\ m \notin history /\ m \notin withdrawn
    BY <1>1, <1>2 DEF SubsInv, Out, Applied
  <1>9. ASSUME NEW m \in Injected, Landed(m) PROVE Landed(m)'
    <2>1. Queued \cap Injected = {} BY KindsAssumption
    <2>2. CASE m \in history BY <2>2 DEF Landed
    <2>3. CASE \E i \in LiveSubs : m \in subs[i].msgs
      <3>1. PICK i \in LiveSubs : m \in subs[i].msgs BY <2>3
      <3>2. i # s /\ i \in DOMAIN subs BY <1>8, <2>1, <3>1 DEF LiveSubs
      <3> QED BY <1>4, <3>1, <3>2 DEF Landed, LiveSubs
    <2> QED BY <1>9, <2>2, <2>3 DEF Landed
  <1> QED BY <1>3, <1>6, <1>7, <1>8, <1>9

LEMMA SendQueue ==
  ASSUME IInv, TypeOK', NEW c \in Callers, Send(c)
  PROVE  QueueInv'
  <1>0. TypeOK /\ QueueInv /\ Chained /\ SubsInv /\ RpcInv /\ Kept /\ Out /\ OneWaiting
    BY DEF IInv, QueueInv
  <1>1. PICK m \in Queued \ accepted :
          /\ rpc' = [rpc EXCEPT ![c] = [NoRpc EXCEPT !.pc = "list", !.msg = m, !.hand = {m}]]
          /\ accepted' = accepted \cup {m}
    BY DEF Send
  <1> DEFINE r == [NoRpc EXCEPT !.pc = "list", !.msg = m, !.hand = {m}]
  <1>2. r \in Rpc /\ r.pc = "list" /\ r.msg = m /\ r.hand = {m} BY DEF NoRpc, Rpc
  <1>3. UNCHANGED <<subs, history, withdrawn, dropped>> /\ ChainFree(c) BY DEF Send
  <1>4. rpc' = [rpc EXCEPT ![c] = r] BY <1>1
  <1> HIDE DEF r
  <1>5. rpc'[c] = r /\ Chained' /\ \A d \in Callers : d # c => rpc'[d] = rpc[d]
    BY <1>0, <1>2, <1>3, <1>4, OneCall
  <1>6. rpc[c].hand = {} BY <1>0, <1>3 DEF RpcInv, CallInv, ChainFree
  <1>7. \A i \in DOMAIN subs : m \notin subs[i].msgs
    <2>1. Queued \cap Injected = {} BY KindsAssumption
    <2>2. \A i \in DOMAIN subs : subs[i].queued \in BOOLEAN BY <1>0, SubmissionFields
    <2> QED BY <1>0, <2>1, <2>2 DEF SubsInv
  <1>8. m \notin history /\ m \notin withdrawn BY <1>0 DEF SubsInv, TypeOK
  <1>9. Waiting' = Waiting BY <1>3 DEF Waiting, LiveSubs, Applied
  <1>10. CallInv(rpc[c])' BY <1>1, <1>2, <1>3, <1>5, <1>7, <1>8 DEF CallInv
  <1>11. RpcInv' BY <1>0, <1>2, <1>3, <1>4, <1>10, OneCallInv
  <1>12. SubsInv' BY <1>0, <1>1, <1>3 DEF SubsInv, Applied
  <1>13. Kept'
    <2> SUFFICES ASSUME NEW n \in Queued, n \in accepted'
                 PROVE  \/ n \in history' \cup withdrawn' \cup dropped'
                        \/ \E i \in Waiting' : n \in subs'[i].msgs
                        \/ \E d \in Callers : n \in rpc'[d].hand
      BY DEF Kept
    <2>1. CASE n = m BY <1>2, <1>5, <2>1
    <2>2. CASE n # m
      <3>1. n \in accepted BY <1>1, <2>2
      <3>2. \A d \in Callers : n \in rpc[d].hand => n \in rpc'[d].hand BY <1>5, <1>6
      <3> QED BY <1>0, <1>3, <1>9, <3>1, <3>2 DEF Kept
    <2> QED BY <2>1, <2>2
  <1>14. Out' /\ OneWaiting' BY <1>0, <1>3, <1>9 DEF Out, OneWaiting
  <1> QED BY <1>5, <1>11, <1>12, <1>13, <1>14 DEF QueueInv

LEMMA LookQueues ==
  ASSUME IInv, TypeOK', NEW c \in Callers,
         ListSubs(c) \/ Pick(c) \/ CancelQueued(c) \/ Inspect(c)
  PROVE  QueueInv'
  <1>0. TypeOK /\ QueueInv /\ SubsInv /\ RpcInv /\ OneWaiting BY DEF IInv, QueueInv
  <1>1. rpc[c] \in Rpc /\ CallInv(rpc[c]) /\ rpc \in [Callers -> Rpc] /\ rpc'[c] \in Rpc
    BY <1>0 DEF RpcInv, TypeOK
  <1>2. UNCHANGED <<subs, history, accepted, withdrawn, dropped>>
    BY DEF ListSubs, Pick, CancelQueued, Inspect
  <1>3. Waiting' = Waiting /\ \A i \in DOMAIN subs : Applied(i)' <=> Applied(i)
    BY <1>2 DEF Waiting, LiveSubs, Applied
  <1>4. ASSUME NEW r \in Rpc, rpc' = [rpc EXCEPT ![c] = r], r.hand = rpc[c].hand,
               rpc[c].pc # "idle" \/ ChainFree(c), CallInv(rpc[c])'
        PROVE  QueueInv'
    BY <1>0, <1>2, <1>4, LookQueue
  <1>5. CASE ListSubs(c)
    <2> DEFINE r == [rpc[c] EXCEPT !.pc = "pick", !.seen = {i \in LiveSubs : subs[i].queued}]
    <2>1. rpc' = [rpc EXCEPT ![c] = r] BY <1>1, <1>5 DEF ListSubs
    <2>2. rpc'[c] = r BY <1>1, <2>1
    <2>3. /\ r.pc = "pick" /\ r.msg = rpc[c].msg /\ r.hand = rpc[c].hand
          /\ r.seen = {i \in LiveSubs : subs[i].queued}
      BY <1>1 DEF Rpc
    <2> HIDE DEF r
    <2>4. r \in Rpc BY <1>1, <2>2
    <2>5. Waiting \subseteq r.seen /\ r.seen \subseteq DOMAIN subs
          /\ \A i \in r.seen : subs[i].queued /\ subs[i].status \in Live
      BY <2>3 DEF Waiting, LiveSubs
    <2>6. CallInv(rpc[c])' BY <1>1, <1>2, <1>3, <1>5, <2>2, <2>3, <2>5 DEF CallInv, ListSubs
    <2> QED BY <1>4, <1>5, <2>1, <2>3, <2>4, <2>6 DEF ListSubs
  <1>6. CASE Pick(c)
    <2> DEFINE free == {i \in rpc[c].seen : ~Applied(i)}
               n == IF free = {} THEN 0 ELSE CHOOSE i \in free : \A j \in free : j <= i
               r == [rpc[c] EXCEPT !.pc = "merge", !.seen = {}, !.sub = n]
    <2>1. rpc' = [rpc EXCEPT ![c].pc = "merge", ![c].seen = {}, ![c].sub = n] BY <1>6 DEF Pick
    <2>2. /\ Waiting \subseteq rpc[c].seen /\ rpc[c].seen \subseteq DOMAIN subs
          /\ \A i \in rpc[c].seen : subs[i].queued /\ (subs[i].status \in Live \/ Applied(i))
          /\ rpc[c].msg \in Queued /\ rpc[c].hand = {rpc[c].msg}
          /\ rpc[c].hand \subseteq accepted \ (history \cup withdrawn)
          /\ \A i \in DOMAIN subs : rpc[c].msg \notin subs[i].msgs
      BY <1>1, <1>6 DEF CallInv, Pick
    <2>3. free = Waiting BY <2>2 DEF Waiting, LiveSubs
    <2>4. \A i \in free : i \in Nat /\ i # 0 BY <1>0, <2>2, SubmissionFields
    <2>5. \A i, j \in free : i = j BY <1>0, <2>3 DEF OneWaiting
    <2>6. free # {} => n \in free
      <3>1. free # {} => \E i \in free : \A j \in free : j <= i BY <2>4, <2>5
      <3> QED BY <3>1
    <2>7. Waiting \subseteq {n} BY <2>3, <2>5, <2>6
    <2>8. n # 0 => n \in Waiting BY <2>3, <2>6
    <2> HIDE DEF n, free
    <2>9. rpc' = [rpc EXCEPT ![c] = r] BY <1>1, <2>1
    <2>10. rpc'[c] = r BY <1>1, <2>9
    <2>11. r.pc = "merge" /\ r.msg = rpc[c].msg /\ r.hand = rpc[c].hand /\ r.sub = n
      BY <1>1 DEF Rpc
    <2> HIDE DEF r
    <2>12. r \in Rpc BY <1>1, <2>10
    <2>13. n # 0 => n \in DOMAIN subs /\ subs[n].queued /\ subs[n].status \in Live
      BY <2>8 DEF Waiting, LiveSubs
    <2>14. CallInv(rpc[c])' BY <1>2, <1>3, <2>2, <2>7, <2>10, <2>11, <2>13 DEF CallInv
    <2> QED BY <1>4, <1>6, <2>9, <2>11, <2>12, <2>14 DEF Pick
  <1>7. CASE CancelQueued(c)
    <2>1. PICK i \in DOMAIN subs : /\ subs[i].queued
            /\ \E m \in subs[i].msgs \cap Queued :
                 rpc' = [rpc EXCEPT ![c] = [NoRpc EXCEPT !.pc = "inspect", !.msg = m, !.sub = i]]
      BY <1>7 DEF CancelQueued
    <2>2. PICK m \in subs[i].msgs :
                 rpc' = [rpc EXCEPT ![c] = [NoRpc EXCEPT !.pc = "inspect", !.msg = m, !.sub = i]]
      BY <2>1
    <2> DEFINE r == [NoRpc EXCEPT !.pc = "inspect", !.msg = m, !.sub = i]
    <2>3. rpc' = [rpc EXCEPT ![c] = r] BY <2>2
    <2>4. r.pc = "inspect" /\ r.msg = m /\ r.hand = {} /\ r.sub = i BY DEF NoRpc
    <2> HIDE DEF r
    <2>5. rpc'[c] = r BY <1>1, <2>3
    <2>6. r \in Rpc BY <1>1, <2>5
    <2>7. ChainFree(c) /\ rpc[c].hand = {} BY <1>1, <1>7 DEF CancelQueued, ChainFree, CallInv
    <2>8. CallInv(rpc[c])' BY <1>2, <2>1, <2>4, <2>5 DEF CallInv
    <2> QED BY <1>4, <2>3, <2>4, <2>6, <2>7, <2>8
  <1>8. CASE Inspect(c)
    <2>1. /\ rpc[c].sub \in DOMAIN subs /\ subs[rpc[c].sub].queued
          /\ rpc[c].msg \in subs[rpc[c].sub].msgs /\ rpc[c].hand = {}
      BY <1>1, <1>8 DEF CallInv, Inspect
    <2>2. CASE subs[rpc[c].sub].status \in Live
      <3> DEFINE r == [rpc[c] EXCEPT !.pc = "check"]
      <3>1. rpc' = [rpc EXCEPT ![c] = r] BY <1>1, <1>8, <2>2 DEF Inspect
      <3>2. r.pc = "check" /\ r.msg = rpc[c].msg /\ r.hand = {} /\ r.sub = rpc[c].sub
        BY <1>1, <2>1 DEF Rpc
      <3> HIDE DEF r
      <3>3. rpc'[c] = r BY <1>1, <3>1
      <3>4. CallInv(rpc[c])' BY <1>2, <2>1, <2>2, <3>2, <3>3 DEF CallInv
      <3> QED BY <1>1, <1>4, <1>8, <2>1, <3>1, <3>2, <3>3, <3>4 DEF Inspect
    <2>3. CASE subs[rpc[c].sub].status \notin Live
      <3>1. rpc' = [rpc EXCEPT ![c] = NoRpc] BY <1>8, <2>3 DEF Inspect
      <3>2. rpc'[c] = NoRpc BY <1>1, <3>1
      <3>3. CallInv(rpc[c])' BY <3>2 DEF CallInv, NoRpc
      <3>4. NoRpc.hand = {} BY DEF NoRpc
      <3> QED BY <1>1, <1>4, <1>8, <2>1, <3>1, <3>2, <3>3, <3>4 DEF Inspect
    <2> QED BY <2>2, <2>3
  <1> QED BY <1>5, <1>6, <1>7, <1>8

LEMMA MergeQueue ==
  ASSUME IInv, TypeOK', NEW c \in Callers, Merge(c)
  PROVE  QueueInv' /\ \A m \in Injected : Landed(m) => Landed(m)'
  <1>0. TypeOK /\ TurnInv /\ QueueInv /\ SubsInv /\ RpcInv /\ Kept /\ Out /\ OneWaiting
    BY DEF IInv, QueueInv
  <1>1. rpc[c] \in Rpc /\ CallInv(rpc[c]) /\ rpc \in [Callers -> Rpc] /\ rpc'[c] \in Rpc
    BY <1>0 DEF RpcInv, TypeOK
  <1>2. UNCHANGED <<history, accepted, withdrawn, dropped>> /\ rpc[c].pc = "merge"
    BY DEF Merge
  <1>3. /\ Waiting \subseteq {rpc[c].sub} /\ rpc[c].msg \in Queued /\ rpc[c].hand = {rpc[c].msg}
        /\ rpc[c].hand \subseteq accepted \ (history \cup withdrawn)
        /\ rpc[c].sub # 0 => /\ rpc[c].sub \in DOMAIN subs /\ subs[rpc[c].sub].queued
                             /\ subs[rpc[c].sub].status \in Live \/ Applied(rpc[c].sub)
    BY <1>1, <1>2 DEF CallInv
  <1>4. CASE rpc[c].sub # 0 /\ ~Applied(rpc[c].sub)
    <2> DEFINE s == rpc[c].sub
               r == [rpc[c] EXCEPT !.pc = "submit", !.hand = @ \cup subs[rpc[c].sub].msgs]
    <2>1. s \in DOMAIN subs /\ subs[s].queued /\ subs[s].status \in Live BY <1>3, <1>4
    <2>2. subs' = Cancelled(s) BY <1>4 DEF Merge
    <2>3. /\ Waiting = {s} /\ Waiting' = {} /\ SubsInv'
          /\ \A m \in subs[s].msgs : m \in Queued \cap accepted /\ m \notin history /\ m \notin withdrawn
          /\ \A m \in Injected : Landed(m) => Landed(m)'
      BY <1>0, <1>2, <1>4, <2>1, <2>2, CutQueue
    <2>4. rpc' = [rpc EXCEPT ![c] = r] BY <1>1, <1>4 DEF Merge
    <2>5. rpc'[c] = r BY <1>1, <2>4
    <2>6. r.pc = "submit" /\ r.hand = rpc[c].hand \cup subs[s].msgs BY <1>1 DEF Rpc
    <2> HIDE DEF r
    <2>7. CallInv(rpc[c])' BY <1>2, <1>3, <2>3, <2>5, <2>6 DEF CallInv
    <2>8. r \in Rpc BY <1>1, <2>5
    <2>9. RpcInv' BY <1>0, <1>2, <2>4, <2>7, <2>8, OneCallInv
    <2>10. Chained' /\ \A d \in Callers : d # c => rpc'[d] = rpc[d]
      BY <1>0, <1>2, <2>4, <2>8, OneCall
    <2>11. Kept'
      <3> SUFFICES ASSUME NEW m \in Queued, m \in accepted
                   PROVE  \/ m \in history \cup withdrawn \cup dropped
                          \/ \E d \in Callers : m \in rpc'[d].hand
        BY <1>2 DEF Kept
      <3>1. CASE m \in history \cup withdrawn \cup dropped BY <3>1
      <3>2. CASE \E i \in Waiting : m \in subs[i].msgs BY <2>3, <2>5, <2>6, <3>2
      <3>3. CASE \E d \in Callers : m \in rpc[d].hand BY <2>5, <2>6, <2>10, <3>3
      <3> QED BY <1>0, <3>1, <3>2, <3>3 DEF Kept
    <2>12. Out' BY <1>0, <1>2, <2>3 DEF Out
    <2>13. OneWaiting' BY <2>3 DEF OneWaiting
    <2> QED BY <2>3, <2>9, <2>10, <2>11, <2>12, <2>13 DEF QueueInv
  <1>5. CASE ~(rpc[c].sub # 0 /\ ~Applied(rpc[c].sub))
    <2> DEFINE r == [rpc[c] EXCEPT !.pc = "submit"]
    <2>1. rpc' = [rpc EXCEPT ![c] = r] /\ subs' = subs BY <1>1, <1>5 DEF Merge
    <2>2. rpc'[c] = r BY <1>1, <2>1
    <2>3. r.pc = "submit" /\ r.hand = rpc[c].hand BY <1>1 DEF Rpc
    <2> HIDE DEF r
    <2>4. Waiting = {}
      <3>1. 0 \notin DOMAIN subs BY <1>0, SubmissionFields
      <3> QED BY <1>3, <1>5, <3>1 DEF Waiting, LiveSubs
    <2>5. Waiting' = {} BY <1>2, <2>1, <2>4 DEF Waiting, LiveSubs, Applied
    <2>6. CallInv(rpc[c])' BY <1>2, <1>3, <2>2, <2>3, <2>5 DEF CallInv
    <2>7. r \in Rpc BY <1>1, <2>2
    <2>8. QueueInv' BY <1>0, <1>2, <2>1, <2>3, <2>6, <2>7, LookQueue
    <2>9. \A m : Landed(m)' <=> Landed(m) BY <1>2, <2>1 DEF Landed, LiveSubs
    <2> QED BY <2>8, <2>9
  <1> QED BY <1>4, <1>5

LEMMA SubmitQueue ==
  ASSUME IInv, TypeOK', NEW c \in Callers, SubmitBatch(c)
  PROVE  QueueInv' /\ \A m : Landed(m) => Landed(m)'
  <1>0. TypeOK /\ QueueInv /\ SubsInv /\ RpcInv /\ Kept /\ Out /\ OneWaiting
    BY DEF IInv, QueueInv
  <1>1. rpc[c] \in Rpc /\ CallInv(rpc[c]) /\ rpc[c].hand \subseteq Queued
    BY <1>0, RpcFields DEF RpcInv
  <1>2. UNCHANGED <<history, accepted, withdrawn, dropped>> /\ rpc[c].pc = "submit"
    BY DEF SubmitBatch
  <1>3. /\ Waiting = {} /\ rpc[c].hand # {}
        /\ rpc[c].hand \subseteq accepted \ (history \cup withdrawn)
    BY <1>1, <1>2 DEF CallInv
  <1> DEFINE new == Len(subs) + 1
  <1>4. /\ DOMAIN subs' = DOMAIN subs \cup {new} /\ new \notin DOMAIN subs
        /\ \A i \in DOMAIN subs : subs'[i] = subs[i]
        /\ subs'[new] = [msgs |-> rpc[c].hand, queued |-> TRUE, status |-> "pending"]
    <2>1. rpc[c].hand \subseteq Messages BY <1>1 DEF Messages
    <2> QED BY <1>0, <2>1, SubmittedType DEF SubmitBatch
  <1>5. rpc' = [rpc EXCEPT ![c] = NoRpc] BY DEF SubmitBatch
  <1>6. /\ rpc'[c] = NoRpc /\ Chained'
        /\ \A d \in Callers : d # c => rpc'[d] = rpc[d]
    BY <1>0, <1>2, <1>5, NoRpcType, OneCall
  <1>7. CallInv(rpc[c])' BY <1>6 DEF CallInv, NoRpc
  <1>8. RpcInv' BY <1>0, <1>2, <1>5, <1>7, NoRpcType, OneCallInv
  <1> HIDE DEF new
  <1>9. \A i \in DOMAIN subs : Applied(i)' <=> Applied(i) BY <1>2, <1>4 DEF Applied
  <1>10. subs'[new].msgs = rpc[c].hand /\ subs'[new].queued /\ subs'[new].status \in Live
    BY <1>4 DEF Live
  <1>11. subs'[new].msgs \cap history' = {} BY <1>2, <1>3, <1>10
  <1>12. Waiting' = {new}
    <2>1. new \in Waiting' BY <1>4, <1>10, <1>11 DEF Waiting, LiveSubs, Applied
    <2>2. ASSUME NEW i \in Waiting', i # new PROVE FALSE
      <3>1. i \in DOMAIN subs' /\ subs'[i].status \in Live /\ subs'[i].queued /\ ~Applied(i)'
        BY DEF Waiting, LiveSubs
      <3>2. i \in DOMAIN subs /\ ~Applied(i) BY <1>4, <1>9, <2>2, <3>1
      <3>3. i \in Waiting BY <1>4, <3>1, <3>2 DEF Waiting, LiveSubs
      <3> QED BY <1>3, <3>3
    <2> QED BY <2>1, <2>2
  <1>13. SubsInv'
    <2>1. ASSUME NEW j \in DOMAIN subs', subs'[j].queued
          PROVE  /\ subs'[j].msgs # {} /\ subs'[j].msgs \subseteq Queued \cap accepted'
                 /\ subs'[j].status \in Live /\ Applied(j)' => subs'[j].msgs \subseteq history'
      <3>1. CASE j = new BY <1>1, <1>2, <1>3, <1>10, <1>11, <3>1 DEF Applied
      <3>2. CASE j # new
        <4>1. j \in DOMAIN subs /\ subs[j].queued BY <1>4, <2>1, <3>2
        <4> QED BY <1>0, <1>2, <1>4, <1>9, <4>1 DEF SubsInv
      <3> QED BY <3>1, <3>2
    <2>2. ASSUME NEW j \in DOMAIN subs', ~subs'[j].queued
          PROVE  /\ subs'[j].msgs \subseteq Injected
                 /\ subs'[j].status \in Live \/ subs'[j].msgs \subseteq history'
      <3>1. j \in DOMAIN subs /\ ~subs[j].queued BY <1>4, <1>10, <2>2
      <3> QED BY <1>0, <1>2, <1>4, <3>1 DEF SubsInv
    <2> QED BY <1>0, <1>2, <2>1, <2>2 DEF SubsInv
  <1>14. Kept'
    <2> SUFFICES ASSUME NEW m \in Queued, m \in accepted
                 PROVE  \/ m \in history \cup withdrawn \cup dropped
                        \/ m \in subs'[new].msgs
                        \/ \E d \in Callers : m \in rpc'[d].hand
      BY <1>2, <1>12 DEF Kept
    <2>1. CASE \E d \in Callers : m \in rpc[d].hand BY <1>6, <1>10, <2>1
    <2> QED BY <1>0, <1>3, <2>1 DEF Kept
  <1>15. Out' BY <1>0, <1>2, <1>3, <1>10, <1>12 DEF Out
  <1>16. OneWaiting' BY <1>12 DEF OneWaiting
  <1>17. ASSUME NEW m, Landed(m) PROVE Landed(m)'
    BY <1>2, <1>4, <1>17 DEF Landed, LiveSubs
  <1> QED BY <1>6, <1>8, <1>13, <1>14, <1>15, <1>16, <1>17 DEF QueueInv

LEMMA CheckQueue ==
  ASSUME IInv, TypeOK', NEW c \in Callers, Check(c)
  PROVE  QueueInv' /\ \A m \in Injected : Landed(m) => Landed(m)'
  <1>0. TypeOK /\ TurnInv /\ QueueInv /\ SubsInv /\ RpcInv /\ Kept /\ Out /\ OneWaiting
    BY DEF IInv, QueueInv
  <1>1. rpc[c] \in Rpc /\ CallInv(rpc[c]) /\ rpc \in [Callers -> Rpc] /\ rpc'[c] \in Rpc
    BY <1>0 DEF RpcInv, TypeOK
  <1>2. UNCHANGED <<history, accepted, dropped>> /\ rpc[c].pc = "check"
    BY DEF Check
  <1> DEFINE s == rpc[c].sub
             rest == subs[rpc[c].sub].msgs \ {rpc[c].msg}
             r == IF rest = {} THEN NoRpc ELSE [rpc[c] EXCEPT !.pc = "submit", !.hand = rest]
  <1>3. /\ s \in DOMAIN subs /\ subs[s].queued /\ ~Applied(s) /\ subs[s].status \in Live
        /\ rpc[c].msg \in subs[s].msgs /\ rpc[c].hand = {}
    BY <1>1, <1>2 DEF CallInv, Check
  <1>4. subs' = Cancelled(s) /\ withdrawn' = withdrawn \cup {rpc[c].msg} BY DEF Check
  <1>5. /\ Waiting = {s} /\ Waiting' = {} /\ SubsInv'
        /\ \A m \in subs[s].msgs : m \in Queued \cap accepted /\ m \notin history /\ m \notin withdrawn
        /\ \A m \in Injected : Landed(m) => Landed(m)'
    BY <1>0, <1>2, <1>3, <1>4, CutQueue
  <1>6. rpc' = [rpc EXCEPT ![c] = r] BY <1>1 DEF Check
  <1>7. rpc'[c] = r BY <1>1, <1>6
  <1>8. r.hand = rest /\ r.pc \in {"idle", "submit"} /\ (r.pc = "idle" <=> rest = {})
    <2>1. NoRpc.hand = {} /\ NoRpc.pc = "idle" BY DEF NoRpc
    <2>2. LET q == [rpc[c] EXCEPT !.pc = "submit", !.hand = rest] IN q.pc = "submit" /\ q.hand = rest
      BY <1>1 DEF Rpc
    <2> QED BY <2>1, <2>2
  <1> HIDE DEF r
  <1>9. CallInv(rpc[c])' BY <1>2, <1>4, <1>5, <1>7, <1>8 DEF CallInv
  <1>10. r \in Rpc BY <1>1, <1>7
  <1>11. RpcInv' BY <1>0, <1>2, <1>6, <1>9, <1>10, OneCallInv
  <1>12. Chained' /\ \A d \in Callers : d # c => rpc'[d] = rpc[d]
    BY <1>0, <1>2, <1>6, <1>10, OneCall
  <1>13. Kept'
    <2> SUFFICES ASSUME NEW m \in Queued, m \in accepted
                 PROVE  \/ m \in history \cup withdrawn' \cup dropped
                        \/ \E d \in Callers : m \in rpc'[d].hand
      BY <1>2 DEF Kept
    <2>1. CASE m \in history \cup withdrawn \cup dropped BY <1>4, <2>1
    <2>2. CASE \E i \in Waiting : m \in subs[i].msgs BY <1>4, <1>5, <1>7, <1>8, <2>2
    <2>3. CASE \E d \in Callers : m \in rpc[d].hand BY <1>3, <1>12, <2>3
    <2> QED BY <1>0, <2>1, <2>2, <2>3 DEF Kept
  <1>14. Out' BY <1>0, <1>2, <1>3, <1>4, <1>5 DEF Out
  <1>15. OneWaiting' BY <1>5 DEF OneWaiting
  <1> QED BY <1>5, <1>11, <1>12, <1>13, <1>14, <1>15 DEF QueueInv

\* A call that ends early.
LEMMA EndQueue ==
  ASSUME IInv, TypeOK', NEW c \in Callers, Refused(c) \/ RpcThrows(c)
  PROVE  QueueInv'
  <1>0. TypeOK /\ QueueInv /\ RpcInv BY DEF IInv, QueueInv
  <1>1. /\ rpc \in [Callers -> Rpc] /\ rpc' = [rpc EXCEPT ![c] = NoRpc]
        /\ UNCHANGED <<subs, history, accepted, withdrawn>>
    BY <1>0 DEF TypeOK, Refused, RpcThrows
  <1>2. rpc[c].hand \subseteq dropped' /\ dropped \subseteq dropped'
    <2>1. CASE Refused(c) BY <1>0, <2>1 DEF RpcInv, CallInv, Refused
    <2>2. CASE RpcThrows(c) BY <2>2 DEF RpcThrows
    <2> QED BY <2>1, <2>2
  <1>3. CallsOrDrops BY <1>1, <1>2 DEF CallsOrDrops
  <1>4. InjectionsOnly BY <1>1 DEF InjectionsOnly
  <1>5. Moved BY <1>1 DEF Moved
  <1> QED BY <1>0, <1>3, <1>4, <1>5, MovedQueue

\* A queue call leaves the buffer, its kicks and the turn as they are.
LEMMA CallInjections ==
  ASSUME IInv, TypeOK', NEW c \in Callers,
         Send(c) \/ CancelQueued(c) \/ Continues(c) \/ RpcThrows(c)
  PROVE  IInv'
  <1>0. TypeOK /\ QueueInv /\ SubsInv /\ RpcInv /\ TurnInv /\ KickInv /\ BufferInv /\ Covered
    BY DEF IInv, QueueInv
  <1>1. QueueInv'
    BY SendQueue, LookQueues, MergeQueue, SubmitQueue, CheckQueue, EndQueue DEF Continues
  <1>2. ASSUME NEW m \in Injected, Landed(m) PROVE Landed(m)'
    <2>1. CASE Send(c) \/ CancelQueued(c) \/ ListSubs(c) \/ Pick(c) \/ Inspect(c) \/ Refused(c)
                 \/ RpcThrows(c)
      BY <1>2, <2>1
      DEF Landed, LiveSubs, Send, CancelQueued, ListSubs, Pick, Inspect, Refused, RpcThrows
    <2> QED BY <1>2, <2>1, MergeQueue, SubmitQueue, CheckQueue DEF Continues
  <1>3. UNCHANGED <<buffer, history, turn, kicks, hooks>>
    BY DEF Send, CancelQueued, Continues, ListSubs, Pick, Merge, SubmitBatch, Inspect, Check,
           Refused, RpcThrows
  <1>4. accepted \subseteq accepted' /\ accepted' \ accepted \subseteq Queued
        /\ withdrawn \subseteq withdrawn'
    BY DEF Send, CancelQueued, Continues, ListSubs, Pick, Merge, SubmitBatch, Inspect, Check,
           Refused, RpcThrows
  <1>5. \A i \in DOMAIN subs : subs'[i].msgs = subs[i].msgs
    <2>1. CASE UNCHANGED subs BY <2>1
    <2>2. CASE SubmitBatch(c)
      <3>1. rpc[c].hand \subseteq Messages BY <1>0, RpcFields DEF Messages
      <3> QED BY <1>0, <2>2, <3>1, SubmittedType DEF SubmitBatch
    <2>3. CASE (Merge(c) \/ Check(c)) /\ subs' # subs
      <3>1. CallInv(rpc[c]) BY <1>0 DEF RpcInv
      <3>2. /\ rpc[c].sub \in DOMAIN subs /\ subs[rpc[c].sub].queued /\ ~Applied(rpc[c].sub)
            /\ subs' = Cancelled(rpc[c].sub)
        BY <2>3, <3>1 DEF CallInv, Merge, Check
      <3> QED BY <1>0, <3>2, CutIsNotTurn
    <2> QED BY <2>1, <2>2, <2>3
            DEF Continues, Send, CancelQueued, ListSubs, Pick, Inspect, Refused, RpcThrows
  <1>6. TurnInv'
    <2>1. turn.sub # 0 => turn.sub \in DOMAIN subs BY <1>0 DEF TypeOK
    <2> QED BY <1>0, <1>3, <1>5, <2>1 DEF TurnInv
  <1>7. KickInv'
    <2>1. \A k \in Kickers : kicks[k].msgs \subseteq Injected BY <1>0 DEF TypeOK, Kick
    <2> QED BY <1>0, <1>2, <1>3, <1>4, <2>1 DEF KickInv
  <1>8. BufferInv'
    <2>1. Queued \cap Injected = {} BY KindsAssumption
    <2> QED BY <1>0, <1>2, <1>3, <1>4, <2>1 DEF BufferInv
  <1>9. Covered'
    <2>1. faults \in Nat /\ (faults' = faults \/ faults' = faults + 1)
      BY <1>0
      DEF TypeOK, Send, CancelQueued, Continues, ListSubs, Pick, Merge, SubmitBatch, Inspect, Check,
          Refused, RpcThrows, Fault
    <2>2. faults' = 0 => faults = 0 BY <2>1
    <2> QED BY <1>0, <1>3, <2>2 DEF Covered, TurnActive
  <1> QED BY <1>1, <1>6, <1>7, <1>8, <1>9 DEF IInv

-------------------------------------------------------------------------------
(* The buffer *)

LEMMA InjectionSteps ==
  ASSUME IInv, TypeOK',
         \/ \E m \in Injected : Deliver(m)
         \/ \E k \in Kickers : KickSubmit(k) \/ KickDelete(k) \/ KickThrows(k)
         \/ \E m \in Steers : CancelSteer(m)
  PROVE  IInv'
  <1>0. TypeOK /\ QueueInv /\ TurnInv /\ KickInv /\ BufferInv /\ Covered BY DEF IInv
  <1>1. /\ kicks \in [Kickers -> Kick] /\ faults \in Nat
        /\ turn.sub # 0 => turn.sub \in DOMAIN subs
    BY <1>0 DEF TypeOK
  <1>2. ASSUME Moved, InjectionsOnly, CallsOrDrops, turn' = turn
        PROVE  QueueInv' /\ TurnInv' /\ \A m : Landed(m) => Landed(m)'
    <2>1. QueueInv' /\ \A m : Landed(m) => Landed(m)' BY <1>0, <1>2, MovedQueue, MovedLanded
    <2>2. TurnInv' BY <1>0, <1>1, <1>2 DEF TurnInv, Moved
    <2> QED BY <2>1, <2>2
  <1>3. ASSUME NEW m \in Injected, Deliver(m) PROVE IInv'
    <2>1. Moved /\ InjectionsOnly /\ CallsOrDrops /\ turn' = turn
      BY <1>3 DEF Deliver, Moved, InjectionsOnly, CallsOrDrops
    <2>2. QueueInv' /\ TurnInv' /\ \A n : Landed(n) => Landed(n)' BY <1>2, <2>1
    <2>3. m \in Kickers /\ m \notin accepted /\ accepted' = accepted \cup {m}
          /\ buffer' = buffer \cup {m} /\ UNCHANGED <<hooks, faults, withdrawn>>
      BY <1>3 DEF Deliver, Kickers
    <2>4. kicks[m].pc = "idle" BY <1>0, <2>3 DEF KickInv
    <2>5. \A k \in Kickers : k # m => kicks'[k] = kicks[k] BY <1>1, <1>3 DEF Deliver
    <2>6. ~TurnActive => kicks'[m] = [pc |-> "submit", msgs |-> buffer']
      BY <1>1, <1>3, <2>3 DEF Deliver
    <2>7. TurnActive => kicks' = kicks BY <1>3 DEF Deliver
    <2>8. TurnActive' <=> TurnActive BY <2>1 DEF TurnActive
    <2>9. KickInv' BY <1>0, <2>2, <2>3, <2>5, <2>6, <2>7 DEF KickInv
    <2>10. BufferInv' BY <1>0, <2>2, <2>3 DEF BufferInv
    <2>11. Covered'
      <3>1. CASE TurnActive BY <2>8, <3>1 DEF Covered
      <3>2. CASE ~TurnActive BY <2>3, <2>6, <3>2 DEF Covered
      <3> QED BY <3>1, <3>2
    <2> QED BY <2>2, <2>9, <2>10, <2>11 DEF IInv
  <1>4. ASSUME NEW k \in Kickers, KickSubmit(k) PROVE IInv'
    <2>1. kicks[k] \in Kick /\ kicks[k].msgs \subseteq Injected BY <1>1 DEF Kick
    <2> DEFINE new == Len(subs) + 1
    <2>2. /\ DOMAIN subs' = DOMAIN subs \cup {new} /\ new \notin DOMAIN subs
          /\ \A i \in DOMAIN subs : subs'[i] = subs[i]
          /\ subs'[new] = [msgs |-> kicks[k].msgs, queued |-> FALSE, status |-> "pending"]
      <3>1. kicks[k].msgs \subseteq Messages BY <2>1 DEF Messages
      <3> QED BY <1>0, <1>4, <3>1, SubmittedType DEF KickSubmit
    <2> HIDE DEF new
    <2>3. UNCHANGED <<buffer, history, turn, hooks, rpc, accepted, withdrawn, dropped, faults>>
      BY <1>4 DEF KickSubmit
    <2>4. Moved
      <3>1. \A i \in DOMAIN subs' \ DOMAIN subs :
              ~subs'[i].queued /\ subs'[i].msgs \subseteq Injected /\ subs'[i].status \in Live
        BY <2>1, <2>2 DEF Live
      <3> QED BY <2>2, <2>3, <3>1 DEF Moved
    <2>5. InjectionsOnly /\ CallsOrDrops BY <2>3 DEF InjectionsOnly, CallsOrDrops
    <2>6. QueueInv' /\ TurnInv' /\ \A n : Landed(n) => Landed(n)' BY <1>2, <2>3, <2>4, <2>5
    <2>7. \A m \in kicks[k].msgs : Landed(m)' BY <2>2 DEF Landed, LiveSubs, Live
    <2>8. /\ kicks'[k].pc = "delete" /\ kicks'[k].msgs = kicks[k].msgs
          /\ \A j \in Kickers : j # k => kicks'[j] = kicks[j]
      BY <1>1, <1>4, <2>1 DEF KickSubmit, Kick
    <2>9. kicks[k].pc # "idle" BY <1>4 DEF KickSubmit
    <2>10. KickInv' BY <1>0, <2>3, <2>6, <2>7, <2>8, <2>9 DEF KickInv
    <2>11. BufferInv' BY <1>0, <2>3, <2>6 DEF BufferInv
    <2>12. Covered' BY <1>0, <2>3, <2>8, <2>9 DEF Covered, TurnActive
    <2> QED BY <2>6, <2>10, <2>11, <2>12 DEF IInv
  <1>5. ASSUME NEW k \in Kickers, KickDelete(k) PROVE IInv'
    <2>1. UNCHANGED <<subs, history, turn, hooks, rpc, accepted, withdrawn, dropped, faults>>
      BY <1>5 DEF KickDelete
    <2>2. Moved /\ InjectionsOnly /\ CallsOrDrops
      BY <2>1 DEF Moved, InjectionsOnly, CallsOrDrops
    <2>3. QueueInv' /\ TurnInv' /\ \A n : Landed(n) => Landed(n)' BY <1>2, <2>1, <2>2
    <2>4. /\ kicks'[k] = NoKick /\ kicks[k].pc = "delete" /\ buffer' = buffer \ kicks[k].msgs
          /\ \A j \in Kickers : j # k => kicks'[j] = kicks[j]
      BY <1>1, <1>5 DEF KickDelete
    <2>5. KickInv' BY <1>0, <2>1, <2>3, <2>4 DEF KickInv, NoKick
    <2>6. BufferInv' BY <1>0, <2>1, <2>3, <2>4 DEF BufferInv, KickInv
    <2>7. Covered' BY <1>0, <2>1, <2>4 DEF Covered, TurnActive
    <2> QED BY <2>3, <2>5, <2>6, <2>7 DEF IInv
  <1>6. ASSUME NEW k \in Kickers, KickThrows(k) PROVE IInv'
    <2>1. UNCHANGED <<buffer, subs, history, turn, hooks, rpc, accepted, withdrawn, dropped>>
          /\ faults' = faults + 1
      BY <1>6 DEF KickThrows, Fault
    <2>2. Moved /\ InjectionsOnly /\ CallsOrDrops
      BY <2>1 DEF Moved, InjectionsOnly, CallsOrDrops
    <2>3. QueueInv' /\ TurnInv' /\ \A n : Landed(n) => Landed(n)' BY <1>2, <2>1, <2>2
    <2>4. \A j \in Kickers : kicks'[j] = kicks[j] \/ kicks'[j].pc = "idle"
      BY <1>1, <1>6 DEF KickThrows, NoKick
    <2>5. KickInv' BY <1>0, <2>1, <2>3, <2>4 DEF KickInv
    <2>6. BufferInv' BY <1>0, <2>1, <2>3 DEF BufferInv
    <2>7. Covered' BY <1>1, <2>1 DEF Covered
    <2> QED BY <2>3, <2>5, <2>6, <2>7 DEF IInv
  <1>7. ASSUME NEW m \in Steers, CancelSteer(m) PROVE IInv'
    <2>1. UNCHANGED <<subs, history, turn, kicks, hooks, rpc, accepted, dropped, faults>>
          /\ buffer' = buffer \ {m} /\ withdrawn' = withdrawn \cup {m} /\ m \in Injected
      BY <1>7 DEF CancelSteer, Injected
    <2>2. Moved /\ InjectionsOnly /\ CallsOrDrops
      BY <2>1 DEF Moved, InjectionsOnly, CallsOrDrops
    <2>3. QueueInv' /\ TurnInv' /\ \A n : Landed(n) => Landed(n)' BY <1>2, <2>1, <2>2
    <2>4. KickInv' BY <1>0, <2>1, <2>3 DEF KickInv
    <2>5. BufferInv' BY <1>0, <2>1, <2>3 DEF BufferInv
    <2>6. Covered' BY <1>0, <2>1 DEF Covered, TurnActive
    <2> QED BY <2>3, <2>4, <2>5, <2>6 DEF IInv
  <1> QED BY <1>3, <1>4, <1>5, <1>6, <1>7

-------------------------------------------------------------------------------
(* Turns *)

\* What ends with the turn is in the transcript.
LEMMA EndedMoves ==
  ASSUME IInv, NEW st \in {"completed", "error"}, subs' = Ended(st), history' = history
  PROVE  Moved
  <1>0. TypeOK /\ TurnInv BY DEF IInv
  <1>1. CASE turn.sub = 0 \/ subs[turn.sub].status # "running"
    BY <1>1 DEF Ended, Moved
  <1>2. CASE ~(turn.sub = 0 \/ subs[turn.sub].status # "running")
    <2>1. turn.sub \in DOMAIN subs /\ subs[turn.sub].msgs \subseteq history
      BY <1>0, <1>2 DEF TypeOK, TurnInv
    <2>2. st \in Live \cup {"completed", "aborted", "error"} /\ st \notin Live BY DEF Live
    <2>3. subs' = [subs EXCEPT ![turn.sub].status = st] BY <1>2 DEF Ended
    <2>4. /\ DOMAIN subs' = DOMAIN subs
          /\ \A j \in DOMAIN subs :
               /\ subs'[j].msgs = subs[j].msgs /\ subs'[j].queued = subs[j].queued
               /\ subs'[j].status = IF j = turn.sub THEN st ELSE subs[j].status
      BY <1>0, <2>1, <2>2, <2>3, StatusType
    <2> QED BY <2>1, <2>2, <2>4 DEF Moved
  <1> QED BY <1>1, <1>2

LEMMA StartMoves ==
  ASSUME IInv, NEW i \in DOMAIN subs, StartTurn(i)
  PROVE  Moved
  <1>0. TypeOK /\ QueueInv /\ SubsInv /\ OneWaiting BY DEF IInv, QueueInv
  <1>1. subs' = subs /\ history' = history \cup subs[i].msgs /\ subs[i].status \in Live
    BY DEF StartTurn, Live
  <1>2. Queued \cap Injected = {} BY KindsAssumption
  <1>3. subs[i].queued \in BOOLEAN BY <1>0, SubmissionFields
  <1>4. ASSUME NEW j \in DOMAIN subs, subs[j].queued, subs[j].status \in Live
        PROVE  (history' \ history) \cap subs[j].msgs = {} \/ subs[j].msgs \subseteq history'
    <2>1. CASE Applied(j) \/ j = i BY <1>0, <1>1, <1>4, <2>1 DEF SubsInv
    <2>2. CASE ~Applied(j) /\ j # i
      <3>1. j \in Waiting BY <1>4, <2>2 DEF Waiting, LiveSubs
      <3>2. i \notin Waiting BY <1>0, <2>2, <3>1 DEF OneWaiting
      <3>3. ~subs[i].queued \/ Applied(i) BY <1>1, <1>3, <3>2 DEF Waiting, LiveSubs
      <3>4. CASE ~subs[i].queued BY <1>0, <1>1, <1>2, <1>4, <3>4 DEF SubsInv
      <3>5. CASE subs[i].queued /\ Applied(i) BY <1>0, <1>1, <3>5 DEF SubsInv
      <3> QED BY <1>3, <3>3, <3>4, <3>5
    <2> QED BY <2>1, <2>2
  <1>5. ASSUME NEW m \in Queued \cap (history' \ history)
        PROVE  \E k \in Waiting : m \in subs[k].msgs
    <2>1. m \in subs[i].msgs /\ m \notin history BY <1>1
    <2>2. subs[i].queued BY <1>0, <1>2, <1>3, <2>1 DEF SubsInv
    <2>3. ~Applied(i) BY <1>0, <1>1, <2>1, <2>2 DEF SubsInv
    <2> QED BY <1>1, <2>1, <2>2, <2>3 DEF Waiting, LiveSubs
  <1> QED BY <1>1, <1>4, <1>5 DEF Moved

\* A step of the turn, of the drain loop or of a restart moves the submissions.
LEMMA TurnMoves ==
  ASSUME IInv,
         \/ ChatTurn \/ StepPeek \/ StepPersist \/ StepDelete \/ TurnEnds \/ TurnDies
         \/ \E i \in DOMAIN subs : ClaimSub(i) \/ StartTurn(i)
         \/ Flush \/ Crash
  PROVE  Moved
  <1>0. TypeOK /\ SubsInv /\ TurnInv BY DEF IInv, QueueInv
  <1>1. turn.peeked \subseteq Injected BY <1>0 DEF TypeOK, Turn
  <1>2. CASE ChatTurn \/ StepPeek \/ StepDelete \/ Flush
    BY <1>2 DEF Moved, ChatTurn, StepPeek, StepDelete, Flush
  <1>3. CASE StepPersist
    <2>1. subs' = subs /\ history' = history \cup turn.peeked BY <1>3 DEF StepPersist
    <2>2. Queued \cap Injected = {} BY KindsAssumption
    <2> QED BY <1>0, <1>1, <2>1, <2>2 DEF Moved, SubsInv
  <1>4. CASE TurnEnds \/ TurnDies BY <1>4, EndedMoves DEF TurnEnds, TurnDies
  <1>5. ASSUME NEW i \in DOMAIN subs, ClaimSub(i) PROVE Moved
    <2>1. "running" \in Live \cup {"completed", "aborted", "error"} /\ "running" \in Live
          /\ "pending" \in Live
      BY DEF Live
    <2>2. /\ DOMAIN subs' = DOMAIN subs
          /\ \A j \in DOMAIN subs :
               /\ subs'[j].msgs = subs[j].msgs /\ subs'[j].queued = subs[j].queued
               /\ subs'[j].status = IF j = i THEN "running" ELSE subs[j].status
      BY <1>0, <1>5, <2>1, StatusType DEF ClaimSub
    <2> QED BY <1>5, <2>1, <2>2 DEF Moved, ClaimSub
  <1>6. CASE Crash
    <2>1. Restarted /\ history' = history BY <1>6 DEF Crash, Restarted
    <2> QED BY <1>0, <2>1, RestartedType DEF Moved, TurnInv, SubmissionFields
  <1> QED BY <1>2, <1>3, <1>4, <1>5, <1>6, StartMoves

LEMMA TurnSteps ==
  ASSUME IInv, TypeOK',
         \/ ChatTurn \/ StepPeek \/ StepPersist \/ StepDelete \/ TurnEnds \/ TurnDies
         \/ \E i \in DOMAIN subs : ClaimSub(i) \/ StartTurn(i)
         \/ Flush \/ Crash
  PROVE  IInv'
  <1>0. TypeOK /\ QueueInv /\ SubsInv /\ RpcInv /\ TurnInv /\ KickInv /\ BufferInv /\ Covered
    BY DEF IInv, QueueInv
  <1>1. /\ kicks \in [Kickers -> Kick] /\ faults \in Nat /\ hooks \in Nat /\ turn \in Turn
        /\ turn.sub # 0 => turn.sub \in DOMAIN subs
        /\ turn.peeked \subseteq Injected
    BY <1>0 DEF TypeOK, Turn
  <1>2. InjectionsOnly
    BY DEF InjectionsOnly, ChatTurn, StepPeek, StepPersist, StepDelete, TurnEnds, TurnDies,
           ClaimSub, StartTurn, Flush, Crash
  <1>3. Moved BY TurnMoves
  <1>4. CallsOrDrops
    BY DEF CallsOrDrops, ChatTurn, StepPeek, StepPersist, StepDelete, TurnEnds, TurnDies,
           ClaimSub, StartTurn, Flush, Crash
  <1>5. QueueInv' /\ \A m : Landed(m) => Landed(m)'
    BY <1>0, <1>2, <1>3, <1>4, MovedQueue, MovedLanded
  <1>6. TurnInv'
    <2>1. CASE ChatTurn \/ TurnEnds \/ TurnDies \/ Crash
      BY <2>1 DEF TurnInv, ChatTurn, TurnEnds, TurnDies, Crash, NoTurn
    <2>2. CASE StepPeek \/ StepDelete \/ Flush
      BY <1>0, <1>1, <2>2 DEF TurnInv, StepPeek, StepDelete, Flush, Turn
    <2>3. CASE StepPersist
      <3>1. turn'.sub = turn.sub /\ turn'.peeked = turn.peeked BY <1>1, <2>3 DEF StepPersist, Turn
      <3> QED BY <1>0, <2>3, <3>1 DEF TurnInv, StepPersist
    <2>4. ASSUME NEW i \in DOMAIN subs, ClaimSub(i) PROVE TurnInv'
      BY <1>0, <1>1, <1>3, <2>4 DEF TurnInv, ClaimSub, Moved
    <2>5. ASSUME NEW i \in DOMAIN subs, StartTurn(i) PROVE TurnInv'
      BY <2>5 DEF TurnInv, StartTurn, NoTurn
    <2> QED BY <2>1, <2>2, <2>3, <2>4, <2>5
  <1>7. accepted' = accepted /\ withdrawn' = withdrawn
    BY DEF ChatTurn, StepPeek, StepPersist, StepDelete, TurnEnds, TurnDies, ClaimSub, StartTurn,
           Flush, Crash
  <1>8. KickInv'
    <2>1. CASE kicks' = kicks BY <1>0, <1>5, <1>7, <2>1 DEF KickInv
    <2>2. CASE Crash BY <2>2 DEF KickInv, Crash, NoKick
    <2>3. CASE Flush
      <3>1. "flush" \notin Injected BY KindsAssumption DEF Messages
      <3>2. /\ kicks'["flush"].pc # "delete"
            /\ \A k \in Kickers : k # "flush" => kicks'[k] = kicks[k]
        BY <1>1, <2>3 DEF Flush, Kickers
      <3> QED BY <1>0, <1>5, <1>7, <3>1, <3>2 DEF KickInv
    <2> QED
      BY <2>1, <2>2, <2>3
      DEF ChatTurn, StepPeek, StepPersist, StepDelete, TurnEnds, TurnDies, ClaimSub, StartTurn
  <1>9. BufferInv'
    <2>1. CASE StepDelete
      <3>1. \A m \in turn.peeked : Landed(m) BY <1>0, <2>1 DEF TurnInv, StepDelete, Landed
      <3>2. buffer' = buffer \ turn.peeked BY <2>1 DEF StepDelete
      <3> QED BY <1>0, <1>5, <1>7, <3>1, <3>2 DEF BufferInv
    <2>2. CASE buffer' = buffer BY <1>0, <1>5, <1>7, <2>2 DEF BufferInv
    <2> QED
      BY <2>1, <2>2
      DEF ChatTurn, StepPeek, StepPersist, TurnEnds, TurnDies, ClaimSub, StartTurn, Flush, Crash
  <1>10. Covered'
    <2>1. CASE ChatTurn \/ StepPeek \/ StepPersist \/ StepDelete
      <3>1. TurnActive'
        BY <1>1, <2>1 DEF ChatTurn, StepPeek, StepPersist, StepDelete, TurnActive, NoTurn, Turn
      <3> QED BY <3>1 DEF Covered
    <2>2. CASE TurnEnds
      <3>1. hooks' > 0 BY <1>1, <2>2 DEF TurnEnds
      <3> QED BY <3>1 DEF Covered
    <2>3. CASE TurnDies \/ Crash BY <1>1, <2>3 DEF TurnDies, Crash, Fault, Covered
    <2>4. ASSUME NEW i \in DOMAIN subs, ClaimSub(i) PROVE Covered'
      BY <1>0, <2>4 DEF Covered, ClaimSub, TurnActive
    <2>5. ASSUME NEW i \in DOMAIN subs, StartTurn(i) PROVE Covered'
      <3>1. TurnActive' BY <2>5 DEF StartTurn, TurnActive, NoTurn
      <3> QED BY <3>1 DEF Covered
    <2>6. CASE Flush
      <3>1. CASE buffer = {} BY <2>6, <3>1 DEF Covered, Flush
      <3>2. CASE buffer # {}
        <4>1. "flush" \in Kickers BY DEF Kickers
        <4>2. kicks'["flush"] = [pc |-> "submit", msgs |-> buffer] /\ buffer' = buffer
          BY <1>1, <2>6, <3>2, <4>1 DEF Flush
        <4> QED BY <4>1, <4>2 DEF Covered
      <3> QED BY <3>1, <3>2
    <2> QED BY <2>1, <2>2, <2>3, <2>4, <2>5, <2>6
  <1> QED BY <1>5, <1>6, <1>8, <1>9, <1>10 DEF IInv

-------------------------------------------------------------------------------
(* The results *)

LEMMA InitIInv == Init => IInv
  <1> SUFFICES ASSUME Init PROVE IInv OBVIOUS
  <1>1. TypeOK
    <2>1. NoTurn \in Turn /\ NoKick \in Kick /\ NoTurn.sub = 0 BY DEF NoTurn, Turn, NoKick, Kick
    <2>2. subs \in Seq(Submission) BY DEF Init
    <2>3. NoRpc.pc = "idle" BY DEF NoRpc
    <2> QED BY <2>1, <2>2, <2>3, NoRpcType DEF Init, TypeOK
  <1>2. DOMAIN subs = {} BY DEF Init
  <1>3. Waiting = {} BY <1>2 DEF Waiting, LiveSubs
  <1>4. QueueInv
    BY <1>2, <1>3
    DEF QueueInv, Chained, SubsInv, RpcInv, CallInv, Kept, Out, OneWaiting, Init, NoRpc
  <1>5. TurnInv /\ KickInv /\ BufferInv /\ Covered
    BY DEF TurnInv, KickInv, BufferInv, Covered, Init, NoTurn, NoKick
  <1> QED BY <1>1, <1>4, <1>5 DEF IInv

LEMMA NextIInv == ASSUME IInv, [Next]_vars PROVE IInv'
  <1>1. TypeOK' BY NextType
  <1>2. CASE UNCHANGED vars
    <2>1. UNCHANGED <<buffer, subs, history, turn, kicks, hooks, rpc, accepted, withdrawn,
                      dropped, faults>>
      BY <1>2 DEF vars
    <2>2. ASSUME NEW m \in Injected PROVE Landed(m)' <=> Landed(m)
      BY <2>1 DEF Landed, LiveSubs
    <2>3. QueueInv'
      <3>1. Moved /\ InjectionsOnly /\ CallsOrDrops
        BY <2>1 DEF Moved, InjectionsOnly, CallsOrDrops
      <3> QED BY <1>1, <3>1, MovedQueue DEF IInv
    <2>4. TurnInv' BY <2>1 DEF IInv, TurnInv
    <2>5. KickInv'
      <3>1. kicks' = kicks /\ accepted' = accepted /\ \A k \in Kickers : kicks[k].msgs \subseteq Injected
        BY <2>1 DEF IInv, TypeOK, Kick
      <3> QED BY <2>2, <3>1 DEF IInv, KickInv
    <2>6. BufferInv' BY <2>1, <2>2 DEF IInv, BufferInv
    <2>7. Covered' BY <2>1 DEF IInv, Covered, TurnActive
    <2> QED BY <1>1, <2>3, <2>4, <2>5, <2>6, <2>7 DEF IInv
  <1> QED BY <1>1, <1>2, CallInjections, InjectionSteps, TurnSteps DEF Next

\* The strengthening of the results is an invariant, for any messages, queue
\* calls, turns and faults: a queue call that resumes after its await still
\* knows where the batch it picked is.
THEOREM Inductive == Spec => []IInv
  <1> QED BY InitIInv, NextIInv, PTL DEF Spec

\* Every variable keeps its type, and the turn names a submission under way.
THEOREM TypeCorrect == Spec => []TypeOK
  <1>1. IInv => TypeOK BY DEF IInv
  <1> QED BY Inductive, <1>1, PTL

\* submitQueuedUserMessage and cancelQueuedUserMessage leave one batch waiting
\* at most, whatever runs between their awaits.
THEOREM OneBatchWaits == Spec => []OneWaiting
  <1>1. IInv => OneWaiting BY DEF IInv, QueueInv
  <1> QED BY Inductive, <1>1, PTL

\* A queued message is in one place through every merge and cancel, until it is
\* in the transcript.
THEOREM QueuedNeverLost == Spec => []QueuedKept
  <1>1. ASSUME IInv PROVE QueuedKept
    <2>0. Chained /\ RpcInv /\ Kept /\ OneWaiting BY <1>1 DEF IInv, QueueInv
    <2>1. SUFFICES ASSUME NEW m \in Queued, m \in accepted,
                          m \notin history \cup withdrawn \cup dropped
                   PROVE  \E p \in Places(m) : Places(m) = {p}
      BY DEF QueuedKept
    <2>2. \A i \in LiveSubs :
            m \in subs[i].msgs /\ ~Applied(i) => subs[i].queued
      <3>1. Queued \cap Injected = {} BY KindsAssumption
      <3>2. \A i \in LiveSubs : i \in DOMAIN subs BY DEF LiveSubs
      <3> QED BY <1>1, <3>1, <3>2 DEF IInv, QueueInv, SubsInv
    <2>3. Places(m) = {i \in Waiting : m \in subs[i].msgs} \cup {c \in Callers : m \in rpc[c].hand}
      BY <2>2 DEF Places, Waiting
    <2>4. \A c \in Callers : m \in rpc[c].hand => rpc[c].pc # "idle"
                                              /\ \A i \in Waiting : m \notin subs[i].msgs
      <3> SUFFICES ASSUME NEW c \in Callers, m \in rpc[c].hand
                   PROVE  rpc[c].pc # "idle" /\ \A i \in Waiting : m \notin subs[i].msgs
        OBVIOUS
      <3>1. CallInv(rpc[c]) /\ rpc[c] \in Rpc BY <1>1, <2>0, RpcFields DEF RpcInv, IInv
      <3>2. rpc[c].pc # "idle" BY <3>1 DEF CallInv
      <3>3. \A i \in Waiting : i \in DOMAIN subs BY DEF Waiting, LiveSubs
      <3> QED BY <3>1, <3>2, <3>3 DEF CallInv, Rpc
    <2>5. Places(m) # {} BY <2>0, <2>1, <2>3 DEF Kept
    <2>6. \A p, q \in Places(m) : p = q
      BY <2>0, <2>3, <2>4 DEF Chained, OneWaiting
    <2> QED BY <2>5, <2>6
  <1> QED BY Inductive, <1>1, PTL

\* A queued message whose cancel was acknowledged never runs.
THEOREM WithdrawnNeverRuns == Spec => []WithdrawnStaysOut
  <1>1. ASSUME IInv PROVE WithdrawnStaysOut
    <2>0. RpcInv /\ Out BY <1>1 DEF IInv, QueueInv
    <2>1. SUFFICES ASSUME NEW m \in Queued, m \in withdrawn
                   PROVE  m \notin history /\ Places(m) = {}
      BY DEF WithdrawnStaysOut
    <2>2. m \notin history /\ \A i \in Waiting : m \notin subs[i].msgs BY <2>0, <2>1 DEF Out
    <2>3. \A c \in Callers : m \notin rpc[c].hand BY <2>0, <2>1 DEF RpcInv, CallInv
    <2>4. \A i \in LiveSubs : m \in subs[i].msgs /\ ~Applied(i) => i \in Waiting
      <3>1. Queued \cap Injected = {} BY KindsAssumption
      <3>2. \A i \in LiveSubs : i \in DOMAIN subs BY DEF LiveSubs
      <3> QED BY <1>1, <3>1, <3>2 DEF IInv, QueueInv, SubsInv, Waiting
    <2> QED BY <2>2, <2>3, <2>4 DEF Places
  <1> QED BY Inductive, <1>1, PTL

\* A steer or a completion is never lost: deliverInjection, the drain of a step
\* and the kick of a turn delete a row only when what it holds has landed.
THEOREM InjectionNeverLost == Spec => []InjectionKept
  <1>1. IInv => InjectionKept BY DEF IInv, BufferInv, Landed, InjectionKept
  <1> QED BY Inductive, <1>1, PTL

\* What is buffered has something in flight that will drain it.
THEOREM BufferAlwaysDrained == Spec => []BufferIsDrained
  <1>1. IInv => BufferIsDrained BY DEF IInv, Covered, BufferIsDrained
  <1> QED BY Inductive, <1>1, PTL

\* No queue call aborts a batch that has entered the transcript.
NoAbort ==
  \A i \in DOMAIN subs :
    subs[i].status # "aborted" /\ subs'[i].status = "aborted" => ~Applied(i)

LEMMA NextAborts == ASSUME IInv, [Next]_vars PROVE NoAbort
  <1>0. TypeOK BY DEF IInv
  <1>1. CASE UNCHANGED subs BY <1>1 DEF NoAbort
  <1>2. ASSUME NEW c \in Callers, Merge(c) \/ Check(c) PROVE NoAbort
    <2>1. CASE ~Applied(rpc[c].sub) BY <1>0, <1>2, <2>1 DEF Merge, Check, Cancelled, NoAbort
    <2>2. CASE Applied(rpc[c].sub) BY <1>2, <2>2 DEF Merge, Check, NoAbort
    <2> QED BY <2>1, <2>2
  <1>3. ASSUME NEW M \in SUBSET Messages, NEW q \in BOOLEAN, subs' = Submitted(M, q)
        PROVE  NoAbort
    BY <1>0, <1>3, SubmittedType DEF NoAbort
  <1>4. ASSUME NEW c \in Callers, SubmitBatch(c) PROVE NoAbort
    <2>1. rpc[c].hand \subseteq Messages BY <1>0, RpcFields DEF Messages
    <2> QED BY <1>3, <1>4, <2>1 DEF SubmitBatch
  <1>5. ASSUME NEW k \in Kickers, KickSubmit(k) PROVE NoAbort
    <2>1. kicks[k].msgs \subseteq Messages BY <1>0 DEF TypeOK, Kick, Messages
    <2> QED BY <1>3, <1>5, <2>1 DEF KickSubmit
  <1>6. CASE TurnEnds \/ TurnDies
    <2>1. PICK st \in {"completed", "error"} : subs' = Ended(st) BY <1>6 DEF TurnEnds, TurnDies
    <2>2. CASE turn.sub = 0 \/ subs[turn.sub].status # "running" BY <2>1, <2>2 DEF Ended, NoAbort
    <2>3. CASE ~(turn.sub = 0 \/ subs[turn.sub].status # "running")
      <3>1. turn.sub \in DOMAIN subs BY <1>0, <2>3 DEF TypeOK
      <3>2. st \in Live \cup {"completed", "aborted", "error"} OBVIOUS
      <3>3. subs' = [subs EXCEPT ![turn.sub].status = st] BY <2>1, <2>3 DEF Ended
      <3>4. \A j \in DOMAIN subs :
              subs'[j].status = IF j = turn.sub THEN st ELSE subs[j].status
        BY <1>0, <3>1, <3>2, <3>3, StatusType
      <3> QED BY <3>4 DEF NoAbort
    <2> QED BY <2>2, <2>3
  <1>7. ASSUME NEW i \in DOMAIN subs, ClaimSub(i) PROVE NoAbort
    <2>1. "running" \in Live \cup {"completed", "aborted", "error"} BY DEF Live
    <2>2. \A j \in DOMAIN subs :
            subs'[j].status = IF j = i THEN "running" ELSE subs[j].status
      BY <1>0, <1>7, <2>1, StatusType DEF ClaimSub
    <2> QED BY <2>2 DEF NoAbort
  <1>8. CASE Crash
    <2>1. \A i \in DOMAIN subs : subs'[i].status \in {"error", "pending", subs[i].status}
      <3>1. \A i \in DOMAIN subs : subs[i] \in Submission BY <1>0 DEF TypeOK
      <3>2. PICK lost \in SUBSET {i \in LiveSubs : i = turn.sub} :
              subs' = [i \in DOMAIN subs |->
                         IF i \in lost THEN [subs[i] EXCEPT !.status = "error"]
                         ELSE IF i \in LiveSubs THEN [subs[i] EXCEPT !.status = "pending"]
                         ELSE subs[i]]
        BY <1>8 DEF Crash
      <3> QED BY <3>1, <3>2 DEF Submission
    <2> QED BY <2>1 DEF NoAbort
  <1>9. CASE UNCHANGED vars BY <1>9 DEF vars, NoAbort
  <1> QED
    BY <1>1, <1>2, <1>4, <1>5, <1>6, <1>7, <1>8, <1>9
    DEF Next, Send, CancelQueued, Continues, ListSubs, Pick, Inspect, Refused, RpcThrows,
        Deliver, KickDelete, KickThrows, CancelSteer, ChatTurn, StartTurn, StepPeek, StepPersist,
        StepDelete, Flush

\* The applied re-check and the cancel have no await between them, so the batch
\* of a turn that has begun is out of every queue call's reach.
THEOREM ActiveTurnNeverAborted == Spec => ActiveTurnIsSafe
  <1>1. IInv /\ [Next]_vars => [NoAbort]_vars BY NextAborts
  <1> QED BY Inductive, <1>1, PTL DEF Spec, ActiveTurnIsSafe, NoAbort
-------------------------------------------------------------------------------
(* The queue as one batch *)

\* A message whose call died was handed to the thread.
LEMMA DroppedAccepted == Spec => [](dropped \subseteq accepted)
  <1>1. Init => dropped \subseteq accepted BY DEF Init
  <1>2. IInv /\ dropped \subseteq accepted /\ [Next]_vars => (dropped \subseteq accepted)'
    <2> SUFFICES ASSUME IInv, dropped \subseteq accepted, [Next]_vars
                 PROVE  dropped' \subseteq accepted'
      OBVIOUS
    <2>1. \A c \in Callers : rpc[c].hand \subseteq accepted
      BY DEF IInv, QueueInv, RpcInv, CallInv
    <2>2. accepted \subseteq accepted'
      BY DEF Next, vars, Send, CancelQueued, Continues, ListSubs, Pick, Merge, SubmitBatch,
             Inspect, Check, Refused, RpcThrows, Deliver, KickSubmit, KickDelete, KickThrows,
             CancelSteer, ChatTurn, ClaimSub, StartTurn, StepPeek, StepPersist, StepDelete,
             TurnEnds, TurnDies, Flush, Crash
    <2>3. \/ dropped' = dropped
          \/ \E c \in Callers : dropped' = dropped \cup rpc[c].hand
          \/ dropped' = dropped \cup UNION {rpc[c].hand : c \in Callers}
      BY DEF Next, vars, Send, CancelQueued, Continues, ListSubs, Pick, Merge, SubmitBatch,
             Inspect, Check, Refused, RpcThrows, Deliver, KickSubmit, KickDelete, KickThrows,
             CancelSteer, ChatTurn, ClaimSub, StartTurn, StepPeek, StepPersist, StepDelete,
             TurnEnds, TurnDies, Flush, Crash
    <2> QED BY <2>1, <2>2, <2>3
  <1> QED BY <1>1, <1>2, Inductive, PTL DEF Spec

\* What waits is the batch of the one submission that waits.
LEMMA BatchSeen ==
  ASSUME QueueInv
  PROVE  /\ \A i \in Waiting : WaitingMessages = subs[i].msgs /\ subs[i].msgs # {}
         /\ Waiting = {} => WaitingMessages = {}
         /\ WaitingMessages \subseteq (Queued \cap accepted) \ history
  <1>1. SubsInv /\ OneWaiting BY DEF QueueInv
  <1>2. \A i \in Waiting : Waiting = {i} /\ subs[i].msgs # {}
    BY <1>1 DEF OneWaiting, SubsInv, Waiting, LiveSubs
  <1>3. \A i \in Waiting : subs[i].msgs \subseteq (Queued \cap accepted) \ history
    BY <1>1 DEF SubsInv, Waiting, LiveSubs, Applied
  <1>4. \A i \in Waiting : WaitingMessages = subs[i].msgs
    BY <1>2 DEF WaitingMessages
  <1> QED BY <1>2, <1>3, <1>4 DEF WaitingMessages

\* The call that moves is the only one with messages in hand.
LEMMA HandsSeen ==
  ASSUME TypeOK, QueueInv, NEW c \in Callers, NEW r \in Rpc,
         rpc' = [rpc EXCEPT ![c] = r], rpc[c].pc # "idle" \/ ChainFree(c)
  PROVE  JoiningMessages = rpc[c].hand /\ JoiningMessages' = r.hand
  <1>1. /\ rpc'[c] = r
        /\ \A d \in Callers : d # c => rpc[d].hand = {} /\ rpc'[d].hand = {}
    BY OneCall
  <1>2. \A m : (\E d \in Callers : m \in rpc[d].hand) <=> m \in rpc[c].hand
    BY <1>1
  <1>3. \A m : (\E d \in Callers : m \in rpc'[d].hand) <=> m \in r.hand
    BY <1>1
  <1> QED BY <1>2, <1>3 DEF JoiningMessages

\* The steps of the turn and of the injections run the whole batch or leave it.
LEMMA MovedSeen ==
  ASSUME TypeOK, TypeOK', QueueInv, QueueInv', Moved
  PROVE  \/ /\ WaitingMessages' = WaitingMessages
            /\ history' \cap Queued = history \cap Queued
         \/ /\ history' # history /\ WaitingMessages # {} /\ WaitingMessages' = {}
            /\ history' \cap Queued = (history \cap Queued) \cup WaitingMessages
  <1>1. /\ Waiting' \subseteq Waiting
        /\ \A i \in Waiting \ Waiting' : subs[i].msgs \subseteq history'
        /\ \A i \in Waiting : i \in DOMAIN subs
    BY MovedWaiting
  <1>2. /\ history \subseteq history'
        /\ \A m \in Queued \cap (history' \ history) : m \in WaitingMessages
    BY DEF Moved, WaitingMessages
  <1>3. CASE Waiting = {}
    <2>1. Waiting' = {} BY <1>1, <1>3
    <2>2. WaitingMessages = {} /\ WaitingMessages' = {}
      BY <1>3, <2>1 DEF WaitingMessages
    <2> QED BY <1>2, <2>2
  <1>4. ASSUME NEW i \in Waiting, i \in Waiting'
        PROVE  /\ WaitingMessages' = WaitingMessages
               /\ history' \cap Queued = history \cap Queued
    <2>1. WaitingMessages = subs[i].msgs BY BatchSeen
    <2>2. \A j \in Waiting' : j = i BY <1>4 DEF QueueInv, OneWaiting
    <2>3. subs'[i].msgs = subs[i].msgs BY <1>1 DEF Moved
    <2>4. WaitingMessages' = subs'[i].msgs BY <1>4, <2>2 DEF WaitingMessages
    <2>5. subs'[i].msgs \cap history' = {} BY <1>4 DEF Waiting, Applied
    <2> QED BY <1>2, <2>1, <2>3, <2>4, <2>5
  <1>5. ASSUME NEW i \in Waiting, i \notin Waiting'
        PROVE  /\ history' # history /\ WaitingMessages # {} /\ WaitingMessages' = {}
               /\ history' \cap Queued = (history \cap Queued) \cup WaitingMessages
    <2>1. /\ WaitingMessages = subs[i].msgs /\ subs[i].msgs # {}
          /\ WaitingMessages \subseteq Queued \ history
      BY BatchSeen
    <2>2. Waiting' = {} BY <1>1, <1>5 DEF QueueInv, OneWaiting
    <2>3. WaitingMessages' = {} BY <2>2 DEF WaitingMessages
    <2>4. WaitingMessages \subseteq history' BY <1>1, <1>5, <2>1
    <2> QED BY <1>2, <2>1, <2>3, <2>4
  <1> QED BY <1>3, <1>4, <1>5

QueueStep == [QueueSeen!Next]_(QueueSeen!queue)

\* So each of them is a run of the batch, or no step of the contract.
LEMMA MovedRefines ==
  ASSUME TypeOK, TypeOK', QueueInv, QueueInv', Moved,
         rpc' = rpc, dropped' = dropped, withdrawn' \cap Queued = withdrawn \cap Queued
  PROVE  QueueStep
  <1>1. JoiningMessages' = JoiningMessages BY DEF JoiningMessages
  <1>2. CASE /\ WaitingMessages' = WaitingMessages
             /\ history' \cap Queued = history \cap Queued
    BY <1>1, <1>2 DEF QueueStep, QueueSeen!queue
  <1>3. CASE /\ WaitingMessages # {} /\ WaitingMessages' = {}
             /\ history' \cap Queued = (history \cap Queued) \cup WaitingMessages
    <2>1. QueueSeen!Runs BY <1>1, <1>3 DEF QueueSeen!Runs
    <2> QED BY <2>1 DEF QueueStep, QueueSeen!Next
  <1> QED BY <1>2, <1>3, MovedSeen

\* A restart takes what the calls had in hand, and leaves the batch.
LEMMA CrashRefines ==
  ASSUME IInv, IInv', Crash
  PROVE  QueueStep
  <1>1. Moved BY TurnMoves
  <1>2. UNCHANGED <<history, withdrawn>> BY DEF Crash
  <1>3. WaitingMessages' = WaitingMessages BY <1>1, <1>2, MovedSeen DEF IInv
  <1>4. dropped' = dropped \cup JoiningMessages BY DEF Crash, JoiningMessages
  <1>5. JoiningMessages' = {}
    <2>1. \A c \in Callers : rpc'[c].hand = {} BY DEF Crash, NoRpc
    <2> QED BY <2>1 DEF JoiningMessages
  <1>6. CASE JoiningMessages = {}
    BY <1>2, <1>3, <1>4, <1>5, <1>6 DEF QueueStep, QueueSeen!queue
  <1>7. CASE JoiningMessages # {}
    <2>1. QueueSeen!Dies BY <1>2, <1>3, <1>4, <1>5, <1>7 DEF QueueSeen!Dies
    <2> QED BY <2>1 DEF QueueStep, QueueSeen!Next
  <1> QED BY <1>6, <1>7

\* The calls that only look change nothing the contract sees.
LEMMA LookRefines ==
  ASSUME IInv, IInv', NEW c \in Callers,
         ListSubs(c) \/ Pick(c) \/ CancelQueued(c) \/ Inspect(c) \/ Refused(c)
  PROVE  QueueStep
  <1>1. UNCHANGED <<subs, history, withdrawn, dropped>>
    BY DEF ListSubs, Pick, CancelQueued, Inspect, Refused
  <1>2. WaitingMessages' = WaitingMessages
    BY <1>1 DEF WaitingMessages, Waiting, LiveSubs, Applied
  <1>3. /\ rpc \in [Callers -> Rpc] /\ rpc' \in [Callers -> Rpc] /\ rpc[c] \in Rpc
        /\ CallInv(rpc[c])
    BY DEF IInv, TypeOK, QueueInv, RpcInv
  <1>4. \A d \in Callers : d # c => rpc'[d] = rpc[d]
    BY <1>3 DEF ListSubs, Pick, CancelQueued, Inspect, Refused
  <1>5. rpc'[c].hand = rpc[c].hand
    <2>1. CASE ListSubs(c) \/ Pick(c)
      BY <1>3, <2>1 DEF ListSubs, Pick, Rpc
    <2>2. CASE CancelQueued(c)
      BY <1>3, <2>2 DEF CancelQueued, ChainFree, CallInv, NoRpc
    <2>3. CASE Inspect(c)
      <3>1. rpc[c].hand = {} BY <1>3, <2>3 DEF Inspect, CallInv
      <3>2. [rpc[c] EXCEPT !.pc = "check"].hand = rpc[c].hand BY <1>3 DEF Rpc
      <3> QED BY <1>3, <2>3, <3>1, <3>2 DEF Inspect, NoRpc
    <2>4. CASE Refused(c)
      BY <1>3, <2>4 DEF Refused, CallInv, NoRpc
    <2> QED BY <2>1, <2>2, <2>3, <2>4
  <1>6. JoiningMessages' = JoiningMessages
    <2>1. \A d \in Callers : rpc'[d].hand = rpc[d].hand BY <1>4, <1>5
    <2> QED BY <2>1 DEF JoiningMessages
  <1> QED BY <1>1, <1>2, <1>6 DEF QueueStep, QueueSeen!queue

\* A message that joins: it is new, it takes the batch along, and all of it is
\* submitted where nothing waits.
LEMMA JoinRefines ==
  ASSUME IInv, IInv', dropped \subseteq accepted, NEW c \in Callers,
         Send(c) \/ Merge(c) \/ SubmitBatch(c)
  PROVE  QueueStep
  <1>0. /\ TypeOK /\ QueueInv /\ TurnInv /\ SubsInv /\ CallInv(rpc[c]) /\ rpc[c] \in Rpc
        /\ rpc \in [Callers -> Rpc]
    BY DEF IInv, QueueInv, RpcInv, TypeOK
  <1>1. UNCHANGED <<history, withdrawn, dropped>> BY DEF Send, Merge, SubmitBatch
  <1>2. CASE Send(c)
    <2>1. PICK m \in Queued \ accepted :
            rpc' = [rpc EXCEPT ![c] = [NoRpc EXCEPT !.pc = "list", !.msg = m, !.hand = {m}]]
      BY <1>2 DEF Send
    <2> DEFINE r == [NoRpc EXCEPT !.pc = "list", !.msg = m, !.hand = {m}]
    <2>2. r \in Rpc /\ r.hand = {m} BY DEF NoRpc, Rpc
    <2>3. ChainFree(c) /\ subs' = subs BY <1>2 DEF Send
    <2>4. JoiningMessages = rpc[c].hand /\ JoiningMessages' = {m}
      BY <1>0, <2>1, <2>2, <2>3, HandsSeen
    <2>5. rpc[c].hand = {} BY <1>0, <2>3 DEF CallInv, ChainFree
    <2>6. WaitingMessages' = WaitingMessages
      BY <1>1, <2>3 DEF WaitingMessages, Waiting, LiveSubs, Applied
    <2>7. m \notin WaitingMessages \cup JoiningMessages \cup history \cup withdrawn \cup dropped
      BY <1>0, <2>4, <2>5, BatchSeen DEF SubsInv, TypeOK
    <2>8. QueueSeen!Accepts(m)
      BY <1>1, <2>4, <2>5, <2>6, <2>7 DEF QueueSeen!Accepts, QueueSeen!Known
    <2> QED BY <2>8 DEF QueueStep, QueueSeen!Next
  <1>3. CASE Merge(c) /\ rpc[c].sub # 0 /\ ~Applied(rpc[c].sub)
    <2> DEFINE s == rpc[c].sub
               r == [rpc[c] EXCEPT !.pc = "submit", !.hand = @ \cup subs[s].msgs]
    <2>1. s \in DOMAIN subs /\ subs[s].queued /\ subs[s].status \in Live
      BY <1>0, <1>3 DEF CallInv, Merge
    <2>2. Waiting = {s} /\ Waiting' = {}
      BY <1>0, <1>1, <1>3, <2>1, CutQueue DEF Merge
    <2>3. rpc' = [rpc EXCEPT ![c] = r] BY <1>0, <1>3 DEF Merge
    <2>4. rpc'[c] = r BY <1>0, <2>3
    <2>5. r.hand = rpc[c].hand \cup subs[s].msgs BY <1>0 DEF Rpc
    <2> HIDE DEF r
    <2>6. r \in Rpc BY <2>4 DEF IInv, TypeOK
    <2>7. JoiningMessages = rpc[c].hand /\ JoiningMessages' = r.hand
      BY <1>0, <1>3, <2>3, <2>6, HandsSeen DEF Merge
    <2>8. WaitingMessages = subs[s].msgs BY <1>0, <2>2, BatchSeen
    <2>9. WaitingMessages' = {} BY <2>2 DEF WaitingMessages
    <2>10. rpc[c].hand # {} BY <1>0, <1>3 DEF CallInv, Merge
    <2>11. QueueSeen!TakesAlong
      BY <1>1, <2>5, <2>7, <2>8, <2>9, <2>10 DEF QueueSeen!TakesAlong
    <2> QED BY <2>11 DEF QueueStep, QueueSeen!Next
  <1>4. CASE Merge(c) /\ ~(rpc[c].sub # 0 /\ ~Applied(rpc[c].sub))
    <2> DEFINE r == [rpc[c] EXCEPT !.pc = "submit"]
    <2>1. rpc' = [rpc EXCEPT ![c] = r] /\ subs' = subs BY <1>0, <1>4 DEF Merge
    <2>2. r.hand = rpc[c].hand BY <1>0 DEF Rpc
    <2>3. rpc'[c] = r BY <1>0, <2>1
    <2> HIDE DEF r
    <2>4. r \in Rpc BY <2>3 DEF IInv, TypeOK
    <2>5. JoiningMessages' = JoiningMessages
      <3>1. rpc[c].pc # "idle" BY <1>4 DEF Merge
      <3>2. JoiningMessages = rpc[c].hand /\ JoiningMessages' = r.hand
        BY <1>0, <2>1, <2>4, <3>1, HandsSeen
      <3> QED BY <2>2, <3>2
    <2>6. WaitingMessages' = WaitingMessages
      BY <1>1, <2>1 DEF WaitingMessages, Waiting, LiveSubs, Applied
    <2> QED BY <1>1, <2>5, <2>6 DEF QueueStep, QueueSeen!queue
  <1>5. CASE SubmitBatch(c)
    <2>1. rpc' = [rpc EXCEPT ![c] = NoRpc] /\ rpc[c].pc = "submit" BY <1>5 DEF SubmitBatch
    <2>2. JoiningMessages = rpc[c].hand /\ JoiningMessages' = {}
      BY <1>0, <2>1, NoRpcType, HandsSeen DEF NoRpc
    <2>3. Waiting = {} /\ rpc[c].hand # {} /\ rpc[c].hand \cap history = {}
      BY <1>0, <2>1 DEF CallInv
    <2>4. WaitingMessages = {} BY <2>3 DEF WaitingMessages
    <2> DEFINE new == Len(subs) + 1
    <2>5. /\ DOMAIN subs' = DOMAIN subs \cup {new}
          /\ subs'[new] = [msgs |-> rpc[c].hand, queued |-> TRUE, status |-> "pending"]
      <3>1. rpc[c].hand \subseteq Messages BY <1>0, RpcFields DEF Messages
      <3> QED BY <1>0, <1>5, <3>1, SubmittedType DEF SubmitBatch
    <2> HIDE DEF new
    <2>6. new \in Waiting' /\ subs'[new].msgs = rpc[c].hand
      BY <1>1, <2>3, <2>5 DEF Waiting, LiveSubs, Live, Applied
    <2>7. \A i \in Waiting' : i = new BY <2>6 DEF IInv, QueueInv, OneWaiting
    <2>8. WaitingMessages' = rpc[c].hand BY <2>6, <2>7 DEF WaitingMessages
    <2>9. QueueSeen!Submits BY <1>1, <2>2, <2>3, <2>4, <2>8 DEF QueueSeen!Submits
    <2> QED BY <2>9 DEF QueueStep, QueueSeen!Next
  <1> QED BY <1>2, <1>3, <1>4, <1>5

\* A message that leaves: its cancel takes the batch apart.
LEMMA CancelRefines ==
  ASSUME IInv, IInv', NEW c \in Callers, Check(c)
  PROVE  QueueStep
  <1>0. /\ TypeOK /\ QueueInv /\ TurnInv /\ CallInv(rpc[c]) /\ rpc[c] \in Rpc
        /\ rpc \in [Callers -> Rpc]
    BY DEF IInv, QueueInv, RpcInv, TypeOK
  <1> DEFINE s == rpc[c].sub
             rest == subs[rpc[c].sub].msgs \ {rpc[c].msg}
             r == IF rest = {} THEN NoRpc ELSE [rpc[c] EXCEPT !.pc = "submit", !.hand = rest]
  <1>1. /\ s \in DOMAIN subs /\ subs[s].queued /\ ~Applied(s) /\ subs[s].status \in Live
        /\ rpc[c].msg \in subs[s].msgs /\ rpc[c].hand = {} /\ rpc[c].pc = "check"
    BY <1>0 DEF CallInv, Check
  <1>2. /\ subs' = Cancelled(s) /\ withdrawn' = withdrawn \cup {rpc[c].msg}
        /\ UNCHANGED <<history, accepted, dropped>>
    BY DEF Check
  <1>3. Waiting = {s} /\ Waiting' = {} BY <1>0, <1>1, <1>2, CutQueue
  <1>4. rpc' = [rpc EXCEPT ![c] = r] BY <1>0 DEF Check
  <1>5. r.hand = rest
    <2>1. [rpc[c] EXCEPT !.pc = "submit", !.hand = rest].hand = rest BY <1>0 DEF Rpc
    <2> QED BY <2>1 DEF NoRpc
  <1>6. rpc'[c] = r BY <1>0, <1>4
  <1> HIDE DEF r
  <1>7. r \in Rpc BY <1>6 DEF IInv, TypeOK
  <1>8. JoiningMessages = {} /\ JoiningMessages' = rest
    BY <1>0, <1>1, <1>4, <1>5, <1>7, HandsSeen
  <1>9. /\ WaitingMessages = subs[s].msgs /\ WaitingMessages' = {}
        /\ subs[s].msgs \subseteq Queued
    BY <1>0, <1>3, BatchSeen DEF WaitingMessages
  <1>10. rpc[c].msg \in Queued BY <1>1, <1>9
  <1>11. QueueSeen!Cancels(rpc[c].msg)
    BY <1>1, <1>2, <1>8, <1>9, <1>10 DEF QueueSeen!Cancels
  <1> QED BY <1>10, <1>11 DEF QueueStep, QueueSeen!Next

\* A call that dies takes what it had in hand.
LEMMA ThrowRefines ==
  ASSUME IInv, IInv', NEW c \in Callers, RpcThrows(c)
  PROVE  QueueStep
  <1>1. /\ UNCHANGED <<subs, history, withdrawn>> /\ rpc[c].pc # "idle"
        /\ dropped' = dropped \cup rpc[c].hand /\ rpc' = [rpc EXCEPT ![c] = NoRpc]
    BY DEF RpcThrows
  <1>2. JoiningMessages = rpc[c].hand /\ JoiningMessages' = {}
    BY <1>1, NoRpcType, HandsSeen DEF IInv, NoRpc
  <1>3. WaitingMessages' = WaitingMessages
    BY <1>1 DEF WaitingMessages, Waiting, LiveSubs, Applied
  <1>4. CASE rpc[c].hand = {}
    BY <1>1, <1>2, <1>3, <1>4 DEF QueueStep, QueueSeen!queue
  <1>5. CASE rpc[c].hand # {}
    <2>1. QueueSeen!Dies BY <1>1, <1>2, <1>3, <1>5 DEF QueueSeen!Dies
    <2> QED BY <2>1 DEF QueueStep, QueueSeen!Next
  <1> QED BY <1>4, <1>5

\* The steps that serve the injections, and those of the turn.
LEMMA OthersRefine ==
  ASSUME IInv, IInv',
         \/ \E m \in Injected : Deliver(m)
         \/ \E k \in Kickers : KickSubmit(k) \/ KickDelete(k) \/ KickThrows(k)
         \/ \E m \in Steers : CancelSteer(m)
         \/ \E i \in DOMAIN subs : ClaimSub(i) \/ StartTurn(i)
         \/ ChatTurn \/ StepPeek \/ StepPersist \/ StepDelete \/ TurnEnds \/ TurnDies \/ Flush
  PROVE  QueueStep
  <1>1. /\ rpc' = rpc /\ dropped' = dropped
        /\ withdrawn' = withdrawn \/ \E m \in Steers : withdrawn' = withdrawn \cup {m}
    BY DEF Deliver, KickSubmit, KickDelete, KickThrows, CancelSteer, ClaimSub, StartTurn,
           ChatTurn, StepPeek, StepPersist, StepDelete, TurnEnds, TurnDies, Flush
  <1>2. withdrawn' \cap Queued = withdrawn \cap Queued
    BY <1>1, KindsAssumption DEF Injected
  <1>3. ASSUME NEW k \in Kickers, KickSubmit(k) PROVE Moved
    <2>1. kicks[k].msgs \subseteq Injected BY DEF IInv, TypeOK, Kick
    <2>2. /\ DOMAIN subs' = DOMAIN subs \cup {Len(subs) + 1} /\ Len(subs) + 1 \notin DOMAIN subs
          /\ \A i \in DOMAIN subs : subs'[i] = subs[i]
          /\ subs'[Len(subs) + 1] =
               [msgs |-> kicks[k].msgs, queued |-> FALSE, status |-> "pending"]
      <3>1. kicks[k].msgs \subseteq Messages BY <2>1 DEF Messages
      <3> QED BY <1>3, <3>1, SubmittedType DEF IInv, KickSubmit
    <2>3. history' = history BY <1>3 DEF KickSubmit
    <2> QED BY <2>1, <2>2, <2>3 DEF Moved, Live
  <1>4. CASE \/ \E m \in Injected : Deliver(m)
             \/ \E k \in Kickers : KickDelete(k) \/ KickThrows(k)
             \/ \E m \in Steers : CancelSteer(m)
    <2>1. UNCHANGED <<subs, history>>
      BY <1>4 DEF Deliver, KickDelete, KickThrows, CancelSteer
    <2>2. Moved BY <2>1 DEF Moved
    <2> QED BY <1>1, <1>2, <2>2, MovedRefines DEF IInv
  <1> QED BY <1>1, <1>2, <1>3, <1>4, TurnMoves, MovedRefines DEF IInv

\* submitQueuedUserMessage and cancelQueuedUserMessage list, look, cancel and submit
\* across awaits while turns start, end and die; what the users see is one batch
\* that runs, or is taken apart, as a whole.
THEOREM QueueContractKept == Spec => KeepsQueueContract
  <1>1. Init => QueueSeen!Init
    <2> SUFFICES ASSUME Init
                 PROVE  /\ WaitingMessages = {} /\ JoiningMessages = {}
                        /\ history \cap Queued = {} /\ withdrawn \cap Queued = {} /\ dropped = {}
      BY DEF QueueSeen!Init
    <2>1. Waiting = {} BY DEF Init, Waiting, LiveSubs
    <2>2. \A c \in Callers : rpc[c].hand = {} BY DEF Init, NoRpc
    <2> QED BY <2>1, <2>2 DEF Init, WaitingMessages, JoiningMessages
  <1>2. IInv /\ dropped \subseteq accepted /\ [Next]_vars => QueueStep
    <2> SUFFICES ASSUME IInv, dropped \subseteq accepted, [Next]_vars PROVE QueueStep
      OBVIOUS
    <2>1. IInv' BY NextIInv
    <2>2. CASE UNCHANGED vars
      BY <2>2 DEF vars, QueueStep, QueueSeen!queue, WaitingMessages, JoiningMessages, Waiting,
                  LiveSubs, Applied
    <2>3. CASE Next
      BY <2>1, <2>3, LookRefines, JoinRefines, CancelRefines, ThrowRefines, OthersRefine,
         CrashRefines
      DEF Next, Continues
    <2> QED BY <2>2, <2>3
  <1> QED
    BY <1>1, <1>2, Inductive, DroppedAccepted, PTL
    DEF Spec, KeepsQueueContract, QueueSeen!Spec, QueueStep

\* The steps of the contract alone keep its places apart.
LEMMA ContractKeepsApart ==
  ASSUME QueueSeen!Apart, QueueStep
  PROVE  QueueSeen!Apart'
  <1>1. CASE UNCHANGED QueueSeen!queue
    BY <1>1 DEF QueueSeen!queue, QueueSeen!Apart
  <1>2. ASSUME NEW m \in Queued, QueueSeen!Accepts(m) PROVE QueueSeen!Apart'
    BY <1>2 DEF QueueSeen!Accepts, QueueSeen!Known, QueueSeen!Apart
  <1>3. ASSUME NEW m \in Queued, QueueSeen!Cancels(m) PROVE QueueSeen!Apart'
    BY <1>3 DEF QueueSeen!Cancels, QueueSeen!Apart
  <1>4. CASE QueueSeen!TakesAlong \/ QueueSeen!Submits
    BY <1>4 DEF QueueSeen!TakesAlong, QueueSeen!Submits, QueueSeen!Apart
  <1>5. CASE QueueSeen!Runs
    BY <1>5 DEF QueueSeen!Runs, QueueSeen!Apart
  <1>6. CASE QueueSeen!Dies
    BY <1>6 DEF QueueSeen!Dies, QueueSeen!Apart
  <1> QED BY <1>1, <1>2, <1>3, <1>4, <1>5, <1>6 DEF QueueStep, QueueSeen!Next

\* Every message the user queued is in exactly one place: it waits, a call has it in
\* hand, it is in the transcript, its cancel was acknowledged, or its call died.
EachInOnePlace ==
  QueueSeen!Apart /\ QueueSeen!Known = Queued \cap accepted

\* So a message whose call died does not come back, and none is forgotten.
THEOREM EachMessageInOnePlace == Spec => []EachInOnePlace
  <1>1. QueueSeen!Init => QueueSeen!Apart BY DEF QueueSeen!Init, QueueSeen!Apart
  <1>2. QueueSeen!Apart /\ QueueStep => QueueSeen!Apart' BY ContractKeepsApart
  <1>3. Spec => []QueueSeen!Apart
    BY <1>1, <1>2, QueueContractKept, PTL DEF KeepsQueueContract, QueueSeen!Spec, QueueStep
  <1>4. IInv /\ dropped \subseteq accepted => QueueSeen!Known = Queued \cap accepted
    <2> SUFFICES ASSUME IInv, dropped \subseteq accepted
                 PROVE  QueueSeen!Known = Queued \cap accepted
      OBVIOUS
    <2>1. /\ WaitingMessages \subseteq Queued \cap accepted
          /\ history \cap Queued \subseteq accepted /\ withdrawn \subseteq accepted
          /\ dropped \subseteq Queued
      BY BatchSeen DEF IInv, QueueInv, SubsInv, TypeOK
    <2>2. JoiningMessages \subseteq Queued \cap accepted
      <3>1. \A c \in Callers : rpc[c].hand \subseteq Queued \cap accepted
        BY RpcFields DEF IInv, QueueInv, RpcInv, CallInv
      <3> QED BY <3>1 DEF JoiningMessages
    <2>3. ASSUME NEW m \in Queued \cap accepted
          PROVE  m \in history \cup withdrawn \cup dropped \cup WaitingMessages \cup JoiningMessages
      BY DEF IInv, QueueInv, Kept, WaitingMessages, JoiningMessages
    <2> QED BY <2>1, <2>2, <2>3 DEF QueueSeen!Known
  <1> QED BY <1>3, <1>4, Inductive, DroppedAccepted, PTL DEF EachInOnePlace
===============================================================================
