------------------------- MODULE ContainerQuotaProofs -------------------------
(***************************************************************************)
(* The workspace cap holds for any number of threads, any limit and any    *)
(* lease, as long as no statement runs a whole lease after the instant it  *)
(* carries (QuotaConstants).                                               *)
(*                                                                         *)
(* The cap alone is not inductive: the conditional insert counts only the  *)
(* rows that are unexpired at its instant, and a refresh may bring an      *)
(* expired row back afterwards.  What closes the gap is                    *)
(* PrunedBeforeInsert: at the insert there is no row it does not count.    *)
(***************************************************************************)
EXTENDS ContainerQuota, FiniteSetTheorems, TLAPS

\* The loop over candidates is entered with a candidate.
HasCandidate ==
    \A t \in Threads : op[t].pc \in {"ask", "wait", "drop"} => op[t].candidates # <<>>

IInv == TypeOK /\ HasCandidate /\ PrunedBeforeInsert /\ CapHolds

-------------------------------------------------------------------------------
(* What an operation holds.                                                *)

LEMMA NoOpType == NoOp \in Operation
  BY QuotaConstants DEF NoOp, Operation, OpPc, Stage

LEMMA BeginType ==
    ASSUME TypeOK, NEW t \in Threads, NEW pc \in OpPc, NEW stage \in Stage
    PROVE  /\ Begin(t, pc, stage) \in Operation
           /\ Begin(t, pc, stage).pc = pc
           /\ Begin(t, pc, stage).candidates = op[t].candidates
  <1>1. op[t] \in Operation
    BY DEF TypeOK
  <1>2. 0 \in 0..MaxDelay
    BY QuotaConstants
  <1> QED BY <1>1, <1>2 DEF Begin, Operation

LEMMA NextCandidateType ==
    ASSUME TypeOK, NEW t \in Threads, NEW left \in Seq(Threads)
    PROVE  LET o == NextCandidate(t, left)
           IN  /\ o \in Operation
               /\ o.pc \in {"ask", "prune"}
               /\ o.pc = "ask" => o.candidates # <<>>
  <1>1. CASE left = <<>>
    <2>1. Begin(t, "prune", "last") \in Operation
      BY BeginType DEF OpPc, StatementPc, Stage
    <2> QED BY <1>1, <2>1 DEF NextCandidate, Begin, Operation, TypeOK
  <1>2. CASE left # <<>>
    <2>1. Begin(t, "ask", "retry") \in Operation
      BY BeginType DEF OpPc, StatementPc, Stage
    <2> QED BY <1>2, <2>1 DEF NextCandidate, Begin, Operation, TypeOK
  <1> QED BY <1>1, <1>2

LEMMA AnsweredType ==
    ASSUME TypeOK, NEW t \in Threads, NEW held \in BOOLEAN
    PROVE  LET o == Answered(t, held)
           IN  /\ o \in Operation
               /\ o.pc \in {"ask", "prune", "list", "acquire", "idle"}
               /\ o.pc = "ask" => o.candidates # <<>>
               /\ o.pc = "acquire" => held
  <1>1. op[t] \in Operation
    BY DEF TypeOK
  <1>2. op[t].candidates \in Seq(Threads) /\ op[t].stage \in Stage
    BY <1>1 DEF Operation
  <1>3. CASE op[t].stage = "retry" /\ ~held
    BY <1>2, <1>3, NextCandidateType DEF Answered
  <1>4. CASE op[t].stage = "first" /\ ~held
    BY <1>1, <1>4 DEF Answered, Operation, OpPc, StatementPc
  <1>5. CASE op[t].stage = "refresh" \/ (op[t].stage = "last" /\ ~held)
    BY <1>5, NoOpType DEF Answered, NoOp
  <1>6. CASE op[t].stage # "refresh" /\ held
    <2>1. [NoOp EXCEPT !.pc = "acquire"] \in Operation
      BY NoOpType DEF Operation, OpPc
    <2> QED BY <1>6, <2>1 DEF Answered, NoOp
  <1> QED BY <1>2, <1>3, <1>4, <1>5, <1>6 DEF Stage

LEMMA FirstOfType ==
    ASSUME NEW S \in SUBSET Threads, NEW s \in LruOrders(S), NEW n \in Nat, IsFiniteSet(S)
    PROVE  FirstOf(s, n) \in Seq(Threads)
  <1>1. Cardinality(S) \in Nat
    BY FS_CardinalityType
  <1>2. s \in [1..Cardinality(S) -> S]
    BY DEF LruOrders
  <1>3. s \in Seq(Threads) /\ Len(s) \in Nat
    BY <1>1, <1>2
  <1> QED BY <1>3 DEF FirstOf

-------------------------------------------------------------------------------
(* The table.                                                              *)

LEMMA WithoutType ==
    ASSUME TypeOK, NEW S
    PROVE  /\ DOMAIN Without(S) = DOMAIN rows \ S
           /\ Without(S) \in [DOMAIN rows \ S -> Int]
           /\ \A t \in DOMAIN rows \ S : Without(S)[t] = rows[t]
  BY DEF Without, TypeOK

LEMMA WrittenType ==
    ASSUME TypeOK, NEW t \in Threads, NEW age \in 0..MaxDelay
    PROVE  /\ DOMAIN Written(t, age) = DOMAIN rows \cup {t}
           /\ Written(t, age) \in [DOMAIN rows \cup {t} -> Int]
           /\ Written(t, age)[t] = Ttl - age
           /\ \A u \in DOMAIN rows : u # t => Written(t, age)[u] = rows[u]
  BY QuotaConstants DEF Written, TypeOK

\* A table of fewer rows is within the cap when the fuller one is.
LEMMA FewerRows ==
    ASSUME TypeOK, CapHolds, DOMAIN rows' \subseteq DOMAIN rows
    PROVE  CapHolds'
  <1>1. IsFiniteSet(DOMAIN rows)
    BY QuotaConstants, FS_Subset DEF TypeOK
  <1>2. /\ IsFiniteSet(DOMAIN rows')
        /\ Cardinality(DOMAIN rows') <= Cardinality(DOMAIN rows)
    BY <1>1, FS_Subset
  <1>3. Cardinality(DOMAIN rows') \in Nat /\ Cardinality(DOMAIN rows) \in Nat
    BY <1>1, <1>2, FS_CardinalityType
  <1> QED BY <1>2, <1>3, QuotaConstants DEF CapHolds

\* At the insert every row counts.
LEMMA AllCounted ==
    ASSUME TypeOK, PrunedBeforeInsert, NEW t \in Threads, op[t].pc = "insert"
    PROVE  Unexpired(op[t].age) = DOMAIN rows
  BY DEF Unexpired, PrunedBeforeInsert

-------------------------------------------------------------------------------
LEMMA InitIInv == Init => IInv
  <1> SUFFICES ASSUME Init PROVE IInv
    OBVIOUS
  <1>1. DOMAIN rows = {}
    BY DEF Init
  <1>2. TypeOK
    <2>1. rows \in [DOMAIN rows -> Int]
      BY <1>1 DEF Init
    <2> QED BY <1>1, <2>1, NoOpType DEF Init, TypeOK, EnvStatus, RpcPc
  <1>3. HasCandidate /\ PrunedBeforeInsert
    BY DEF Init, HasCandidate, PrunedBeforeInsert, NoOp
  <1>4. CapHolds
    BY <1>1, FS_EmptySet, QuotaConstants DEF CapHolds
  <1> QED BY <1>2, <1>3, <1>4 DEF IInv
-------------------------------------------------------------------------------
(* One step of the gate: what it does to the table and to its operation.   *)

LEMMA StepType ==
    ASSUME IInv, NEW t \in Threads, OpStep(t)
    PROVE  TypeOK' /\ HasCandidate'
  <1> USE DEF IInv
  <1>1. op[t] \in Operation /\ op[t].age \in 0..MaxDelay /\ op[t].candidates \in Seq(Threads)
    BY DEF TypeOK, Operation
  <1>2. ASSUME NEW o \in Operation, op' = [op EXCEPT ![t] = o],
               o.pc \in {"ask", "wait", "drop"} => o.candidates # <<>>
        PROVE  op' \in [Threads -> Operation] /\ HasCandidate'
    BY <1>2 DEF TypeOK, HasCandidate
  <1>3. ASSUME NEW S, rows' = Without(S)
        PROVE  DOMAIN rows' \subseteq Threads /\ rows' \in [DOMAIN rows' -> Int]
    <2>1. DOMAIN rows' = DOMAIN rows \ S /\ rows' \in [DOMAIN rows \ S -> Int]
      BY <1>3, WithoutType
    <2>2. DOMAIN rows' \subseteq Threads
      BY <2>1 DEF TypeOK
    <2>3. rows' \in [DOMAIN rows' -> Int]
      BY <2>1
    <2> QED BY <2>2, <2>3
  <1>4. ASSUME rows' = Written(t, op[t].age)
        PROVE  DOMAIN rows' \subseteq Threads /\ rows' \in [DOMAIN rows' -> Int]
    <2>1. /\ DOMAIN rows' = DOMAIN rows \cup {t}
          /\ rows' \in [DOMAIN rows \cup {t} -> Int]
      BY <1>1, <1>4, WrittenType
    <2>2. DOMAIN rows' \subseteq Threads
      BY <2>1 DEF TypeOK
    <2>3. rows' \in [DOMAIN rows' -> Int]
      BY <2>1
    <2> QED BY <2>2, <2>3
  <1>5. ASSUME NEW pc \in OpPc \ {"ask", "wait", "drop"}
        PROVE  /\ [op[t] EXCEPT !.pc = pc] \in Operation
               /\ [op[t] EXCEPT !.pc = pc].pc = pc
    BY <1>1 DEF Operation
  <1>20. ASSUME NEW held \in BOOLEAN, op' = [op EXCEPT ![t] = Answered(t, held)]
         PROVE  op' \in [Threads -> Operation] /\ HasCandidate'
    <2>1. /\ Answered(t, held) \in Operation
          /\ Answered(t, held).pc \in {"ask", "prune", "list", "acquire", "idle"}
          /\ Answered(t, held).pc = "ask" => Answered(t, held).candidates # <<>>
      BY AnsweredType
    <2> QED BY <1>2, <1>20, <2>1
  <1>6. CASE Prune(t)
    <2>1. op' = [op EXCEPT ![t] = [op[t] EXCEPT !.pc = "insert"]]
      BY <1>6 DEF Prune
    <2>2. op' \in [Threads -> Operation] /\ HasCandidate'
      BY <1>2, <1>5, <2>1 DEF OpPc, StatementPc
    <2> QED BY <1>3, <1>6, <2>2 DEF Prune, TypeOK
  <1>7. CASE Insert(t)
    <2> DEFINE free == Cardinality(Unexpired(op[t].age) \ {t}) < Limit
    <2>1. op' \in [Threads -> Operation] /\ HasCandidate'
      <3>1. CASE op' = [op EXCEPT ![t] = Answered(t, free)]
        <4>1. free \in BOOLEAN
          OBVIOUS
        <4> HIDE DEF free
        <4> QED BY <1>20, <3>1, <4>1
      <3>2. CASE op' = [op EXCEPT ![t] = [op[t] EXCEPT !.pc = "confirm"]]
        BY <1>2, <1>5, <3>2 DEF OpPc, StatementPc
      <3> QED BY <1>7, <3>1, <3>2 DEF Insert
    <2> QED BY <1>4, <1>7, <2>1 DEF Insert, TypeOK
  <1>8. CASE Confirm(t)
    <2>1. op' \in [Threads -> Operation] /\ HasCandidate'
      <3>1. (t \in Unexpired(op[t].age)) \in BOOLEAN
        OBVIOUS
      <3>2. op' = [op EXCEPT ![t] = Answered(t, t \in Unexpired(op[t].age))]
        BY <1>8 DEF Confirm
      <3> QED BY <1>20, <3>1, <3>2
    <2> QED BY <1>8, <2>1 DEF Confirm, TypeOK
  <1>9. CASE ListCandidates(t)
    <2>1. PICK s \in LruOrders(Unexpired(op[t].age) \ {t}) :
             op' = [op EXCEPT ![t] = NextCandidate(t, FirstOf(s, MaxAttempts))]
      BY <1>9 DEF ListCandidates
    <2>2. Unexpired(op[t].age) \ {t} \in SUBSET Threads
      BY DEF Unexpired, TypeOK
    <2>3. IsFiniteSet(Unexpired(op[t].age) \ {t})
      BY <2>2, FS_Subset, QuotaConstants
    <2>4. FirstOf(s, MaxAttempts) \in Seq(Threads)
      BY <2>2, <2>3, FirstOfType, QuotaConstants
    <2>5. op' \in [Threads -> Operation] /\ HasCandidate'
      BY <1>2, <2>1, <2>4, NextCandidateType
    <2> QED BY <1>9, <2>5 DEF ListCandidates, TypeOK
  <1>10. CASE Ask(t)
    <2>1. [op[t] EXCEPT !.pc = "wait"] \in Operation
      BY <1>1 DEF Operation, OpPc
    <2>2. op[t].candidates # <<>>
      BY <1>10 DEF Ask, HasCandidate
    <2>3. op' = [op EXCEPT ![t] = [op[t] EXCEPT !.pc = "wait"]]
      BY <1>10 DEF Ask
    <2>4. op' \in [Threads -> Operation] /\ HasCandidate'
      BY <1>1, <1>2, <2>1, <2>2, <2>3 DEF Operation
    <2> QED BY <1>10, <2>4 DEF Ask, TypeOK, RpcPc
  <1>11. CASE ToldYes(t)
    <2>1. [op[t] EXCEPT !.pc = "drop"] \in Operation
      BY <1>1 DEF Operation, OpPc
    <2>2. op[t].candidates # <<>>
      BY <1>11 DEF ToldYes, HasCandidate
    <2>3. op' = [op EXCEPT ![t] = [op[t] EXCEPT !.pc = "drop"]]
      BY <1>11 DEF ToldYes
    <2>4. op' \in [Threads -> Operation] /\ HasCandidate'
      BY <1>1, <1>2, <2>1, <2>2, <2>3 DEF Operation
    <2> QED BY <1>11, <2>4 DEF ToldYes, TypeOK, RpcPc
  <1>12. CASE ToldNo(t)
    <2>1. op[t].candidates # <<>>
      BY <1>12 DEF ToldNo, HasCandidate
    <2>2. Tail(op[t].candidates) \in Seq(Threads)
      BY <1>1, <2>1
    <2>3. op' \in [Threads -> Operation] /\ HasCandidate'
      BY <1>2, <1>12, <2>2, NextCandidateType DEF ToldNo
    <2> QED BY <1>12, <2>3 DEF ToldNo, TypeOK, RpcPc
  <1>13. CASE DropCandidate(t)
    <2> DEFINE o == [Begin(t, "prune", "retry") EXCEPT !.candidates = Tail(op[t].candidates)]
    <2>1. op[t].candidates # <<>>
      BY <1>13 DEF DropCandidate, HasCandidate
    <2>2. Tail(op[t].candidates) \in Seq(Threads)
      BY <1>1, <2>1
    <2>3. Begin(t, "prune", "retry") \in Operation /\ Begin(t, "prune", "retry").pc = "prune"
      BY BeginType DEF OpPc, StatementPc, Stage
    <2>4. o \in Operation /\ o.pc = "prune"
      BY <2>2, <2>3 DEF Operation
    <2>5. op' \in [Threads -> Operation] /\ HasCandidate'
      BY <1>2, <1>13, <2>4 DEF DropCandidate
    <2> QED BY <1>3, <1>13, <2>5 DEF DropCandidate, TypeOK
  <1>14. CASE UpdateRow(t)
    <2>1. op' = [op EXCEPT ![t] = [op[t] EXCEPT !.pc = "holds"]]
      BY <1>14 DEF UpdateRow
    <2>2. op' \in [Threads -> Operation] /\ HasCandidate'
      BY <1>2, <1>5, <2>1 DEF OpPc, StatementPc
    <2> QED BY <1>4, <1>14, <2>2 DEF UpdateRow, TypeOK
  <1>15. CASE HoldsSlot(t)
    <2>1. \/ op' = [op EXCEPT ![t] = NoOp]
          \/ op' = [op EXCEPT ![t] = [op[t] EXCEPT !.pc = "prune"]]
      BY <1>15 DEF HoldsSlot
    <2>2. NoOp.pc = "idle"
      BY DEF NoOp
    <2>3. op' \in [Threads -> Operation] /\ HasCandidate'
      BY <1>2, <1>5, <2>1, <2>2, NoOpType DEF OpPc, StatementPc
    <2> QED BY <1>15, <2>3 DEF HoldsSlot, TypeOK
  <1>16. CASE Acquired(t)
    <2>1. /\ Begin(t, "update", "refresh") \in Operation
          /\ Begin(t, "update", "refresh").pc = "update"
      BY BeginType DEF OpPc, StatementPc, Stage
    <2>2. op' \in [Threads -> Operation] /\ HasCandidate'
      BY <1>2, <1>16, <2>1 DEF Acquired
    <2> QED BY <1>16, <2>2 DEF Acquired, TypeOK, EnvStatus
  <1>17. CASE AcquireFails(t)
    <2>1. op' = [op EXCEPT ![t] = [op[t] EXCEPT !.pc = "undo"]]
      BY <1>17 DEF AcquireFails
    <2>2. op' \in [Threads -> Operation] /\ HasCandidate'
      BY <1>2, <1>5, <2>1 DEF OpPc, StatementPc
    <2> QED BY <1>17, <2>2 DEF AcquireFails, TypeOK
  <1>18. CASE Undo(t)
    <2>1. op' \in [Threads -> Operation] /\ HasCandidate'
      BY <1>2, <1>18, NoOpType DEF Undo, NoOp
    <2> QED BY <1>3, <1>18, <2>1 DEF Undo, TypeOK
  <1> QED BY <1>6, <1>7, <1>8, <1>9, <1>10, <1>11, <1>12, <1>13, <1>14, <1>15,
             <1>16, <1>17, <1>18 DEF OpStep

\* The steps that begin, break or answer something, and time.
LEMMA OtherType ==
    ASSUME IInv,
           \/ \E t \in Threads : \/ StartAdmit(t) \/ StartRefresh(t)
                                 \/ EvictIdle(t) \/ Crash(t)
           \/ \E a, t \in Threads : RpcStep(a, t)
           \/ Tick
    PROVE  TypeOK' /\ HasCandidate'
  <1> USE DEF IInv
  <1>1. ASSUME NEW t \in Threads, NEW o \in Operation, op' = [op EXCEPT ![t] = o],
               o.pc \notin {"ask", "wait", "drop"}
        PROVE  op' \in [Threads -> Operation] /\ HasCandidate'
    BY <1>1 DEF TypeOK, HasCandidate
  <1>2. ASSUME NEW t \in Threads, StartAdmit(t) PROVE TypeOK' /\ HasCandidate'
    <2>1. /\ Begin(t, "prune", "first") \in Operation
          /\ Begin(t, "prune", "first").pc = "prune"
      BY BeginType DEF OpPc, StatementPc, Stage
    <2>2. op' \in [Threads -> Operation] /\ HasCandidate'
      BY <1>1, <1>2, <2>1 DEF StartAdmit
    <2> QED BY <1>2, <2>2 DEF StartAdmit, TypeOK
  <1>3. ASSUME NEW t \in Threads, StartRefresh(t) PROVE TypeOK' /\ HasCandidate'
    <2>1. /\ Begin(t, "update", "refresh") \in Operation
          /\ Begin(t, "update", "refresh").pc = "update"
      BY BeginType DEF OpPc, StatementPc, Stage
    <2>2. op' \in [Threads -> Operation] /\ HasCandidate'
      BY <1>1, <1>3, <2>1 DEF StartRefresh
    <2> QED BY <1>3, <2>2 DEF StartRefresh, TypeOK
  <1>4. ASSUME NEW t \in Threads, EvictIdle(t) PROVE TypeOK' /\ HasCandidate'
    BY <1>4 DEF EvictIdle, TypeOK, HasCandidate, EnvStatus, RpcPc
  <1>5. ASSUME NEW t \in Threads, Crash(t) PROVE TypeOK' /\ HasCandidate'
    <2>1. op' \in [Threads -> Operation] /\ HasCandidate'
      BY <1>1, <1>5, NoOpType DEF Crash, NoOp
    <2>2. rpc' \in [Threads \X Threads -> RpcPc]
      BY <1>5 DEF Crash, TypeOK, RpcPc
    <2> QED BY <1>5, <2>1, <2>2 DEF Crash, TypeOK
  <1>6. ASSUME NEW a \in Threads, NEW t \in Threads, RpcStep(a, t)
        PROVE  TypeOK' /\ HasCandidate'
    <2>1. ASSUME NEW used \in BOOLEAN, CheckUse(a, t, used) PROVE TypeOK' /\ HasCandidate'
      BY <2>1 DEF CheckUse, TypeOK, HasCandidate, EnvStatus, RpcPc
    <2>2. CASE Released(a, t)
      BY <2>2 DEF Released, TypeOK, HasCandidate, EnvStatus, RpcPc
    <2>3. CASE ReleaseFails(a, t)
      BY <2>3 DEF ReleaseFails, TypeOK, HasCandidate, EnvStatus, RpcPc
    <2>4. ASSUME NEW freed \in BOOLEAN, FreeRow(a, t, freed) PROVE TypeOK' /\ HasCandidate'
      <3>1. rows' = Without({t}) \/ rows' = rows
        BY <2>4 DEF FreeRow
      <3>2. DOMAIN rows' \subseteq Threads /\ rows' \in [DOMAIN rows' -> Int]
        <4>1. CASE rows' = rows
          BY <4>1 DEF TypeOK
        <4>2. CASE rows' = Without({t})
          <5>1. /\ DOMAIN rows' = DOMAIN rows \ {t}
                /\ rows' \in [DOMAIN rows \ {t} -> Int]
            BY <4>2, WithoutType
          <5>2. DOMAIN rows' \subseteq Threads
            BY <5>1 DEF TypeOK
          <5>3. rows' \in [DOMAIN rows' -> Int]
            BY <5>1
          <5> QED BY <5>2, <5>3
        <4> QED BY <3>1, <4>1, <4>2
      <3>3. rpc' \in [Threads \X Threads -> RpcPc]
        BY <2>4 DEF FreeRow, TypeOK, RpcPc
      <3> QED BY <2>4, <3>2, <3>3 DEF FreeRow, TypeOK, HasCandidate
    <2> QED BY <1>6, <2>1, <2>2, <2>3, <2>4 DEF RpcStep
  <1>7. ASSUME Tick PROVE TypeOK' /\ HasCandidate'
    <2>1. DOMAIN rows' = DOMAIN rows /\ rows' \in [DOMAIN rows -> Int]
      BY <1>7, QuotaConstants DEF Tick, TypeOK
    <2>2. ASSUME NEW t \in Threads
          PROVE  op'[t] \in Operation /\ op'[t].pc = op[t].pc
                 /\ op'[t].candidates = op[t].candidates
      <3>1. op[t] \in Operation
        BY DEF TypeOK
      <3>2. CASE op[t].pc \in StatementPc
        <4>1. op[t].age + 1 \in 0..MaxDelay
          BY <1>7, <3>1, <3>2, QuotaConstants DEF Tick, Operation
        <4>2. op'[t] = [op[t] EXCEPT !.age = @ + 1]
          BY <1>7, <3>2 DEF Tick
        <4> QED BY <3>1, <4>1, <4>2 DEF Operation
      <3>3. CASE op[t].pc \notin StatementPc
        BY <1>7, <3>1, <3>3 DEF Tick
      <3> QED BY <3>2, <3>3
    <2>3. op' \in [Threads -> Operation]
      BY <1>7, <2>2 DEF Tick
    <2>4. HasCandidate'
      BY <2>2 DEF HasCandidate
    <2>5. DOMAIN rows' \subseteq Threads
      BY <2>1 DEF TypeOK
    <2>6. rows' \in [DOMAIN rows' -> Int]
      BY <2>1
    <2> QED BY <1>7, <2>3, <2>4, <2>5, <2>6 DEF Tick, TypeOK
  <1> QED BY <1>2, <1>3, <1>4, <1>5, <1>6, <1>7

-------------------------------------------------------------------------------
(* The cap, and what the conditional insert may rely on.                   *)

\* A step that at most deletes rows, and brings nobody to an insert.
LEMMA RowsOnlyLost ==
    ASSUME IInv,
           rows' = rows \/ \E S : rows' = Without(S),
           \A t \in Threads :
              op'[t].pc = "insert" => op[t].pc = "insert" /\ op'[t].age = op[t].age
    PROVE  CapHolds' /\ PrunedBeforeInsert'
  <1> USE DEF IInv
  <1>1. /\ DOMAIN rows' \subseteq DOMAIN rows
        /\ \A u \in DOMAIN rows' : rows'[u] = rows[u]
    <2>1. CASE rows' = rows
      BY <2>1
    <2>2. CASE \E S : rows' = Without(S)
      <3>1. PICK S : rows' = Without(S)
        BY <2>2
      <3>2. /\ DOMAIN rows' = DOMAIN rows \ S
            /\ \A u \in DOMAIN rows \ S : rows'[u] = rows[u]
        BY <3>1, WithoutType
      <3> QED BY <3>2
    <2> QED BY <2>1, <2>2
  <1>2. CapHolds'
    BY <1>1, FewerRows
  <1>3. PrunedBeforeInsert'
    BY <1>1 DEF PrunedBeforeInsert
  <1> QED BY <1>2, <1>3

\* A row written by an operation: it counts for every insert under way.
LEMMA WrittenCounts ==
    ASSUME IInv, NEW t \in Threads, rows' = Written(t, op[t].age),
           \A u \in Threads :
              op'[u].pc = "insert" => op[u].pc = "insert" /\ op'[u].age = op[u].age
    PROVE  PrunedBeforeInsert'
  <1> USE DEF IInv
  <1>1. \A u \in Threads : op[u].age \in 0..MaxDelay
    BY DEF TypeOK, Operation
  <1>2. /\ DOMAIN rows' = DOMAIN rows \cup {t}
        /\ rows'[t] = Ttl - op[t].age
        /\ \A u \in DOMAIN rows : u # t => rows'[u] = rows[u]
    BY <1>1, WrittenType
  <1> SUFFICES ASSUME NEW u \in Threads, op'[u].pc = "insert", NEW w \in DOMAIN rows'
               PROVE  rows'[w] > -op'[u].age
    BY DEF PrunedBeforeInsert
  <1>3. op[u].pc = "insert" /\ op'[u].age = op[u].age
    OBVIOUS
  <1>4. CASE w = t
    <2>1. Ttl - op[t].age > 0 /\ -op[u].age <= 0
      BY <1>1, QuotaConstants
    <2>2. Ttl - op[t].age > -op[u].age
      BY <1>1, <2>1, QuotaConstants
    <2> QED BY <1>2, <1>3, <1>4, <2>2
  <1>5. CASE w # t
    BY <1>2, <1>3, <1>5 DEF PrunedBeforeInsert
  <1> QED BY <1>4, <1>5

LEMMA StepCap ==
    ASSUME IInv, NEW t \in Threads, OpStep(t)
    PROVE  CapHolds' /\ PrunedBeforeInsert'
  <1> USE DEF IInv
  <1>1. op[t] \in Operation /\ op[t].age \in 0..MaxDelay /\ op[t].candidates \in Seq(Threads)
    BY DEF TypeOK, Operation
  <1>2. ASSUME NEW o, op' = [op EXCEPT ![t] = o], o.pc # "insert"
        PROVE  \A u \in Threads :
                  op'[u].pc = "insert" => op[u].pc = "insert" /\ op'[u].age = op[u].age
    BY <1>2 DEF TypeOK
  <1>3. ASSUME NEW o, op' = [op EXCEPT ![t] = o], o.pc # "insert",
               rows' = rows \/ \E S : rows' = Without(S)
        PROVE  CapHolds' /\ PrunedBeforeInsert'
    BY <1>2, <1>3, RowsOnlyLost
  <1>4. ASSUME NEW pc \in OpPc
        PROVE  [op[t] EXCEPT !.pc = pc].pc = pc
    BY <1>1 DEF Operation
  <1>5. ASSUME NEW held \in BOOLEAN
        PROVE  Answered(t, held).pc # "insert"
    BY AnsweredType
  <1>6. CASE Prune(t)
    <2>1. DOMAIN rows' = Unexpired(op[t].age) /\ \A u \in DOMAIN rows' : rows'[u] = rows[u]
      <3>1. Unexpired(op[t].age) = DOMAIN rows \ (DOMAIN rows \ Unexpired(op[t].age))
        BY DEF Unexpired
      <3> DEFINE S == DOMAIN rows \ Unexpired(op[t].age)
      <3>2. rows' = Without(S)
        BY <1>6 DEF Prune
      <3> HIDE DEF S
      <3>3. /\ DOMAIN rows' = DOMAIN rows \ S
            /\ \A u \in DOMAIN rows \ S : rows'[u] = rows[u]
        BY <3>2, WithoutType
      <3> QED BY <3>1, <3>3 DEF S
    <2>2. DOMAIN rows' \subseteq DOMAIN rows
      BY <2>1 DEF Unexpired
    <2>3. op'[t].age = op[t].age
      BY <1>1, <1>6 DEF Prune, TypeOK, Operation
    <2>4. \A u \in Threads \ {t} : op'[u] = op[u]
      BY <1>6 DEF Prune, TypeOK
    <2>5. PrunedBeforeInsert'
      <3> SUFFICES ASSUME NEW u \in Threads, op'[u].pc = "insert", NEW w \in DOMAIN rows'
                   PROVE  rows'[w] > -op'[u].age
        BY DEF PrunedBeforeInsert
      <3>1. CASE u = t
        BY <2>1, <2>3, <3>1 DEF Unexpired
      <3>2. CASE u # t
        BY <2>1, <2>2, <2>4, <3>2 DEF PrunedBeforeInsert
      <3> QED BY <3>1, <3>2
    <2>6. CapHolds'
      BY <2>2, FewerRows
    <2> QED BY <2>5, <2>6
  <1>7. CASE Insert(t)
    <2> DEFINE free == Cardinality(Unexpired(op[t].age) \ {t}) < Limit
    <2>1. PICK o : op' = [op EXCEPT ![t] = o] /\ o.pc # "insert"
      <3>1. free \in BOOLEAN
        OBVIOUS
      <3>2. \/ op' = [op EXCEPT ![t] = Answered(t, free)]
            \/ op' = [op EXCEPT ![t] = [op[t] EXCEPT !.pc = "confirm"]]
        BY <1>7 DEF Insert
      <3>3. [op[t] EXCEPT !.pc = "confirm"].pc = "confirm"
        BY <1>4 DEF OpPc, StatementPc
      <3> HIDE DEF free
      <3> QED BY <1>5, <3>1, <3>2, <3>3
    <2>2. CASE ~free
      BY <1>3, <1>7, <2>1, <2>2 DEF Insert
    <2>3. CASE free
      <3>1. rows' = Written(t, op[t].age)
        BY <1>7, <2>3 DEF Insert
      <3>2. PrunedBeforeInsert'
        BY <1>2, <2>1, <3>1, WrittenCounts
      <3>3. CapHolds'
        <4>1. DOMAIN rows' = DOMAIN rows \cup {t}
          BY <1>1, <3>1, WrittenType
        <4>2. IsFiniteSet(DOMAIN rows)
          BY QuotaConstants, FS_Subset DEF TypeOK
        <4>3. Unexpired(op[t].age) = DOMAIN rows
          BY <1>7, AllCounted DEF Insert
        <4>4. Cardinality(DOMAIN rows \ {t}) < Limit
          BY <2>3, <4>3
        <4>5. IsFiniteSet(DOMAIN rows \ {t})
          BY <4>2, FS_Subset
        <4>6. Cardinality((DOMAIN rows \ {t}) \cup {t}) = Cardinality(DOMAIN rows \ {t}) + 1
          BY <4>5, FS_AddElement
        <4>7. (DOMAIN rows \ {t}) \cup {t} = DOMAIN rows'
          BY <4>1
        <4>8. Cardinality(DOMAIN rows \ {t}) \in Nat
          BY <4>5, FS_CardinalityType
        <4>9. Cardinality(DOMAIN rows') = Cardinality(DOMAIN rows \ {t}) + 1
          BY <4>6, <4>7
        <4> QED BY <4>4, <4>8, <4>9, QuotaConstants DEF CapHolds
      <3> QED BY <3>2, <3>3
    <2> QED BY <2>2, <2>3
  <1>8. CASE Confirm(t)
    <2>1. (t \in Unexpired(op[t].age)) \in BOOLEAN
      OBVIOUS
    <2>2. Answered(t, t \in Unexpired(op[t].age)).pc # "insert"
      BY <1>5, <2>1
    <2> QED BY <1>3, <1>8, <2>2 DEF Confirm
  <1>9. CASE ListCandidates(t)
    <2>1. PICK s \in LruOrders(Unexpired(op[t].age) \ {t}) :
             op' = [op EXCEPT ![t] = NextCandidate(t, FirstOf(s, MaxAttempts))]
      BY <1>9 DEF ListCandidates
    <2>2. NextCandidate(t, FirstOf(s, MaxAttempts)).pc # "insert"
      BY <1>1 DEF NextCandidate, Begin, Operation
    <2> QED BY <1>3, <1>9, <2>1, <2>2 DEF ListCandidates
  <1>10. CASE Ask(t) \/ ToldYes(t)
    <2>1. PICK pc \in {"wait", "drop"} : op' = [op EXCEPT ![t] = [op[t] EXCEPT !.pc = pc]]
      BY <1>10 DEF Ask, ToldYes
    <2>2. [op[t] EXCEPT !.pc = pc].pc # "insert"
      BY <1>4 DEF OpPc
    <2> QED BY <1>3, <1>10, <2>1, <2>2 DEF Ask, ToldYes
  <1>11. CASE ToldNo(t)
    <2>1. NextCandidate(t, Tail(op[t].candidates)).pc # "insert"
      BY <1>1 DEF NextCandidate, Begin, Operation
    <2> QED BY <1>3, <1>11, <2>1 DEF ToldNo
  <1>12. CASE DropCandidate(t)
    <2> DEFINE o == [Begin(t, "prune", "retry") EXCEPT !.candidates = Tail(op[t].candidates)]
    <2>1. o.pc # "insert"
      <3>1. Begin(t, "prune", "retry") \in Operation /\ Begin(t, "prune", "retry").pc = "prune"
        BY BeginType DEF OpPc, StatementPc, Stage
      <3> QED BY <3>1 DEF Operation
    <2>2. op' = [op EXCEPT ![t] = o]
      BY <1>12 DEF DropCandidate
    <2> HIDE DEF o
    <2> QED BY <1>3, <1>12, <2>1, <2>2 DEF DropCandidate
  <1>13. CASE UpdateRow(t)
    <2>1. op' = [op EXCEPT ![t] = [op[t] EXCEPT !.pc = "holds"]]
      BY <1>13 DEF UpdateRow
    <2>2. [op[t] EXCEPT !.pc = "holds"].pc # "insert"
      BY <1>4 DEF OpPc, StatementPc
    <2>3. CASE t \notin DOMAIN rows
      BY <1>3, <1>13, <2>1, <2>2, <2>3 DEF UpdateRow
    <2>4. CASE t \in DOMAIN rows
      <3>1. rows' = Written(t, op[t].age)
        BY <1>13, <2>4 DEF UpdateRow
      <3>2. PrunedBeforeInsert'
        BY <1>2, <2>1, <2>2, <3>1, WrittenCounts
      <3>3. DOMAIN rows' = DOMAIN rows
        BY <1>1, <2>4, <3>1, WrittenType
      <3> QED BY <3>2, <3>3, FewerRows
    <2> QED BY <2>3, <2>4
  <1>14. CASE HoldsSlot(t)
    <2>1. PICK o : /\ op' = [op EXCEPT ![t] = o]
                   /\ o = NoOp \/ o = [op[t] EXCEPT !.pc = "prune"]
      BY <1>14 DEF HoldsSlot
    <2>2. o.pc # "insert"
      <3>1. [op[t] EXCEPT !.pc = "prune"].pc = "prune"
        BY <1>4 DEF OpPc, StatementPc
      <3>2. NoOp.pc = "idle"
        BY DEF NoOp
      <3> QED BY <2>1, <3>1, <3>2
    <2> QED BY <1>3, <1>14, <2>1, <2>2 DEF HoldsSlot
  <1>15. CASE Acquired(t)
    <2>1. Begin(t, "update", "refresh").pc # "insert"
      BY <1>1 DEF Begin, Operation
    <2> QED BY <1>3, <1>15, <2>1 DEF Acquired
  <1>16. CASE AcquireFails(t)
    <2>1. op' = [op EXCEPT ![t] = [op[t] EXCEPT !.pc = "undo"]]
      BY <1>16 DEF AcquireFails
    <2>2. [op[t] EXCEPT !.pc = "undo"].pc # "insert"
      BY <1>4 DEF OpPc
    <2> QED BY <1>3, <1>16, <2>1, <2>2 DEF AcquireFails
  <1>17. CASE Undo(t)
    <2>1. NoOp.pc # "insert"
      BY DEF NoOp
    <2> QED BY <1>3, <1>17, <2>1 DEF Undo
  <1> QED BY <1>6, <1>7, <1>8, <1>9, <1>10, <1>11, <1>12, <1>13, <1>14, <1>15,
             <1>16, <1>17 DEF OpStep

LEMMA OtherCap ==
    ASSUME IInv,
           \/ \E t \in Threads : \/ StartAdmit(t) \/ StartRefresh(t)
                                 \/ EvictIdle(t) \/ Crash(t)
           \/ \E a, t \in Threads : RpcStep(a, t)
           \/ Tick
    PROVE  CapHolds' /\ PrunedBeforeInsert'
  <1> USE DEF IInv
  <1>1. ASSUME NEW t \in Threads, StartAdmit(t) \/ StartRefresh(t)
        PROVE  CapHolds' /\ PrunedBeforeInsert'
    <2>1. PICK pc \in {"prune", "update"}, stage \in {"first", "refresh"} :
             op' = [op EXCEPT ![t] = Begin(t, pc, stage)]
      BY <1>1 DEF StartAdmit, StartRefresh
    <2>2. Begin(t, pc, stage).pc # "insert"
      BY DEF Begin, TypeOK, Operation
    <2>3. \A u \in Threads :
             op'[u].pc = "insert" => op[u].pc = "insert" /\ op'[u].age = op[u].age
      BY <2>1, <2>2 DEF TypeOK
    <2> QED BY <1>1, <2>3, RowsOnlyLost DEF StartAdmit, StartRefresh
  <1>2. ASSUME NEW t \in Threads, EvictIdle(t) PROVE CapHolds' /\ PrunedBeforeInsert'
    BY <1>2, RowsOnlyLost DEF EvictIdle
  <1>3. ASSUME NEW t \in Threads, Crash(t) PROVE CapHolds' /\ PrunedBeforeInsert'
    <2>1. \A u \in Threads :
             op'[u].pc = "insert" => op[u].pc = "insert" /\ op'[u].age = op[u].age
      BY <1>3 DEF Crash, NoOp, TypeOK
    <2> QED BY <1>3, <2>1, RowsOnlyLost DEF Crash
  <1>4. ASSUME NEW a \in Threads, NEW t \in Threads, RpcStep(a, t)
        PROVE  CapHolds' /\ PrunedBeforeInsert'
    <2>1. op' = op /\ (rows' = rows \/ rows' = Without({t}))
      BY <1>4 DEF RpcStep, CheckUse, Released, ReleaseFails, FreeRow
    <2> QED BY <2>1, RowsOnlyLost
  <1>5. ASSUME Tick PROVE CapHolds' /\ PrunedBeforeInsert'
    <2>1. DOMAIN rows' = DOMAIN rows
      BY <1>5 DEF Tick
    <2>2. CapHolds'
      BY <2>1, FewerRows
    <2>3. ASSUME NEW t \in Threads, op'[t].pc = "insert", NEW u \in DOMAIN rows'
          PROVE  rows'[u] > -op'[t].age
      <3>1. op[t] \in Operation /\ op[t].age \in 0..MaxDelay /\ rows[u] \in Int
        BY <2>1, <2>3 DEF TypeOK, Operation
      <3>2. op[t].pc = "insert"
        BY <1>5, <2>3, <3>1 DEF Tick, Operation
      <3>3. op'[t].age = op[t].age + 1
        BY <1>5, <3>1, <3>2 DEF Tick, StatementPc, Operation
      <3>4. rows'[u] >= rows[u] - 1
        BY <1>5, <2>1, <3>1 DEF Tick
      <3>5. rows[u] > -op[t].age
        BY <2>1, <3>2 DEF PrunedBeforeInsert
      <3>6. rows'[u] \in Int
        BY <1>5, <2>1, <3>1 DEF Tick
      <3>7. rows[u] - 1 > -(op[t].age + 1)
        BY <3>1, <3>5
      <3> QED BY <3>1, <3>3, <3>4, <3>6, <3>7
    <2>4. PrunedBeforeInsert'
      BY <2>3 DEF PrunedBeforeInsert
    <2> QED BY <2>2, <2>4
  <1> QED BY <1>1, <1>2, <1>3, <1>4, <1>5

LEMMA NextIInv == IInv /\ [Next]_vars => IInv'
  <1> SUFFICES ASSUME IInv, [Next]_vars PROVE IInv'
    OBVIOUS
  <1>1. CASE UNCHANGED vars
    BY <1>1 DEF vars, IInv, TypeOK, HasCandidate, PrunedBeforeInsert, CapHolds
  <1>2. CASE \E t \in Threads : OpStep(t)
    BY <1>2, StepType, StepCap DEF IInv
  <1>3. CASE Next /\ ~(\E t \in Threads : OpStep(t))
    <2>1. \/ \E t \in Threads : \/ StartAdmit(t) \/ StartRefresh(t)
                                 \/ EvictIdle(t) \/ Crash(t)
          \/ \E a, t \in Threads : RpcStep(a, t)
          \/ Tick
      BY <1>3 DEF Next
    <2> QED BY <2>1, OtherType, OtherCap DEF IInv
  <1> QED BY <1>1, <1>2, <1>3

-------------------------------------------------------------------------------
LEMMA Invariance == Spec => []IInv
  BY InitIInv, NextIInv, PTL DEF Spec

\* Every variable keeps its type: the rows are always of threads of the
\* workspace, and an operation carries no instant older than MaxDelay.
THEOREM TypeCorrect == Spec => []TypeOK
  <1>1. IInv => TypeOK
    BY DEF IInv
  <1> QED BY <1>1, Invariance, PTL

\* The cap of container-ledger.ts: however admissions, refreshes, reclaims,
\* idle evictions and restarts interleave, the table never holds more rows
\* than MAX_ACTIVE_CONTAINERS_PER_WORKSPACE.
THEOREM CapNeverExceeded == Spec => []CapHolds
  <1>1. IInv => CapHolds
    BY DEF IInv
  <1> QED BY <1>1, Invariance, PTL

\* What tryAdmit's second statement relies on: no row the insert leaves out of
\* its count is in the table when it runs.
THEOREM InsertCountsEveryRow == Spec => []PrunedBeforeInsert
  <1>1. IInv => PrunedBeforeInsert
    BY DEF IInv
  <1> QED BY <1>1, Invariance, PTL

\* A thread that holds a row renews it whatever the table looks like: at the
\* limit its own row is the one that is not counted.
THEOREM OwnRowAlwaysRenewed == Spec => OwnRowIsRenewed
  <1>1. ASSUME IInv, NEW t \in Threads, Insert(t), t \in DOMAIN rows
        PROVE  rows'[t] = Ttl - op[t].age
    <2> USE <1>1 DEF IInv
    <2>1. op[t].age \in 0..MaxDelay
      BY DEF TypeOK, Operation
    <2>2. Unexpired(op[t].age) = DOMAIN rows
      BY <1>1, AllCounted DEF Insert
    <2>3. IsFiniteSet(DOMAIN rows)
      BY QuotaConstants, FS_Subset DEF TypeOK
    <2>4. /\ Cardinality(DOMAIN rows \ {t}) = Cardinality(DOMAIN rows) - 1
          /\ Cardinality(DOMAIN rows) \in Nat
      BY <1>1, <2>3, FS_RemoveElement, FS_CardinalityType
    <2>5. Cardinality(Unexpired(op[t].age) \ {t}) < Limit
      BY <2>2, <2>4, QuotaConstants DEF CapHolds
    <2>6. rows' = Written(t, op[t].age)
      BY <1>1, <2>5 DEF Insert
    <2> QED BY <2>1, <2>6, WrittenType
  <1>2. IInv /\ [Next]_vars
           => [\A t \in Threads :
                 Insert(t) /\ t \in DOMAIN rows => rows'[t] = Ttl - op[t].age]_vars
    BY <1>1
  <1> QED BY <1>2, Invariance, PTL DEF Spec, OwnRowIsRenewed

\* Whoever is told it is admitted has a row: the answer is never taken from a
\* count or from a statement that did not write.
LEMMA AdmittedByRow ==
    ASSUME IInv, NEW t \in Threads, OpStep(t), op[t].pc # "acquire", op'[t].pc = "acquire"
    PROVE  t \in DOMAIN rows'
  <1> USE DEF IInv
  <1>1. op[t] \in Operation /\ op[t].age \in 0..MaxDelay /\ op[t].candidates \in Seq(Threads)
    BY DEF TypeOK, Operation
  <1>2. ASSUME NEW pc \in OpPc
        PROVE  [op[t] EXCEPT !.pc = pc].pc = pc
    BY <1>1 DEF Operation
  <1>3. ASSUME NEW o, op' = [op EXCEPT ![t] = o] PROVE op'[t] = o
    BY <1>3 DEF TypeOK
  <1>4. NoOp.pc # "acquire"
    BY DEF NoOp
  <1>5. ASSUME NEW left \in Seq(Threads)
        PROVE  NextCandidate(t, left).pc # "acquire"
    BY <1>5, NextCandidateType
  <1>6. CASE Insert(t)
    <2> DEFINE free == Cardinality(Unexpired(op[t].age) \ {t}) < Limit
    <2>1. op' # [op EXCEPT ![t] = [op[t] EXCEPT !.pc = "confirm"]]
      BY <1>2, <1>3 DEF OpPc, StatementPc
    <2>2. op' = [op EXCEPT ![t] = Answered(t, free)]
      BY <1>6, <2>1 DEF Insert
    <2>3. free
      <3>1. free \in BOOLEAN
        OBVIOUS
      <3> HIDE DEF free
      <3>2. op'[t] = Answered(t, free)
        BY <1>3, <2>2
      <3> QED BY <3>1, <3>2, AnsweredType
    <2>4. rows' = Written(t, op[t].age)
      BY <1>6, <2>3 DEF Insert
    <2> QED BY <1>1, <2>4, WrittenType
  <1>7. CASE Confirm(t)
    <2>1. (t \in Unexpired(op[t].age)) \in BOOLEAN
      OBVIOUS
    <2>2. op'[t] = Answered(t, t \in Unexpired(op[t].age))
      BY <1>3, <1>7 DEF Confirm
    <2>3. t \in Unexpired(op[t].age)
      BY <2>1, <2>2, AnsweredType
    <2> QED BY <1>7, <2>3 DEF Confirm, Unexpired
  <1>8. CASE ListCandidates(t)
    <2>1. PICK s \in LruOrders(Unexpired(op[t].age) \ {t}) :
             op' = [op EXCEPT ![t] = NextCandidate(t, FirstOf(s, MaxAttempts))]
      BY <1>8 DEF ListCandidates
    <2>2. Unexpired(op[t].age) \ {t} \in SUBSET Threads
      BY DEF Unexpired, TypeOK
    <2>3. IsFiniteSet(Unexpired(op[t].age) \ {t})
      BY <2>2, FS_Subset, QuotaConstants
    <2>4. FirstOf(s, MaxAttempts) \in Seq(Threads)
      BY <2>2, <2>3, FirstOfType, QuotaConstants
    <2> QED BY <1>3, <1>5, <2>1, <2>4
  <1>9. CASE ToldNo(t)
    <2>1. Tail(op[t].candidates) \in Seq(Threads)
      BY <1>1, <1>9 DEF ToldNo, HasCandidate
    <2> QED BY <1>3, <1>5, <1>9, <2>1 DEF ToldNo
  <1>10. CASE DropCandidate(t)
    <2> DEFINE o == [Begin(t, "prune", "retry") EXCEPT !.candidates = Tail(op[t].candidates)]
    <2>1. o.pc # "acquire"
      <3>1. Begin(t, "prune", "retry") \in Operation /\ Begin(t, "prune", "retry").pc = "prune"
        BY BeginType DEF OpPc, StatementPc, Stage
      <3> QED BY <3>1 DEF Operation
    <2>2. op' = [op EXCEPT ![t] = o]
      BY <1>10 DEF DropCandidate
    <2> HIDE DEF o
    <2> QED BY <1>3, <2>1, <2>2
  <1>11. CASE Prune(t) \/ Ask(t) \/ ToldYes(t) \/ UpdateRow(t)
    <2>1. PICK pc \in {"insert", "wait", "drop", "holds"} :
             op' = [op EXCEPT ![t] = [op[t] EXCEPT !.pc = pc]]
      BY <1>11 DEF Prune, Ask, ToldYes, UpdateRow
    <2>2. pc \in OpPc
      BY DEF OpPc, StatementPc
    <2> QED BY <1>2, <1>3, <2>1, <2>2
  <1>12. CASE HoldsSlot(t)
    <2>1. PICK o : /\ op' = [op EXCEPT ![t] = o]
                   /\ o = NoOp \/ o = [op[t] EXCEPT !.pc = "prune"]
      BY <1>12 DEF HoldsSlot
    <2>2. [op[t] EXCEPT !.pc = "prune"].pc = "prune"
      BY <1>2 DEF OpPc, StatementPc
    <2>3. o.pc # "acquire"
      BY <1>4, <2>1, <2>2
    <2> QED BY <1>3, <2>1, <2>3
  <1>13. CASE Acquired(t) \/ AcquireFails(t)
    BY <1>13 DEF Acquired, AcquireFails
  <1>14. CASE Undo(t)
    BY <1>3, <1>4, <1>14 DEF Undo
  <1> QED BY <1>6, <1>7, <1>8, <1>9, <1>10, <1>11, <1>12, <1>13, <1>14 DEF OpStep

\* The statement of AdmittedHoldsRow, for every step of the system.
THEOREM AdmissionIsARow == Spec => AdmittedHoldsRow
  <1> DEFINE A == \A t \in Threads :
                     op[t].pc # "acquire" /\ op'[t].pc = "acquire" => t \in DOMAIN rows'
  <1>1. ASSUME IInv, Next PROVE A
    <2> SUFFICES ASSUME NEW t \in Threads, op[t].pc # "acquire", op'[t].pc = "acquire"
                 PROVE  t \in DOMAIN rows'
      OBVIOUS
    <2> USE <1>1 DEF IInv
    <2>1. op[t] \in Operation
      BY DEF TypeOK
    <2>2. CASE \E u \in Threads : OpStep(u)
      <3>1. PICK u \in Threads : OpStep(u)
        BY <2>2
      <3>2. u = t
        BY <3>1 DEF TypeOK, OpStep, Prune, Insert, Confirm, ListCandidates, Ask, ToldYes,
                    ToldNo, DropCandidate, UpdateRow, HoldsSlot, Acquired, AcquireFails, Undo
      <3> QED BY <3>1, <3>2, AdmittedByRow
    <2>3. CASE \E u \in Threads : StartAdmit(u) \/ StartRefresh(u)
      <3>1. PICK u \in Threads, pc \in {"prune", "update"}, stage \in Stage :
               op' = [op EXCEPT ![u] = Begin(u, pc, stage)]
        BY <2>3 DEF StartAdmit, StartRefresh, Stage
      <3>2. Begin(u, pc, stage).pc # "acquire"
        BY DEF Begin, TypeOK, Operation
      <3> QED BY <3>1, <3>2 DEF TypeOK
    <2>4. CASE \E u \in Threads : EvictIdle(u) \/ Crash(u)
      BY <2>4 DEF EvictIdle, Crash, TypeOK, NoOp
    <2>5. CASE \E a, u \in Threads : RpcStep(a, u)
      BY <2>5 DEF RpcStep, CheckUse, Released, ReleaseFails, FreeRow
    <2>6. CASE Tick
      BY <2>1, <2>6 DEF Tick, Operation
    <2> QED BY <1>1, <2>2, <2>3, <2>4, <2>5, <2>6 DEF Next
  <1>2. IInv /\ [Next]_vars => [A]_vars
    BY <1>1
  <1> QED BY <1>2, Invariance, PTL DEF Spec, AdmittedHoldsRow

===============================================================================
