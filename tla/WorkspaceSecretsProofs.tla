----------------------- MODULE WorkspaceSecretsProofs -----------------------
(***************************************************************************)
(* No await of the first writes strands a workspace, no refused call       *)
(* touches a value, only overlapping first writes cost one, and a write    *)
(* alone is exact, for any names, callers and numbers of calls and deaths. *)
(***************************************************************************)
EXTENDS WorkspaceSecrets, TLAPS

-------------------------------------------------------------------------------
(* The inductive invariant *)

\* A call that has loaded the key to seal its value.
Writes(c) == calls[c].kind \in {"save", "set"}
Holds(c) ==
  Writes(c) /\ calls[c].pc \in {"probe", "probeDek", "value", "index", "indexDek", "put"}

\* Which calls reach which stage.
StageInv(c) ==
  /\ calls[c].pc \in {"ensure", "seed", "dek"} => calls[c].kind = "save"
  /\ calls[c].pc \in {"load", "value"} => Writes(c)
  /\ calls[c].pc \in {"exists", "remove"} => calls[c].kind = "delete"
  /\ calls[c].pc \in {"index", "indexDek", "put"} => calls[c].kind # "list"

\* What a call may rely on between its reads and its writes.
KeyInv(c) ==
  /\ InFirstWrite(c) => calls[c].key # 0
  /\ calls[c].pc = "dek" => index.on
  /\ Holds(c) => dek # 0 /\ calls[c].key # 0
  /\ calls[c].pc \in {"value", "exists", "remove"} => index.on \/ dek = 0
  /\ calls[c].pc \in {"probeDek", "indexDek"} /\ Writes(c) => legacy

\* Without overlapping first writes there is one key from the first on.
OneKey ==
  ~raced =>
    /\ \A n \in Names : Readable(n)
    /\ \A c \in Callers : Holds(c) => calls[c].key = dek
    /\ \A c \in Callers : InFirstWrite(c) => dek = 0
    /\ \A c, d \in Callers : InFirstWrite(c) /\ InFirstWrite(d) => c = d

\* A call alone finds what it wrote.
SoloInv(c) ==
  Busy(c) /\ calls[c].solo =>
    /\ \A d \in Callers : Busy(d) => d = c
    /\ Holds(c) => calls[c].key = dek
    /\ calls[c].pc \in {"index", "indexDek", "put"} =>
         sealed[calls[c].name] = IF calls[c].kind = "delete" THEN 0 ELSE dek

IInv ==
  /\ Typed /\ NeverStranded /\ SetIsWelcome /\ OneKey
  /\ legacy => dek # 0
  /\ dek = 0 => \A n \in Names : sealed[n] = 0
  /\ \A c \in Callers : StageInv(c) /\ KeyInv(c) /\ SoloInv(c)

-------------------------------------------------------------------------------
(* Steps of a call *)

\* Keys and indexes are never taken away, and there is an index before a key.
Forward ==
  /\ dek # 0 => dek' # 0
  /\ index.on => index'.on
  /\ dek = 0 /\ dek' # 0 => index'.on
  /\ legacy' = legacy

\* A step of one call changes no other, and not what the call is for.
Local(c) ==
  /\ \A d \in Callers \ {c} : calls'[d] = calls[d]
  /\ calls'[c].kind = calls[c].kind /\ calls'[c].name = calls[c].name
  /\ calls'[c].solo = calls[c].solo

LEMMA CallFields ==
  ASSUME Typed, NEW c \in Callers
  PROVE  /\ calls[c] \in Call /\ calls[c].key \in 0..made /\ calls[c].name \in Names
         /\ calls[c].seen \subseteq Names /\ calls[c].kind \in Kinds /\ calls[c].key \in Nat
  BY DEF Typed, Call

LEMMA CallSet ==
  ASSUME Typed, NEW c \in Callers, NEW r \in Call, calls' = [calls EXCEPT ![c] = r]
  PROVE  calls' \in [Callers -> Call] /\ calls'[c] = r
         /\ \A d \in Callers \ {c} : calls'[d] = calls[d]
  BY DEF Typed

\* How a step changes its call, one lemma for each of the ways it may.
LEMMA GoesCall ==
  ASSUME Typed, NEW c \in Callers, NEW pc, Goes(c, pc),
         [calls[c] EXCEPT !.pc = pc] \in Call
  PROVE  /\ calls' \in [Callers -> Call] /\ Local(c) /\ calls'[c].pc = pc
         /\ calls'[c].key = calls[c].key /\ calls'[c].seen = calls[c].seen
  <1>1. calls' = [calls EXCEPT ![c] = [calls[c] EXCEPT !.pc = pc]] BY DEF Goes
  <1>2. calls[c] \in Call BY CallFields
  <1>3. [calls[c] EXCEPT !.pc = pc] \in Call OBVIOUS
  <1>4. /\ calls' \in [Callers -> Call] /\ calls'[c] = [calls[c] EXCEPT !.pc = pc]
        /\ \A d \in Callers \ {c} : calls'[d] = calls[d]
    BY <1>1, <1>2, CallSet
  <1> QED BY <1>2, <1>3, <1>4 DEF Local, Call

LEMMA PcCall ==
  ASSUME Typed, NEW c \in Callers,
         NEW pc \in {"idle", "returned", "ensure", "seed", "dek", "load", "probe", "probeDek",
                     "value", "exists", "remove", "index", "indexDek", "put"}
  PROVE  /\ [calls[c] EXCEPT !.pc = pc] \in Call
         /\ \A k \in Nat, S \in SUBSET Names :
              [calls[c] EXCEPT !.pc = pc, !.key = k, !.seen = S] \in Call
  BY CallFields DEF Call

LEMMA EndsCall ==
  ASSUME Typed, NEW c \in Callers, NEW pc \in {"idle", "returned"}, Ends(c, pc)
  PROVE  /\ calls' \in [Callers -> Call] /\ Local(c) /\ calls'[c].pc = pc
         /\ calls'[c].key = 0 /\ calls'[c].seen = {}
  <1>1. [calls[c] EXCEPT !.pc = pc, !.key = 0, !.seen = {}] \in Call BY PcCall
  <1>2. calls' = [calls EXCEPT ![c] = [calls[c] EXCEPT !.pc = pc, !.key = 0, !.seen = {}]]
    BY DEF Ends
  <1>3. calls[c] \in Call BY CallFields
  <1>4. /\ calls' \in [Callers -> Call]
        /\ calls'[c] = [calls[c] EXCEPT !.pc = pc, !.key = 0, !.seen = {}]
        /\ \A d \in Callers \ {c} : calls'[d] = calls[d]
    BY <1>1, <1>2, CallSet
  <1> QED BY <1>2, <1>3, <1>4 DEF Local, Call

LEMMA KeyCall ==
  ASSUME Typed, NEW c \in Callers, NEW pc, NEW k \in Nat,
         pc \in {"seed", "probe", "value"},
         calls' = [calls EXCEPT ![c].pc = pc, ![c].key = k]
  PROVE  /\ calls' \in [Callers -> Call] /\ Local(c) /\ calls'[c].pc = pc /\ calls'[c].key = k
  <1>1. [calls[c] EXCEPT !.pc = pc, !.key = k] \in Call BY CallFields DEF Call
  <1>2. calls' = [calls EXCEPT ![c] = [calls[c] EXCEPT !.pc = pc, !.key = k]] OBVIOUS
  <1>3. calls[c] \in Call BY CallFields
  <1>4. /\ calls' \in [Callers -> Call] /\ calls'[c] = [calls[c] EXCEPT !.pc = pc, !.key = k]
        /\ \A d \in Callers \ {c} : calls'[d] = calls[d]
    BY <1>1, <1>2, CallSet
  <1> QED BY <1>3, <1>4 DEF Local, Call

LEMMA SeenCall ==
  ASSUME Typed, NEW c \in Callers, NEW pc, NEW S \in SUBSET Names,
         pc \in {"put", "indexDek"},
         calls' = [calls EXCEPT ![c].pc = pc, ![c].seen = S]
  PROVE  /\ calls' \in [Callers -> Call] /\ Local(c) /\ calls'[c].pc = pc
         /\ calls'[c].key = calls[c].key /\ calls'[c].seen = S
  <1>1. [calls[c] EXCEPT !.pc = pc, !.seen = S] \in Call BY CallFields DEF Call
  <1>2. calls' = [calls EXCEPT ![c] = [calls[c] EXCEPT !.pc = pc, !.seen = S]] OBVIOUS
  <1>3. calls[c] \in Call BY CallFields
  <1>4. /\ calls' \in [Callers -> Call] /\ calls'[c] = [calls[c] EXCEPT !.pc = pc, !.seen = S]
        /\ \A d \in Callers \ {c} : calls'[d] = calls[d]
    BY <1>1, <1>2, CallSet
  <1> QED BY <1>3, <1>4 DEF Local, Call

\* The calls a step of another does not change keep what they rely on.
LEMMA OthersKeep ==
  ASSUME IInv, NEW c \in Callers, Busy(c), Local(c), Forward,
         NEW d \in Callers, d # c
  PROVE  StageInv(d)' /\ KeyInv(d)' /\ SoloInv(d)'
  <1>1. calls'[d] = calls[d] BY DEF Local
  <1>2. StageInv(d) /\ KeyInv(d) /\ SoloInv(d) BY DEF IInv
  <1>3. StageInv(d)' BY <1>1, <1>2 DEF StageInv, Writes
  <1>4. KeyInv(d)' BY <1>1, <1>2 DEF KeyInv, InFirstWrite, Holds, Writes, Forward
  <1>5. SoloInv(d)' BY <1>1, <1>2 DEF SoloInv, Busy
  <1> QED BY <1>3, <1>4, <1>5

LEMMA LocalStep ==
  ASSUME IInv, NEW c \in Callers, Busy(c), Local(c), Forward, Typed',
         StageInv(c)', KeyInv(c)', NeverStranded', SetIsWelcome', OneKey',
         dek' = 0 => \A n \in Names : sealed'[n] = 0,
         calls[c].solo /\ Busy(c)' =>
           /\ Holds(c)' => calls'[c].key = dek'
           /\ calls'[c].pc \in {"index", "indexDek", "put"} =>
                sealed'[calls[c].name] = IF calls[c].kind = "delete" THEN 0 ELSE dek'
  PROVE  IInv'
  <1>1. \A d \in Callers \ {c} : StageInv(d)' /\ KeyInv(d)' /\ SoloInv(d)' BY OthersKeep
  <1>2. SoloInv(c)'
    <2>1. \A d \in Callers \ {c} : calls'[d] = calls[d] BY DEF Local
    <2>2. calls[c].solo => \A d \in Callers \ {c} : ~Busy(d) BY DEF IInv, SoloInv
    <2>3. calls[c].solo => \A d \in Callers \ {c} : ~Busy(d)' BY <2>1, <2>2 DEF Busy
    <2> QED BY <2>3 DEF SoloInv, Local
  <1>3. legacy' => dek' # 0 BY DEF IInv, Forward
  <1> QED BY <1>1, <1>2, <1>3 DEF IInv

\* Steps that write neither key nor value.
LEMMA OneKeyKept ==
  ASSUME OneKey, NEW c \in Callers, Local(c), UNCHANGED <<dek, sealed, raced>>,
         InFirstWrite(c)' => InFirstWrite(c),
         Holds(c)' => calls'[c].key = dek \/ (Holds(c) /\ calls'[c].key = calls[c].key)
  PROVE  OneKey'
  <1> SUFFICES ASSUME ~raced' PROVE OneKey' BY DEF OneKey
  <1>1. ~raced /\ \A d \in Callers \ {c} : calls'[d] = calls[d] BY DEF Local
  <1>2. \A n \in Names : Readable(n)' BY <1>1 DEF OneKey, Readable
  <1>3. \A d \in Callers : InFirstWrite(d)' => InFirstWrite(d) BY <1>1 DEF InFirstWrite
  <1>4. \A d \in Callers : Holds(d)' => calls'[d].key = dek' BY <1>1 DEF OneKey, Holds, Writes
  <1> QED BY <1>1, <1>2, <1>3, <1>4 DEF OneKey

\* A call that only reads, or ends.
LEMMA ReadingStep ==
  ASSUME IInv, NEW c \in Callers, Busy(c), Local(c), calls' \in [Callers -> Call],
         UNCHANGED <<dek, index, sealed, made, started, legacy, raced, script>>,
         deaths' \in 0..MaxDeaths, refused' \subseteq Kinds, SetIsWelcome',
         StageInv(c)', KeyInv(c)', calls'[c].key \in 0..made,
         InFirstWrite(c)' => InFirstWrite(c),
         Holds(c)' => calls'[c].key = dek \/ (Holds(c) /\ calls'[c].key = calls[c].key),
         calls[c].solo /\ Busy(c)' /\ calls'[c].pc \in {"index", "indexDek", "put"} =>
           sealed[calls[c].name] = IF calls[c].kind = "delete" THEN 0 ELSE dek
  PROVE  IInv'
  <1>1. Typed /\ OneKey /\ NeverStranded BY DEF IInv
  <1>2. Typed'
    <2>1. \A d \in Callers : calls'[d].key \in 0..made BY <1>1 DEF Typed, Local
    <2> QED BY <1>1, <2>1 DEF Typed
  <1>3. Forward BY DEF Forward
  <1>4. OneKey' BY <1>1, OneKeyKept
  <1>5. NeverStranded' BY <1>1 DEF NeverStranded
  <1>6. calls[c].solo => (Holds(c) => calls[c].key = dek) BY DEF IInv, SoloInv
  <1> QED BY <1>2, <1>3, <1>4, <1>5, <1>6, LocalStep DEF IInv

-------------------------------------------------------------------------------
(* The actions *)

LEMMA DiesInv == ASSUME IInv, NEW c \in Callers, Dies(c) PROVE IInv'
  <1>1. Typed BY DEF IInv
  <1>2. /\ calls' \in [Callers -> Call] /\ Local(c) /\ calls'[c].pc = "idle"
        /\ calls'[c].key = 0
    BY <1>1, EndsCall DEF Dies, Throws
  <1>3. ~Holds(c)' /\ ~InFirstWrite(c)' /\ ~Busy(c)' BY <1>2 DEF Holds, InFirstWrite, Busy
  <1>4. StageInv(c)' /\ KeyInv(c)' BY <1>2, <1>3 DEF StageInv, KeyInv
  <1>5. deaths' \in 0..MaxDeaths /\ 0 \in 0..made
    BY <1>1, CallsAssumption DEF Dies, Typed
  <1>6. SetIsWelcome' BY DEF Dies, IInv, SetIsWelcome
  <1>7. refused' \subseteq Kinds BY <1>1 DEF Dies, Typed
  <1> QED BY <1>2, <1>3, <1>4, <1>5, <1>6, <1>7, ReadingStep DEF Dies

LEMMA StartInv ==
  ASSUME IInv, NEW c \in Callers, NEW kind \in Kinds, NEW n \in Names, Start(c, kind, n)
  PROVE  IInv'
  <1>1. Typed BY DEF IInv
  <1>2. EntryOf(kind) \in {"ensure", "load", "probe"}
        /\ (EntryOf(kind) = "ensure" => kind = "save")
        /\ (EntryOf(kind) = "load" => kind = "set")
        /\ (EntryOf(kind) = "probe" => kind \in {"delete", "list"})
    BY DEF EntryOf, Kinds
  <1>3. /\ calls'[c] = [pc |-> EntryOf(kind), kind |-> kind, name |-> n, key |-> 0,
                        seen |-> {}, solo |-> \A e \in Callers : ~Busy(e)]
        /\ \A d \in Callers \ {c} : calls'[d] = [calls[d] EXCEPT !.solo = FALSE]
    BY DEF Start
  <1>4. \A d \in Callers \ {c} :
          /\ calls'[d] \in Call /\ calls'[d].pc = calls[d].pc /\ calls'[d].kind = calls[d].kind
          /\ calls'[d].key = calls[d].key /\ ~calls'[d].solo
    BY <1>1, <1>3, CallFields DEF Call
  <1>5. calls'[c] \in Call BY <1>2, <1>3 DEF Call
  <1>6. UNCHANGED <<dek, index, sealed, made, deaths, legacy, raced, refused, script>>
        /\ started' \in 0..MaxCalls
    BY <1>1, CallsAssumption DEF Start, Typed
  <1>7. Typed'
    <2>1. calls' \in [Callers -> Call]
      <3>1. \A d \in Callers : calls'[d] \in Call BY <1>4, <1>5
      <3>2. calls' = [d \in Callers |-> calls'[d]] BY DEF Start
      <3> QED BY <3>1, <3>2
    <2>2. \A d \in Callers : calls'[d].key \in 0..made
      <3>1. 0 \in 0..made BY <1>1 DEF Typed
      <3> QED BY <1>1, <1>3, <1>4, <3>1 DEF Typed
    <2> QED BY <1>1, <1>6, <2>1, <2>2 DEF Typed
  <1>8. /\ ~Holds(c)' /\ ~InFirstWrite(c)' /\ StageInv(c)' /\ KeyInv(c)'
    BY <1>2, <1>3 DEF Holds, InFirstWrite, StageInv, KeyInv, Writes
  <1>9. SoloInv(c)'
    <2>1. calls'[c].solo => \A d \in Callers \ {c} : ~Busy(d)' BY <1>3, <1>4 DEF Busy
    <2> QED BY <1>2, <1>3, <1>8, <2>1 DEF SoloInv
  <1>10. \A d \in Callers \ {c} : StageInv(d)' /\ KeyInv(d)' /\ SoloInv(d)'
    <2>1. ASSUME NEW d \in Callers \ {c} PROVE StageInv(d)' /\ KeyInv(d)' /\ SoloInv(d)'
      <3>1. StageInv(d) /\ KeyInv(d) BY DEF IInv
      <3>2. StageInv(d)' BY <1>4, <3>1 DEF StageInv, Writes
      <3>3. KeyInv(d)' BY <1>4, <1>6, <3>1 DEF KeyInv, InFirstWrite, Holds, Writes
      <3>4. SoloInv(d)' BY <1>4 DEF SoloInv
      <3> QED BY <3>2, <3>3, <3>4
    <2> QED BY <2>1
  <1>11. OneKey'
    <2>1. \A d \in Callers : /\ InFirstWrite(d)' => InFirstWrite(d)
                             /\ Holds(d)' => Holds(d) /\ calls'[d].key = calls[d].key
      BY <1>4, <1>8 DEF InFirstWrite, Holds, Writes
    <2>2. \A m \in Names : Readable(m)' <=> Readable(m) BY <1>6 DEF Readable
    <2> QED BY <1>6, <2>1, <2>2 DEF IInv, OneKey
  <1>12. NeverStranded' /\ SetIsWelcome' BY <1>6 DEF IInv, NeverStranded, SetIsWelcome
  <1> QED BY <1>6, <1>7, <1>8, <1>9, <1>10, <1>11, <1>12 DEF IInv

LEMMA EnsureKeyInv == ASSUME IInv, NEW c \in Callers, EnsureKey(c) PROVE IInv'
  <1>1. Typed /\ StageInv(c) BY DEF IInv
  <1>2. calls[c].kind = "save" /\ Busy(c) BY <1>1 DEF EnsureKey, StageInv, Busy
  <1>3. CASE dek # 0
    <2>1. /\ calls' \in [Callers -> Call] /\ Local(c) /\ calls'[c].pc = "load"
          /\ calls'[c].key = calls[c].key
      BY <1>1, <1>3, GoesCall, PcCall DEF EnsureKey
    <2>2. ~Holds(c)' /\ ~InFirstWrite(c)' BY <2>1 DEF Holds, InFirstWrite
    <2>3. StageInv(c)' /\ KeyInv(c)'
      BY <1>2, <2>1, <2>2 DEF StageInv, KeyInv, Local, Writes
    <2>4. UNCHANGED <<dek, index, sealed, made, started, deaths, legacy, raced, refused, script>>
      BY <1>3 DEF EnsureKey
    <2>5. deaths' \in 0..MaxDeaths /\ refused' \subseteq Kinds /\ calls'[c].key \in 0..made
      BY <1>1, <2>1, <2>4 DEF Typed
    <2>6. SetIsWelcome' BY <2>4 DEF IInv, SetIsWelcome
    <2> QED BY <1>2, <2>1, <2>2, <2>3, <2>4, <2>5, <2>6, ReadingStep
  <1>4. CASE dek = 0
    <2>1. UNCHANGED <<dek, index, sealed, started, deaths, legacy, refused, script>>
          /\ made' = made + 1 /\ made + 1 \in Nat /\ made \in Nat
          /\ raced' = (raced \/ \E d \in Callers \ {c} : InFirstWrite(d))
      BY <1>1, <1>4 DEF EnsureKey, Typed
    <2>2. /\ calls' \in [Callers -> Call] /\ Local(c) /\ calls'[c].pc = "seed"
          /\ calls'[c].key = made + 1
      BY <1>1, <1>4, <2>1, KeyCall DEF EnsureKey
    <2>3. ~Holds(c)' /\ InFirstWrite(c)' /\ StageInv(c)' /\ KeyInv(c)'
      BY <1>2, <2>1, <2>2 DEF Holds, InFirstWrite, StageInv, KeyInv, Local, Writes
    <2>4. Typed'
      <3>1. 0..made \subseteq 0..made' /\ made + 1 \in 0..made' BY <2>1
      <3>2. \A d \in Callers : calls'[d].key \in 0..made'
        BY <1>1, <2>2, <3>1 DEF Typed, Local
      <3>3. sealed' \in [Names -> 0..made'] BY <1>1, <2>1, <3>1 DEF Typed
      <3>4. raced' \in BOOLEAN BY <2>1
      <3>5. dek' \in 0..made' BY <1>1, <2>1, <3>1 DEF Typed
      <3> QED BY <1>1, <2>1, <2>2, <3>2, <3>3, <3>4, <3>5 DEF Typed
    <2>5. OneKey'
      <3> SUFFICES ASSUME ~raced' PROVE OneKey' BY DEF OneKey
      <3>1. ~raced /\ \A d \in Callers \ {c} : ~InFirstWrite(d) BY <2>1
      <3>2. \A d \in Callers \ {c} : calls'[d] = calls[d] BY <2>2 DEF Local
      <3>3. \A d \in Callers \ {c} : ~InFirstWrite(d)' BY <3>1, <3>2 DEF InFirstWrite
      <3>4. \A d \in Callers : Holds(d)' => Holds(d) /\ calls'[d] = calls[d]
        BY <2>3, <3>2 DEF Holds, Writes
      <3>5. \A m \in Names : Readable(m)' <=> Readable(m) BY <2>1 DEF Readable
      <3> QED BY <1>4, <2>1, <3>1, <3>3, <3>4, <3>5 DEF IInv, OneKey
    <2>6. Forward BY <2>1 DEF Forward
    <2>7. NeverStranded' /\ SetIsWelcome' BY <2>1 DEF IInv, NeverStranded, SetIsWelcome
    <2> QED BY <1>2, <2>1, <2>2, <2>3, <2>4, <2>5, <2>6, <2>7, LocalStep DEF IInv
  <1> QED BY <1>3, <1>4

LEMMA SeedIndexInv == ASSUME IInv, NEW c \in Callers, SeedIndex(c) PROVE IInv'
  <1>1. Typed /\ StageInv(c) /\ KeyInv(c) /\ OneKey BY DEF IInv
  <1>2. calls[c].kind = "save" /\ Busy(c) /\ InFirstWrite(c) /\ calls[c].key # 0
    BY <1>1 DEF SeedIndex, StageInv, KeyInv, Busy, InFirstWrite
  <1>3. UNCHANGED <<dek, sealed, made, started, deaths, legacy, raced, refused, script>>
        /\ index' = Listing({})
    BY DEF SeedIndex
  <1>4. index'.on /\ index' \in Index BY <1>3 DEF Listing, Index
  <1>5. /\ calls' \in [Callers -> Call] /\ Local(c) /\ calls'[c].pc = "dek"
        /\ calls'[c].key = calls[c].key
    BY <1>1, GoesCall, PcCall DEF SeedIndex
  <1>6. ~Holds(c)' /\ StageInv(c)' /\ KeyInv(c)'
    BY <1>2, <1>4, <1>5 DEF Holds, StageInv, KeyInv, Local, Writes
  <1>7. Typed'
    <2>1. \A d \in Callers : calls'[d].key \in 0..made BY <1>1, <1>5 DEF Typed, Local
    <2> QED BY <1>1, <1>3, <1>4, <1>5, <2>1 DEF Typed
  <1>8. OneKey' BY <1>1, <1>2, <1>3, <1>5, <1>6, OneKeyKept
  <1>9. Forward BY <1>3, <1>4 DEF Forward
  <1>10. NeverStranded' /\ SetIsWelcome' BY <1>3, <1>4 DEF IInv, NeverStranded, SetIsWelcome
  <1> QED BY <1>2, <1>3, <1>5, <1>6, <1>7, <1>8, <1>9, <1>10, LocalStep DEF IInv

LEMMA WriteKeyInv == ASSUME IInv, NEW c \in Callers, WriteKey(c) PROVE IInv'
  <1>1. Typed /\ StageInv(c) /\ KeyInv(c) /\ OneKey BY DEF IInv
  <1>2. calls[c].kind = "save" /\ Busy(c) /\ InFirstWrite(c) /\ calls[c].key # 0 /\ index.on
    BY <1>1 DEF WriteKey, StageInv, KeyInv, Busy, InFirstWrite
  <1>3. UNCHANGED <<index, sealed, made, started, deaths, legacy, raced, refused, script>>
        /\ dek' = calls[c].key
    BY DEF WriteKey
  <1>4. dek' \in 0..made /\ dek' # 0 BY <1>1, <1>2, <1>3 DEF Typed
  <1>5. /\ calls' \in [Callers -> Call] /\ Local(c) /\ calls'[c].pc = "load"
        /\ calls'[c].key = calls[c].key
    BY <1>1, GoesCall, PcCall DEF WriteKey
  <1>6. ~Holds(c)' /\ ~InFirstWrite(c)' /\ StageInv(c)' /\ KeyInv(c)'
    BY <1>2, <1>5 DEF Holds, InFirstWrite, StageInv, KeyInv, Local, Writes
  <1>7. Typed'
    <2>1. \A d \in Callers : calls'[d].key \in 0..made BY <1>1, <1>5 DEF Typed, Local
    <2> QED BY <1>1, <1>3, <1>4, <1>5, <2>1 DEF Typed
  <1>8. OneKey'
    <2> SUFFICES ASSUME ~raced' PROVE OneKey' BY DEF OneKey
    <2>1. ~raced /\ dek = 0 /\ \A d \in Callers : InFirstWrite(d) => d = c
      BY <1>1, <1>2, <1>3 DEF OneKey
    <2>2. \A d \in Callers \ {c} : calls'[d] = calls[d] BY <1>5 DEF Local
    <2>3. \A d \in Callers : ~InFirstWrite(d)' BY <1>6, <2>1, <2>2 DEF InFirstWrite
    <2>4. \A d \in Callers : ~Holds(d) BY <2>1 DEF IInv, KeyInv
    <2>5. \A d \in Callers : ~Holds(d)' BY <1>6, <2>2, <2>4 DEF Holds, Writes
    <2>6. \A m \in Names : Readable(m)' BY <1>3, <2>1 DEF IInv, Readable
    <2> QED BY <2>3, <2>5, <2>6 DEF OneKey
  <1>9. Forward BY <1>2, <1>3, <1>4 DEF Forward
  <1>10. NeverStranded' /\ SetIsWelcome' BY <1>2, <1>3 DEF IInv, NeverStranded, SetIsWelcome
  <1> QED BY <1>2, <1>4, <1>5, <1>6, <1>7, <1>8, <1>9, <1>10, LocalStep

LEMMA LoadKeyInv == ASSUME IInv, NEW c \in Callers, LoadKey(c) PROVE IInv'
  <1>1. Typed /\ StageInv(c) BY DEF IInv
  <1>2. Writes(c) /\ Busy(c) BY <1>1 DEF LoadKey, StageInv, Busy
  <1>3. UNCHANGED <<dek, index, sealed, made, started, deaths, legacy, raced, refused, script>>
    BY DEF LoadKey
  <1>4. deaths' \in 0..MaxDeaths /\ refused' \subseteq Kinds /\ 0 \in 0..made
    BY <1>1, <1>3 DEF Typed
  <1>5. SetIsWelcome' BY <1>3 DEF IInv, SetIsWelcome
  <1>6. CASE dek = 0
    <2>1. /\ calls' \in [Callers -> Call] /\ Local(c) /\ calls'[c].pc = "idle"
          /\ calls'[c].key = 0
      BY <1>1, <1>6, EndsCall DEF LoadKey, Throws
    <2>2. ~Holds(c)' /\ ~InFirstWrite(c)' /\ ~Busy(c)' BY <2>1 DEF Holds, InFirstWrite, Busy
    <2>3. StageInv(c)' /\ KeyInv(c)' BY <2>1, <2>2 DEF StageInv, KeyInv
    <2> QED BY <1>2, <1>3, <1>4, <1>5, <2>1, <2>2, <2>3, ReadingStep
  <1>7. CASE dek # 0
    <2>1. dek \in 0..made /\ dek \in Nat BY <1>1 DEF Typed
    <2>2. /\ calls' \in [Callers -> Call] /\ Local(c) /\ calls'[c].pc = "probe"
          /\ calls'[c].key = dek
      BY <1>1, <1>7, <2>1, KeyCall DEF LoadKey
    <2>3. ~InFirstWrite(c)' BY <2>2 DEF InFirstWrite
    <2>4. StageInv(c)' /\ KeyInv(c)'
      BY <1>2, <1>3, <1>7, <2>2, <2>3 DEF StageInv, KeyInv, Local, Writes
    <2> QED BY <1>2, <1>3, <1>4, <1>5, <2>1, <2>2, <2>3, <2>4, ReadingStep
  <1> QED BY <1>6, <1>7

\* The probe passes if there is an index, or no key.
LEMMA GoesOnInv ==
  ASSUME IInv, NEW c \in Callers, calls[c].pc \in {"probe", "probeDek"},
         UNCHANGED <<dek, index, sealed, made, started, deaths, legacy, raced, refused, script>>,
         index.on \/ dek = 0, GoesOn(c)
  PROVE  IInv'
  <1>1. Typed /\ StageInv(c) /\ KeyInv(c) BY DEF IInv
  <1>2. Busy(c) BY DEF Busy
  <1>3. deaths' \in 0..MaxDeaths /\ refused' \subseteq Kinds /\ 0 \in 0..made
        /\ calls[c].key \in 0..made
    BY <1>1 DEF Typed
  <1>4. SetIsWelcome' BY DEF IInv, SetIsWelcome
  <1>5. CASE calls[c].kind = "delete" /\ Goes(c, "exists")
    <2>1. /\ calls' \in [Callers -> Call] /\ Local(c) /\ calls'[c].pc = "exists"
          /\ calls'[c].key = calls[c].key
      BY <1>1, <1>5, GoesCall, PcCall
    <2>2. ~Holds(c)' /\ ~InFirstWrite(c)' BY <2>1 DEF Holds, InFirstWrite
    <2>3. StageInv(c)' /\ KeyInv(c)' BY <1>5, <2>1, <2>2 DEF StageInv, KeyInv, Local
    <2> QED BY <1>2, <1>3, <1>4, <2>1, <2>2, <2>3, ReadingStep
  <1>6. CASE Returns(c)
    <2>1. /\ calls' \in [Callers -> Call] /\ Local(c) /\ calls'[c].pc = "returned"
          /\ calls'[c].key = 0
      BY <1>1, <1>6, EndsCall DEF Returns
    <2>2. ~Holds(c)' /\ ~InFirstWrite(c)' /\ ~Busy(c)' BY <2>1 DEF Holds, InFirstWrite, Busy
    <2>3. StageInv(c)' /\ KeyInv(c)' BY <2>1, <2>2 DEF StageInv, KeyInv
    <2> QED BY <1>2, <1>3, <1>4, <2>1, <2>2, <2>3, ReadingStep
  <1>7. CASE calls[c].kind \in {"save", "set"} /\ Goes(c, "value")
    <2>1. /\ calls' \in [Callers -> Call] /\ Local(c) /\ calls'[c].pc = "value"
          /\ calls'[c].key = calls[c].key
      BY <1>1, <1>7, GoesCall, PcCall
    <2>2. Holds(c) /\ ~InFirstWrite(c)' BY <1>7, <2>1 DEF Holds, Writes, InFirstWrite
    <2>3. StageInv(c)' /\ KeyInv(c)'
      BY <1>1, <1>7, <2>1, <2>2 DEF StageInv, KeyInv, Local, Writes
    <2> QED BY <1>2, <1>3, <1>4, <2>1, <2>2, <2>3, ReadingStep
  <1> QED BY <1>5, <1>6, <1>7 DEF GoesOn

LEMMA ProbeInv == ASSUME IInv, NEW c \in Callers, Probe(c) PROVE IInv'
  <1>1. CASE index.on BY <1>1, GoesOnInv DEF Probe
  <1>2. CASE ~index.on
    <2>1. Typed /\ StageInv(c) /\ KeyInv(c) /\ Busy(c) BY DEF IInv, Probe, Busy
    <2>2. UNCHANGED <<dek, index, sealed, made, started, deaths, legacy, raced, refused, script>>
      BY DEF Probe
    <2>3. /\ calls' \in [Callers -> Call] /\ Local(c) /\ calls'[c].pc = "probeDek"
          /\ calls'[c].key = calls[c].key
      BY <1>2, <2>1, GoesCall, PcCall DEF Probe
    <2>4. (Holds(c)' => Holds(c)) /\ ~InFirstWrite(c)'
      BY <2>3 DEF Holds, Writes, InFirstWrite, Probe, Local
    <2>5. StageInv(c)' /\ KeyInv(c)'
      <3>1. Writes(c)' => Writes(c) /\ Holds(c) BY <2>3 DEF Holds, Writes, Probe, Local
      <3>2. Writes(c)' => legacy' BY <1>2, <2>1, <2>2, <3>1 DEF IInv, KeyInv, NeverStranded
      <3> QED BY <2>1, <2>2, <2>3, <2>4, <3>2 DEF StageInv, KeyInv
    <2>6. deaths' \in 0..MaxDeaths /\ refused' \subseteq Kinds /\ calls[c].key \in 0..made
      BY <2>1, <2>2 DEF Typed
    <2>7. SetIsWelcome' BY <2>2 DEF IInv, SetIsWelcome
    <2> QED BY <2>1, <2>2, <2>3, <2>4, <2>5, <2>6, <2>7, ReadingStep
  <1> QED BY <1>1, <1>2

\* A call that is turned away has met a key without an index.
LEMMA RefuseInv ==
  ASSUME IInv, NEW c \in Callers, Busy(c), Refuse(c), Writes(c) => legacy,
         UNCHANGED <<dek, index, sealed, made, started, deaths, legacy, raced, script>>
  PROVE  IInv'
  <1>1. Typed /\ SetIsWelcome BY DEF IInv
  <1>2. /\ calls' \in [Callers -> Call] /\ Local(c) /\ calls'[c].pc = "idle"
        /\ calls'[c].key = 0
    BY <1>1, EndsCall DEF Refuse, Throws
  <1>3. ~Holds(c)' /\ ~InFirstWrite(c)' /\ ~Busy(c)' BY <1>2 DEF Holds, InFirstWrite, Busy
  <1>4. StageInv(c)' /\ KeyInv(c)' BY <1>2, <1>3 DEF StageInv, KeyInv
  <1>5. deaths' \in 0..MaxDeaths /\ refused' \subseteq Kinds /\ 0 \in 0..made
    BY <1>1, CallFields DEF Typed, Refuse
  <1>6. SetIsWelcome' BY <1>1 DEF Refuse, SetIsWelcome, Writes
  <1> QED BY <1>2, <1>3, <1>4, <1>5, <1>6, ReadingStep

LEMMA ProbeKeyInv == ASSUME IInv, NEW c \in Callers, ProbeKey(c) PROVE IInv'
  <1>1. CASE dek = 0 BY <1>1, GoesOnInv DEF ProbeKey
  <1>2. CASE dek # 0
    <2>1. Busy(c) BY DEF ProbeKey, Busy
    <2>2. Writes(c) => legacy BY DEF IInv, KeyInv, ProbeKey
    <2> QED BY <1>2, <2>1, <2>2, RefuseInv DEF ProbeKey
  <1> QED BY <1>1, <1>2

LEMMA WriteValueInv == ASSUME IInv, NEW c \in Callers, WriteValue(c) PROVE IInv'
  <1>1. Typed /\ StageInv(c) /\ KeyInv(c) /\ OneKey BY DEF IInv
  <1>2. Writes(c) /\ Holds(c) /\ Busy(c) /\ dek # 0 /\ calls[c].key # 0 /\ calls[c].kind # "delete"
        /\ calls[c].kind # "list"
    BY <1>1 DEF WriteValue, StageInv, KeyInv, Busy, Holds, Writes
  <1>3. UNCHANGED <<dek, index, made, started, deaths, legacy, raced, refused, script>>
        /\ sealed' = [sealed EXCEPT ![calls[c].name] = calls[c].key]
    BY DEF WriteValue
  <1>4. /\ calls' \in [Callers -> Call] /\ Local(c) /\ calls'[c].pc = "index"
        /\ calls'[c].key = calls[c].key
    BY <1>1, GoesCall, PcCall DEF WriteValue
  <1>5. calls[c].name \in Names /\ calls[c].key \in 0..made BY <1>1, CallFields
  <1>6. sealed' \in [Names -> 0..made] /\ sealed'[calls[c].name] = calls[c].key
        /\ \A m \in Names : sealed'[m] \in {sealed[m], calls[c].key}
    BY <1>1, <1>3, <1>5 DEF Typed
  <1>7. ~InFirstWrite(c)' /\ Holds(c)' /\ StageInv(c)' /\ KeyInv(c)'
    BY <1>1, <1>2, <1>3, <1>4 DEF InFirstWrite, Holds, StageInv, KeyInv, Local, Writes
  <1>8. Typed'
    <2>1. \A d \in Callers : calls'[d].key \in 0..made BY <1>1, <1>4 DEF Typed, Local
    <2> QED BY <1>1, <1>3, <1>4, <1>6, <2>1 DEF Typed
  <1>9. OneKey'
    <2> SUFFICES ASSUME ~raced' PROVE OneKey' BY DEF OneKey
    <2>1. ~raced /\ calls[c].key = dek BY <1>1, <1>2, <1>3 DEF OneKey
    <2>2. \A d \in Callers \ {c} : calls'[d] = calls[d] BY <1>4 DEF Local
    <2>3. \A d \in Callers : (InFirstWrite(d)' => InFirstWrite(d)) /\ calls'[d].key = calls[d].key
      BY <1>4, <1>7, <2>2 DEF InFirstWrite
    <2>4. \A d \in Callers : Holds(d)' => Holds(d) BY <1>2, <2>2 DEF Holds, Writes
    <2>5. \A m \in Names : Readable(m)' BY <1>1, <1>3, <1>6, <2>1 DEF OneKey, Readable
    <2> QED BY <1>1, <1>3, <2>1, <2>3, <2>4, <2>5 DEF OneKey
  <1>10. calls[c].solo => calls[c].key = dek BY <1>2 DEF IInv, SoloInv
  <1>11. Forward BY <1>3 DEF Forward
  <1>12. NeverStranded' /\ SetIsWelcome' BY <1>3 DEF IInv, NeverStranded, SetIsWelcome
  <1> QED BY <1>2, <1>3, <1>4, <1>6, <1>7, <1>8, <1>9, <1>10, <1>11, <1>12, LocalStep

LEMMA LookUpInv == ASSUME IInv, NEW c \in Callers, LookUp(c) PROVE IInv'
  <1>1. Typed /\ StageInv(c) /\ KeyInv(c) BY DEF IInv
  <1>2. calls[c].kind = "delete" /\ Busy(c) BY <1>1 DEF LookUp, StageInv, Busy
  <1>3. UNCHANGED <<dek, index, sealed, made, started, deaths, legacy, raced, refused, script>>
    BY DEF LookUp
  <1>4. PICK pc \in {"remove", "index"} :
          Goes(c, pc) /\ (pc = "index" => sealed[calls[c].name] = 0)
    BY DEF LookUp
  <1>5. /\ calls' \in [Callers -> Call] /\ Local(c) /\ calls'[c].pc = pc
        /\ calls'[c].key = calls[c].key
    BY <1>1, <1>4, GoesCall, PcCall
  <1>6. ~Holds(c)' /\ ~InFirstWrite(c)' BY <1>2, <1>5 DEF Holds, Writes, InFirstWrite, Local
  <1>7. StageInv(c)' /\ KeyInv(c)'
    BY <1>1, <1>2, <1>3, <1>5, <1>6 DEF StageInv, KeyInv, Local, LookUp, Writes
  <1>8. deaths' \in 0..MaxDeaths /\ refused' \subseteq Kinds /\ calls[c].key \in 0..made
    BY <1>1, <1>3 DEF Typed
  <1>9. SetIsWelcome' BY <1>3 DEF IInv, SetIsWelcome
  <1> QED BY <1>2, <1>3, <1>4, <1>5, <1>6, <1>7, <1>8, <1>9, ReadingStep

LEMMA RemoveValueInv == ASSUME IInv, NEW c \in Callers, RemoveValue(c) PROVE IInv'
  <1>1. Typed /\ StageInv(c) /\ KeyInv(c) /\ OneKey BY DEF IInv
  <1>2. calls[c].kind = "delete" /\ Busy(c) BY <1>1 DEF RemoveValue, StageInv, Busy
  <1>3. UNCHANGED <<dek, index, made, started, deaths, legacy, raced, refused, script>>
        /\ sealed' = [sealed EXCEPT ![calls[c].name] = 0]
    BY DEF RemoveValue
  <1>4. /\ calls' \in [Callers -> Call] /\ Local(c) /\ calls'[c].pc = "index"
        /\ calls'[c].key = calls[c].key
    BY <1>1, GoesCall, PcCall DEF RemoveValue
  <1>5. calls[c].name \in Names /\ 0 \in 0..made BY <1>1, CallFields DEF Typed
  <1>6. sealed' \in [Names -> 0..made] /\ sealed'[calls[c].name] = 0
        /\ \A m \in Names : sealed'[m] \in {sealed[m], 0}
    BY <1>1, <1>3, <1>5 DEF Typed
  <1>7. ~InFirstWrite(c)' /\ ~Holds(c)' /\ StageInv(c)' /\ KeyInv(c)'
    BY <1>2, <1>4 DEF InFirstWrite, Holds, StageInv, KeyInv, Local, Writes
  <1>8. Typed'
    <2>1. \A d \in Callers : calls'[d].key \in 0..made BY <1>1, <1>4 DEF Typed, Local
    <2> QED BY <1>1, <1>3, <1>4, <1>6, <2>1 DEF Typed
  <1>9. OneKey'
    <2> SUFFICES ASSUME ~raced' PROVE OneKey' BY DEF OneKey
    <2>1. ~raced BY <1>3
    <2>2. \A d \in Callers \ {c} : calls'[d] = calls[d] BY <1>4 DEF Local
    <2>3. \A d \in Callers : InFirstWrite(d)' => InFirstWrite(d) BY <1>7, <2>2 DEF InFirstWrite
    <2>4. \A d \in Callers : Holds(d)' => Holds(d) /\ calls'[d] = calls[d]
      BY <1>7, <2>2 DEF Holds, Writes
    <2>5. \A m \in Names : Readable(m)' BY <1>1, <1>3, <1>6, <2>1 DEF OneKey, Readable
    <2> QED BY <1>1, <1>3, <2>1, <2>3, <2>4, <2>5 DEF OneKey
  <1>10. Forward BY <1>3 DEF Forward
  <1>11. NeverStranded' /\ SetIsWelcome' BY <1>3 DEF IInv, NeverStranded, SetIsWelcome
  <1>12. dek' = 0 => \A m \in Names : sealed'[m] = 0 BY <1>3, <1>6 DEF IInv
  <1> QED BY <1>2, <1>3, <1>4, <1>6, <1>7, <1>8, <1>9, <1>10, <1>11, <1>12, LocalStep

LEMMA ReadIndexInv == ASSUME IInv, NEW c \in Callers, ReadIndex(c) PROVE IInv'
  <1>1. Typed /\ StageInv(c) /\ KeyInv(c) /\ SoloInv(c) BY DEF IInv
  <1>2. calls[c].kind # "list" /\ Busy(c) BY <1>1 DEF ReadIndex, StageInv, Busy
  <1>3. UNCHANGED <<dek, index, sealed, made, started, deaths, legacy, raced, refused, script>>
    BY DEF ReadIndex
  <1>4. PICK pc \in {"put", "indexDek"} :
          calls' = [calls EXCEPT ![c].pc = pc, ![c].seen = index.names]
          /\ (pc = "indexDek" => ~index.on)
    BY DEF ReadIndex
  <1>5. index.names \in SUBSET Names BY <1>1 DEF Typed, Index
  <1>6. /\ calls' \in [Callers -> Call] /\ Local(c) /\ calls'[c].pc = pc
        /\ calls'[c].key = calls[c].key
    BY <1>1, <1>4, <1>5, SeenCall
  <1>7. (Holds(c)' => Holds(c)) /\ ~InFirstWrite(c)'
    BY <1>6 DEF Holds, Writes, InFirstWrite, Local, ReadIndex
  <1>8. StageInv(c)' /\ KeyInv(c)'
    <2>1. Writes(c)' => Holds(c) BY <1>6 DEF Holds, Writes, Local, ReadIndex
    <2>2. pc = "indexDek" /\ Writes(c)' => legacy'
      BY <1>1, <1>3, <1>4, <2>1 DEF IInv, KeyInv, NeverStranded
    <2> QED BY <1>1, <1>2, <1>3, <1>6, <1>7, <2>2 DEF StageInv, KeyInv, Local
  <1>9. deaths' \in 0..MaxDeaths /\ refused' \subseteq Kinds /\ calls[c].key \in 0..made
    BY <1>1, <1>3 DEF Typed
  <1>10. SetIsWelcome' BY <1>3 DEF IInv, SetIsWelcome
  <1>11. calls[c].solo => sealed[calls[c].name] = IF calls[c].kind = "delete" THEN 0 ELSE dek
    BY <1>1, <1>2 DEF SoloInv, ReadIndex
  <1> QED BY <1>2, <1>3, <1>6, <1>7, <1>8, <1>9, <1>10, <1>11, ReadingStep

LEMMA ReadIndexKeyInv == ASSUME IInv, NEW c \in Callers, ReadIndexKey(c) PROVE IInv'
  <1>1. Typed /\ StageInv(c) /\ KeyInv(c) /\ SoloInv(c) /\ Busy(c)
    BY DEF IInv, ReadIndexKey, Busy
  <1>2. CASE dek = 0
    <2>1. UNCHANGED <<dek, index, sealed, made, started, deaths, legacy, raced, refused, script>>
          /\ Goes(c, "put")
      BY <1>2 DEF ReadIndexKey
    <2>2. /\ calls' \in [Callers -> Call] /\ Local(c) /\ calls'[c].pc = "put"
          /\ calls'[c].key = calls[c].key
      BY <1>1, <2>1, GoesCall, PcCall
    <2>3. (Holds(c)' => Holds(c)) /\ ~InFirstWrite(c)'
      BY <2>2 DEF Holds, Writes, InFirstWrite, Local, ReadIndexKey
    <2>4. StageInv(c)' /\ KeyInv(c)'
      BY <1>1, <2>1, <2>2, <2>3 DEF StageInv, KeyInv, Local, ReadIndexKey
    <2>5. deaths' \in 0..MaxDeaths /\ refused' \subseteq Kinds /\ calls[c].key \in 0..made
      BY <1>1, <2>1 DEF Typed
    <2>6. SetIsWelcome' BY <2>1 DEF IInv, SetIsWelcome
    <2>7. calls[c].solo => sealed[calls[c].name] = IF calls[c].kind = "delete" THEN 0 ELSE dek
      BY <1>1 DEF SoloInv, ReadIndexKey
    <2> QED BY <1>1, <2>1, <2>2, <2>3, <2>4, <2>5, <2>6, <2>7, ReadingStep
  <1>3. CASE dek # 0
    <2>1. Writes(c) => legacy BY <1>1 DEF KeyInv, ReadIndexKey
    <2> QED BY <1>1, <1>3, <2>1, RefuseInv DEF ReadIndexKey
  <1> QED BY <1>2, <1>3

LEMMA WriteIndexInv == ASSUME IInv, NEW c \in Callers, WriteIndex(c) PROVE IInv'
  <1>1. Typed /\ OneKey BY DEF IInv
  <1>2. Busy(c) BY DEF WriteIndex, Busy
  <1>3. UNCHANGED <<dek, sealed, made, started, deaths, legacy, raced, refused, script>>
    BY DEF WriteIndex
  <1>4. index' \in Index /\ index'.on
    BY <1>1, CallFields DEF WriteIndex, Listing, Index
  <1>5. /\ calls' \in [Callers -> Call] /\ Local(c) /\ calls'[c].pc = "returned"
        /\ calls'[c].key = 0
    BY <1>1, EndsCall DEF WriteIndex, Returns
  <1>6. ~Holds(c)' /\ ~InFirstWrite(c)' /\ ~Busy(c)' BY <1>5 DEF Holds, InFirstWrite, Busy
  <1>7. StageInv(c)' /\ KeyInv(c)' BY <1>5, <1>6 DEF StageInv, KeyInv
  <1>8. Typed'
    <2>1. 0 \in 0..made BY <1>1 DEF Typed
    <2>2. \A d \in Callers : calls'[d].key \in 0..made BY <1>1, <1>5, <2>1 DEF Typed, Local
    <2> QED BY <1>1, <1>3, <1>4, <1>5, <2>2 DEF Typed
  <1>9. OneKey' BY <1>1, <1>3, <1>5, <1>6, OneKeyKept
  <1>10. Forward BY <1>3, <1>4 DEF Forward
  <1>11. NeverStranded' /\ SetIsWelcome' BY <1>3, <1>4 DEF IInv, NeverStranded, SetIsWelcome
  <1> QED BY <1>2, <1>3, <1>5, <1>6, <1>7, <1>8, <1>9, <1>10, <1>11, LocalStep DEF IInv

\* The backfill writes listings only, and an index is never taken away.
LEMMA BackfillInv == ASSUME IInv, BackfillLists \/ BackfillEnds PROVE IInv'
  <1>1. Typed BY DEF IInv
  <1>2. UNCHANGED <<dek, sealed, calls, made, started, deaths, legacy, raced, refused>>
    BY DEF BackfillLists, BackfillEnds
  <1>3. \A S \in SUBSET Names : Listing(S) \in Index BY DEF Listing, Index
  <1>4. {n \in Names : sealed[n] # 0} \in SUBSET Names OBVIOUS
  <1>5. NoIndex \in Index BY DEF NoIndex, Index
  <1>6. index' \in Index /\ script' \in Index
    BY <1>1, <1>3, <1>4, <1>5 DEF BackfillLists, BackfillEnds, Typed
  <1>7. Typed' BY <1>1, <1>2, <1>6 DEF Typed
  <1>8. index.on => index'.on BY DEF BackfillLists, BackfillEnds
  <1>9. NeverStranded' /\ SetIsWelcome' BY <1>2, <1>8 DEF IInv, NeverStranded, SetIsWelcome
  <1>10. OneKey' BY <1>2 DEF IInv, OneKey, Readable, Holds, Writes, InFirstWrite
  <1>11. ASSUME NEW c \in Callers PROVE StageInv(c)' /\ KeyInv(c)' /\ SoloInv(c)'
    <2>1. StageInv(c) /\ KeyInv(c) /\ SoloInv(c) BY DEF IInv
    <2>2. StageInv(c)' BY <1>2, <2>1 DEF StageInv, Writes
    <2>3. KeyInv(c)' BY <1>2, <1>8, <2>1 DEF KeyInv, InFirstWrite, Holds, Writes
    <2>4. SoloInv(c)' BY <1>2, <2>1 DEF SoloInv, Busy, Holds, Writes
    <2> QED BY <2>2, <2>3, <2>4
  <1> QED BY <1>2, <1>7, <1>9, <1>10, <1>11 DEF IInv

-------------------------------------------------------------------------------
(* The results *)

LEMMA InitIInv == Init => IInv
  <1> SUFFICES ASSUME Init PROVE IInv OBVIOUS
  <1>1. PICK n \in Names :
          calls = [c \in Callers |-> [pc |-> "idle", kind |-> "list", name |-> n, key |-> 0,
                                      seen |-> {}, solo |-> FALSE]]
    BY DEF Init
  <1>2. \A c \in Callers : /\ calls[c] \in Call /\ calls[c].pc = "idle" /\ calls[c].key = 0
                           /\ calls[c].kind = "list"
    BY <1>1 DEF Call, Kinds
  <1>3. NoIndex \in Index /\ ~NoIndex.on BY DEF NoIndex, Index
  <1>4. dek \in {0, 1} /\ made = dek /\ sealed \in [Names -> 0..made]
        /\ (dek = 0 => \A m \in Names : sealed[m] = 0)
        /\ (legacy <=> dek = 1) /\ \A m \in Names : sealed[m] \in {0, dek}
    BY DEF Init
  <1>5. Typed
    <2>1. calls \in [Callers -> Call] BY <1>1, <1>2
    <2>2. made \in Nat /\ dek \in 0..made /\ 0 \in 0..made BY <1>4
    <2>3. 0 \in 0..MaxCalls /\ 0 \in 0..MaxDeaths BY CallsAssumption
    <2>4. started \in 0..MaxCalls /\ deaths \in 0..MaxDeaths /\ legacy \in BOOLEAN
          /\ raced \in BOOLEAN /\ refused \subseteq Kinds /\ index \in Index /\ script \in Index
      BY <1>3, <2>3 DEF Init
    <2> QED BY <1>2, <1>4, <2>1, <2>2, <2>4 DEF Typed
  <1>6. \A c \in Callers : ~Holds(c) /\ ~InFirstWrite(c) /\ ~Busy(c)
    BY <1>2 DEF Holds, InFirstWrite, Busy
  <1>7. NeverStranded /\ SetIsWelcome BY <1>4 DEF Init, NeverStranded, SetIsWelcome
  <1>8. OneKey BY <1>4, <1>6 DEF OneKey, Readable
  <1>9. \A c \in Callers : StageInv(c) /\ KeyInv(c) /\ SoloInv(c)
    BY <1>2, <1>6 DEF StageInv, KeyInv, SoloInv
  <1> QED BY <1>4, <1>5, <1>7, <1>8, <1>9 DEF IInv

LEMMA NextIInv == ASSUME IInv, [Next]_vars PROVE IInv'
  <1>1. CASE UNCHANGED vars
    BY <1>1 DEF vars, IInv, Typed, NeverStranded, SetIsWelcome, OneKey, Readable, StageInv,
                KeyInv, SoloInv, Holds, Writes, InFirstWrite, Busy
  <1> QED
    BY <1>1, BackfillInv, StartInv, DiesInv, EnsureKeyInv, SeedIndexInv, WriteKeyInv, LoadKeyInv,
       ProbeInv, ProbeKeyInv, WriteValueInv, LookUpInv, RemoveValueInv, ReadIndexInv,
       ReadIndexKeyInv, WriteIndexInv
    DEF Next, Step

\* The strengthening is an invariant, for any names, callers, calls and deaths:
\* what a call has read still holds when it comes to write.
THEOREM Inductive == Spec => []IInv
  <1> QED BY InitIInv, NextIInv, PTL DEF Spec

\* Every record keeps its type, no key is in use that was not generated, and no
\* call reaches a put of the key or of a value without a key: loadWorkspaceDek
\* and the probe of the index let none through.
THEOREM TypeCorrect == Spec => []TypeOK
  <1>1. IInv => TypeOK
    <2> SUFFICES ASSUME IInv, NEW c \in Callers, calls[c].pc \in {"seed", "dek", "value"}
                 PROVE  calls[c].key # 0
      BY DEF IInv, TypeOK
    <2>1. StageInv(c) /\ KeyInv(c) BY DEF IInv
    <2> QED BY <2>1 DEF StageInv, KeyInv, InFirstWrite, Holds
  <1> QED BY Inductive, <1>1, PTL

\* ensureWorkspaceDek seeds the index before it writes the key, so no await at
\* which first writes die or race leaves a key without an index.
THEOREM WorkspaceNeverStranded == Spec => []NeverStranded
  <1>1. IInv => NeverStranded BY DEF IInv
  <1> QED BY Inductive, <1>1, PTL

\* A value stops opening only after two first writes have overlapped.
THEOREM OnlyRacesLoseValues == Spec => []ValuesOpen
  <1>1. IInv => ValuesOpen BY DEF IInv, OneKey, ValuesOpen
  <1> QED BY Inductive, <1>1, PTL

\* No set is turned away in a workspace that is younger than the index.
THEOREM SetAlwaysWelcome == Spec => []SetIsWelcome
  <1>1. IInv => SetIsWelcome BY DEF IInv
  <1> QED BY Inductive, <1>1, PTL

\* No call writes or removes a value while the index of the workspace is
\* missing, whatever it had found at its probe.
THEOREM RefusedTouchesNothing == Spec => UnlistedUntouched
  <1>1. ASSUME IInv, [Next]_vars, dek # 0, ~index.on PROVE sealed' = sealed
    <2>1. \A c \in Callers : ~WriteValue(c) /\ ~RemoveValue(c)
      BY <1>1 DEF IInv, KeyInv, WriteValue, RemoveValue
    <2> QED
      BY <1>1, <2>1
      DEF Next, Step, vars, BackfillLists, BackfillEnds, Start, Dies, EnsureKey, SeedIndex,
          WriteKey, LoadKey, Probe, ProbeKey, LookUp, ReadIndex, ReadIndexKey, WriteIndex
  <1>2. IInv /\ [Next]_vars => [dek # 0 /\ ~index.on => sealed' = sealed]_vars BY <1>1
  <1> QED BY Inductive, <1>2, PTL DEF Spec, UnlistedUntouched

\* A step of another call does not end this one.
LEMMA OwnStep ==
  ASSUME IInv, NEW c \in Callers, NEW d \in Callers, Step(d), d # c
  PROVE  calls'[c].pc = calls[c].pc
  <1>1. Typed /\ calls[c] \in Call BY CallFields DEF IInv
  <1>2. ASSUME NEW kind \in Kinds, NEW n \in Names, Start(d, kind, n)
        PROVE  calls'[c].pc = calls[c].pc
    <2>1. calls'[c] = [calls[c] EXCEPT !.solo = FALSE] BY <1>2 DEF Start
    <2> QED BY <1>1, <2>1 DEF Call
  <1>3. CASE calls'[c] = calls[c] BY <1>3
  <1>4. ASSUME NEW pc, Goes(d, pc) \/ Ends(d, pc) PROVE calls'[c] = calls[c]
    BY <1>1, <1>4 DEF Goes, Ends, Typed
  <1>5. CASE EnsureKey(d) \/ LoadKey(d) \/ ReadIndex(d)
    BY <1>1, <1>4, <1>5 DEF EnsureKey, LoadKey, ReadIndex, Throws, Typed
  <1> QED
    BY <1>2, <1>3, <1>4, <1>5
    DEF Step, Dies, SeedIndex, WriteKey, Probe, ProbeKey, WriteValue, LookUp, RemoveValue,
        ReadIndexKey, WriteIndex, GoesOn, Refuse, Throws, Returns

\* A set or a delete returns only by writing the index.
LEMMA LastStep ==
  ASSUME IInv, NEW c \in Callers, Step(c), Busy(c), calls[c].kind # "list",
         calls'[c].pc = "returned"
  PROVE  WriteIndex(c)
  <1>1. Typed BY DEF IInv
  <1>2. ASSUME NEW pc, Goes(c, pc) \/ Ends(c, pc) PROVE calls'[c].pc = pc
    <2>1. calls[c] \in Call BY <1>1, CallFields
    <2>2. calls'[c] = [calls[c] EXCEPT !.pc = pc]
          \/ calls'[c] = [calls[c] EXCEPT !.pc = pc, !.key = 0, !.seen = {}]
      BY <1>1, <1>2 DEF Goes, Ends, Typed
    <2> QED BY <2>1, <2>2 DEF Call
  <1>3. ~(Dies(c) \/ SeedIndex(c) \/ WriteKey(c) \/ WriteValue(c) \/ RemoveValue(c))
    BY <1>2 DEF Dies, SeedIndex, WriteKey, WriteValue, RemoveValue, Throws
  <1>4. ~(Probe(c) \/ ProbeKey(c))
    BY <1>2 DEF Probe, ProbeKey, GoesOn, Refuse, Throws
  <1>5. ~(LookUp(c) \/ ReadIndexKey(c))
    BY <1>2 DEF LookUp, ReadIndexKey, Refuse, Throws
  <1>6. ~LoadKey(c)
    <2>1. dek \in Nat BY <1>1 DEF Typed
    <2> QED BY <1>1, <1>2, <2>1, KeyCall DEF LoadKey, Throws
  <1>7. ~EnsureKey(c)
    <2>1. made + 1 \in Nat BY <1>1 DEF Typed
    <2> QED BY <1>1, <1>2, <2>1, KeyCall DEF EnsureKey
  <1>8. ~ReadIndex(c)
    <2>1. index.names \in SUBSET Names BY <1>1 DEF Typed, Index
    <2>2. SUFFICES ASSUME ReadIndex(c) PROVE FALSE OBVIOUS
    <2>3. PICK pc \in {"put", "indexDek"} :
            calls' = [calls EXCEPT ![c].pc = pc, ![c].seen = index.names]
      BY <2>2 DEF ReadIndex
    <2> QED BY <1>1, <2>1, <2>3, SeenCall
  <1>9. \A kind \in Kinds, n \in Names : ~Start(c, kind, n) BY DEF Start
  <1> QED BY <1>3, <1>4, <1>5, <1>6, <1>7, <1>8, <1>9 DEF Step

\* A set or a delete that no other call overlapped leaves the name listed and
\* readable, or neither listed nor stored, whatever was left before.
THEOREM WriteAloneIsExact == Spec => SoloWriteIsExact
  <1>1. ASSUME IInv, [Next]_vars, NEW c \in Callers, WritesAlone(c), calls'[c].pc = "returned"
        PROVE  Exact(c)'
    <2>1. Typed /\ StageInv(c) /\ SoloInv(c) /\ Busy(c) /\ calls[c].kind # "list"
      BY <1>1 DEF IInv, WritesAlone
    <2>2. ~(BackfillLists \/ BackfillEnds \/ UNCHANGED vars)
      BY <1>1, <2>1 DEF BackfillLists, BackfillEnds, vars, Busy
    <2>3. PICK d \in Callers : Step(d) BY <1>1, <2>2 DEF Next
    <2>4. d = c BY <1>1, <2>1, <2>3, OwnStep DEF Busy
    <2>5. WriteIndex(c) BY <1>1, <2>1, <2>3, <2>4, LastStep
    <2>6. sealed[calls[c].name] = IF calls[c].kind = "delete" THEN 0 ELSE dek
      BY <1>1, <2>1, <2>5 DEF SoloInv, WritesAlone, WriteIndex
    <2>7. calls'[c].name = calls[c].name /\ calls'[c].kind = calls[c].kind
      BY <2>1, <2>5, EndsCall DEF WriteIndex, Returns, Local
    <2>8. UNCHANGED <<sealed, dek>>
          /\ index'.names = IF calls[c].kind = "delete" THEN calls[c].seen \ {calls[c].name}
                            ELSE calls[c].seen \cup {calls[c].name}
      BY <2>5 DEF WriteIndex, Listing
    <2> QED BY <2>6, <2>7, <2>8 DEF Exact
  <1>2. IInv /\ [Next]_vars =>
          [\A c \in Callers : WritesAlone(c) /\ calls'[c].pc = "returned" => Exact(c)']_vars
    BY <1>1
  <1> QED BY Inductive, <1>2, PTL DEF Spec, SoloWriteIsExact
=============================================================================
