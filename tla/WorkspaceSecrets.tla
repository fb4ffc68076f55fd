-------------------------- MODULE WorkspaceSecrets --------------------------
(***************************************************************************)
(* The encrypted secrets of one workspace in a key-value store without     *)
(* transactions: one key record (the DEK) that seals every value, one      *)
(* index of the names, and one record per secret.  Every read and every    *)
(* write of the store is an await of its own, so the calls of settings     *)
(* forms, tools and token refreshes interleave at each of them.            *)
(***************************************************************************)
EXTENDS Naturals

CONSTANTS Names,      \* names of secrets
          Callers,    \* concurrent calls of KVWorkspaceSecretsWriter
          MaxCalls,   \* bound on the calls made
          MaxDeaths   \* bound on calls that throw or die at an await

ASSUME CallsAssumption == {MaxCalls, MaxDeaths} \subseteq Nat

VARIABLES
  dek,        \* the key in the store, 0 while there is none
  index,      \* the record that lists the names
  script,     \* the listing a run of the backfill has in hand
  sealed,     \* for each name the key its value is sealed with, 0 for no value
  calls,      \* for each caller the call it is in
  made,       \* keys generated so far
  started,    \* calls started so far
  deaths,     \* calls that did not end
  legacy,     \* the workspace has secrets from before there was an index
  raced,      \* two first writes have overlapped
  refused     \* kinds of calls that threw index_missing

vars == <<dek, index, script, sealed, calls, made, started, deaths, legacy, raced, refused>>

-------------------------------------------------------------------------------
(* Records *)

Index == [on: BOOLEAN, names: SUBSET Names]
NoIndex == [on |-> FALSE, names |-> {}]
Listing(names) == [on |-> TRUE, names |-> names]

\* "save" is ensureWorkspaceDek followed by set, "set" the set alone.
Kinds == {"save", "set", "delete", "list"}

\* key is the DEK in hand, seen the names of the index that was read, and solo
\* holds as long as no other call has overlapped this one.
Call == [pc: {"idle", "returned", "ensure", "seed", "dek", "load", "probe", "probeDek", "value",
              "exists", "remove", "index", "indexDek", "put"},
         kind: Kinds, name: Names, key: Nat, seen: SUBSET Names, solo: BOOLEAN]

Busy(c) == calls[c].pc \notin {"idle", "returned"}
Goes(c, pc) == calls' = [calls EXCEPT ![c].pc = pc]
Ends(c, pc) == calls' = [calls EXCEPT ![c] = [@ EXCEPT !.pc = pc, !.key = 0, !.seen = {}]]
Throws(c) == Ends(c, "idle")
Returns(c) == Ends(c, "returned")

Typed ==
  /\ dek \in 0..made
  /\ index \in Index /\ script \in Index
  /\ sealed \in [Names -> 0..made]
  /\ calls \in [Callers -> Call]
  /\ made \in Nat /\ started \in 0..MaxCalls /\ deaths \in 0..MaxDeaths
  /\ legacy \in BOOLEAN /\ raced \in BOOLEAN
  /\ refused \subseteq Kinds
  /\ \A c \in Callers : calls[c].key \in 0..made

\* A call that is about to put a key or to seal a value has a key in hand.
TypeOK ==
  /\ Typed
  /\ \A c \in Callers : calls[c].pc \in {"seed", "dek", "value"} => calls[c].key # 0

\* A workspace that never held a secret, or one from before the index.
Init ==
  /\ legacy \in BOOLEAN
  /\ index = NoIndex /\ script = NoIndex
  /\ dek = (IF legacy THEN 1 ELSE 0) /\ made = dek
  /\ sealed \in [Names -> IF legacy THEN {0, 1} ELSE {0}]
  /\ \E n \in Names :
       calls = [c \in Callers |-> [pc |-> "idle", kind |-> "list", name |-> n, key |-> 0,
                                   seen |-> {}, solo |-> FALSE]]
  /\ started = 0 /\ deaths = 0 /\ raced = FALSE /\ refused = {}

-------------------------------------------------------------------------------
(* Starting and dying *)

EntryOf(kind) == [save |-> "ensure", set |-> "load", delete |-> "probe", list |-> "probe"][kind]

Start(c, kind, n) ==
  /\ ~Busy(c) /\ started < MaxCalls
  /\ started' = started + 1
  /\ calls' = [d \in Callers |->
                 IF d = c THEN [pc |-> EntryOf(kind), kind |-> kind, name |-> n, key |-> 0,
                                seen |-> {}, solo |-> \A e \in Callers : ~Busy(e)]
                 ELSE [calls[d] EXCEPT !.solo = FALSE]]
  /\ UNCHANGED <<dek, index, sealed, made, deaths, legacy, raced, refused, script>>

\* The store throws, or the isolate is gone, before the next step of the call.
Dies(c) ==
  /\ Busy(c) /\ deaths < MaxDeaths
  /\ deaths' = deaths + 1
  /\ Throws(c)
  /\ UNCHANGED <<dek, index, sealed, made, started, legacy, raced, refused, script>>

-------------------------------------------------------------------------------
(* ensureWorkspaceDek *)

InFirstWrite(c) == calls[c].pc \in {"seed", "dek"}

\* Variant: the key is written before the index is seeded.
EnsureKeyFirst(c) ==
  /\ calls[c].pc = "ensure"
  /\ \/ dek # 0 /\ Goes(c, "load") /\ UNCHANGED <<dek, made, raced>>
     \/ /\ dek = 0
        /\ made' = made + 1 /\ dek' = made + 1
        /\ calls' = [calls EXCEPT ![c].pc = "seed", ![c].key = made + 1]
        /\ raced' = (raced \/ \E d \in Callers \ {c} : InFirstWrite(d))
  /\ UNCHANGED <<index, sealed, started, deaths, legacy, refused, script>>

\* Variant: every save generates a key.
EnsureKeyAnew(c) ==
  /\ calls[c].pc = "ensure"
  /\ made' = made + 1
  /\ calls' = [calls EXCEPT ![c].pc = "seed", ![c].key = made + 1]
  /\ raced' = (raced \/ (dek = 0 /\ \E d \in Callers \ {c} : InFirstWrite(d)))
  /\ UNCHANGED <<dek, index, sealed, started, deaths, legacy, refused, script>>

EnsureKey(c) ==
  /\ calls[c].pc = "ensure"
  /\ \/ dek # 0 /\ Goes(c, "load") /\ UNCHANGED <<made, raced>>
     \/ /\ dek = 0
        /\ made' = made + 1
        /\ calls' = [calls EXCEPT ![c].pc = "seed", ![c].key = made + 1]
        /\ raced' = (raced \/ \E d \in Callers \ {c} : InFirstWrite(d))
  /\ UNCHANGED <<dek, index, sealed, started, deaths, legacy, refused, script>>

\* The index is seeded before the key is written.
SeedIndex(c) ==
  /\ calls[c].pc = "seed"
  /\ index' = Listing({})
  /\ Goes(c, "dek")
  /\ UNCHANGED <<dek, sealed, made, started, deaths, legacy, raced, refused, script>>

WriteKey(c) ==
  /\ calls[c].pc = "dek"
  /\ dek' = calls[c].key
  /\ Goes(c, "load")
  /\ UNCHANGED <<index, sealed, made, started, deaths, legacy, raced, refused, script>>

-------------------------------------------------------------------------------
(* readIndex: two reads when the index is absent *)

Refuse(c) == Throws(c) /\ refused' = refused \cup {calls[c].kind}

\* How a call goes on after its probe of the index.
GoesOn(c) ==
  \/ calls[c].kind = "delete" /\ Goes(c, "exists")
  \/ calls[c].kind = "list" /\ Returns(c)
  \/ calls[c].kind \in {"save", "set"} /\ Goes(c, "value")

Probe(c) ==
  /\ calls[c].pc = "probe"
  /\ IF index.on THEN GoesOn(c) ELSE Goes(c, "probeDek")
  /\ UNCHANGED <<dek, index, sealed, made, started, deaths, legacy, raced, refused, script>>

ProbeKey(c) ==
  /\ calls[c].pc = "probeDek"
  /\ \/ dek = 0 /\ GoesOn(c) /\ UNCHANGED refused
     \/ dek # 0 /\ Refuse(c)
  /\ UNCHANGED <<dek, index, sealed, made, started, deaths, legacy, raced, script>>

-------------------------------------------------------------------------------
(* set and delete *)

\* Variant: the index is not probed before the value is written.
LoadKeyUnprobed(c) ==
  /\ calls[c].pc = "load"
  /\ \/ dek = 0 /\ Throws(c)
     \/ dek # 0 /\ calls' = [calls EXCEPT ![c].pc = "value", ![c].key = dek]
  /\ UNCHANGED <<dek, index, sealed, made, started, deaths, legacy, raced, refused, script>>

\* Variant: a missing key is not an error.
LoadKeyOrNone(c) ==
  /\ calls[c].pc = "load"
  /\ calls' = [calls EXCEPT ![c].pc = "probe", ![c].key = dek]
  /\ UNCHANGED <<dek, index, sealed, made, started, deaths, legacy, raced, refused, script>>

\* loadWorkspaceDek throws workspace_dek_missing when there is no key.
LoadKey(c) ==
  /\ calls[c].pc = "load"
  /\ \/ dek = 0 /\ Throws(c)
     \/ dek # 0 /\ calls' = [calls EXCEPT ![c].pc = "probe", ![c].key = dek]
  /\ UNCHANGED <<dek, index, sealed, made, started, deaths, legacy, raced, refused, script>>

WriteValue(c) ==
  /\ calls[c].pc = "value"
  /\ sealed' = [sealed EXCEPT ![calls[c].name] = calls[c].key]
  /\ Goes(c, "index")
  /\ UNCHANGED <<dek, index, made, started, deaths, legacy, raced, refused, script>>

\* Variant: a delete that finds no value is done.
LookUpOrLeave(c) ==
  /\ calls[c].pc = "exists"
  /\ IF sealed[calls[c].name] # 0 THEN Goes(c, "remove") ELSE Returns(c)
  /\ UNCHANGED <<dek, index, sealed, made, started, deaths, legacy, raced, refused, script>>

\* The index entry is dropped even if there is no value.
LookUp(c) ==
  /\ calls[c].pc = "exists"
  /\ Goes(c, IF sealed[calls[c].name] # 0 THEN "remove" ELSE "index")
  /\ UNCHANGED <<dek, index, sealed, made, started, deaths, legacy, raced, refused, script>>

RemoveValue(c) ==
  /\ calls[c].pc = "remove"
  /\ sealed' = [sealed EXCEPT ![calls[c].name] = 0]
  /\ Goes(c, "index")
  /\ UNCHANGED <<dek, index, made, started, deaths, legacy, raced, refused, script>>

-------------------------------------------------------------------------------
(* writeIndex: a read and a write with nothing to hold them together *)

ReadIndex(c) ==
  /\ calls[c].pc = "index"
  /\ calls' = [calls EXCEPT ![c].pc = IF index.on THEN "put" ELSE "indexDek",
                            ![c].seen = index.names]
  /\ UNCHANGED <<dek, index, sealed, made, started, deaths, legacy, raced, refused, script>>

ReadIndexKey(c) ==
  /\ calls[c].pc = "indexDek"
  /\ \/ dek = 0 /\ Goes(c, "put") /\ UNCHANGED refused
     \/ dek # 0 /\ Refuse(c)
  /\ UNCHANGED <<dek, index, sealed, made, started, deaths, legacy, raced, script>>

WriteIndex(c) ==
  /\ calls[c].pc = "put"
  /\ index' = Listing(IF calls[c].kind = "delete" THEN calls[c].seen \ {calls[c].name}
                      ELSE calls[c].seen \cup {calls[c].name})
  /\ Returns(c)
  /\ UNCHANGED <<dek, sealed, made, started, deaths, legacy, raced, refused, script>>

\* The backfill script lists the records of a workspace with a key, then
\* writes its index, or gives up; it may be run at any time, and again.
BackfillLists ==
  /\ dek # 0 /\ ~script.on
  /\ script' = Listing({n \in Names : sealed[n] # 0})
  /\ UNCHANGED <<dek, index, sealed, calls, made, started, deaths, legacy, raced, refused>>

BackfillEnds ==
  /\ script.on /\ script' = NoIndex
  /\ index' \in {script, index}
  /\ UNCHANGED <<dek, sealed, calls, made, started, deaths, legacy, raced, refused>>

-------------------------------------------------------------------------------
Step(c) ==
  \/ \E kind \in Kinds, n \in Names : Start(c, kind, n)
  \/ Dies(c)
  \/ EnsureKey(c) \/ SeedIndex(c) \/ WriteKey(c)
  \/ LoadKey(c) \/ Probe(c) \/ ProbeKey(c)
  \/ WriteValue(c) \/ LookUp(c) \/ RemoveValue(c)
  \/ ReadIndex(c) \/ ReadIndexKey(c) \/ WriteIndex(c)

Next == BackfillLists \/ BackfillEnds \/ \E c \in Callers : Step(c)
Spec == Init /\ [][Next]_vars

-------------------------------------------------------------------------------
(* Properties *)

\* A value opens if it is sealed with the key the store holds.
Readable(n) == sealed[n] \in {0, dek}

\* A workspace is never left with a key and no index, at whatever await its
\* first writes die or race: only one from before the index is.
NeverStranded == dek # 0 /\ ~index.on => legacy

\* A value becomes unreadable only if two first writes of the workspace
\* overlapped: a later or a retried first write finds the key of the first.
ValuesOpen == ~raced => \A n \in Names : Readable(n)

\* A save or a set is turned away only in a workspace from before the index:
\* it has read the key before it looks for the index.
SetIsWelcome == refused \cap {"save", "set"} # {} => legacy

\* A call that is turned away leaves nothing behind and destroys nothing: no
\* value changes in a workspace whose index is missing.
UnlistedUntouched == [][dek # 0 /\ ~index.on => sealed' = sealed]_vars

\* A write no other call overlaps leaves its name listed and readable, or
\* neither listed nor stored, whatever earlier races and deaths have left: a
\* delete clears a ghost.
Exact(c) ==
  IF calls[c].kind = "delete" THEN calls[c].name \notin index.names /\ sealed[calls[c].name] = 0
  ELSE calls[c].name \in index.names /\ sealed[calls[c].name] = dek
WritesAlone(c) == Busy(c) /\ calls[c].solo /\ calls[c].kind # "list"
SoloWriteIsExact ==
  [][\A c \in Callers : WritesAlone(c) /\ calls'[c].pc = "returned" => Exact(c)']_vars
=============================================================================
