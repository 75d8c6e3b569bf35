-------------------------- MODULE ReplayCacheProofs --------------------------
(***************************************************************************)
(* What holds of the replay cache, for any number of clients and events.   *)
(* First, of every host: whatever the steps of the calls are interleaved   *)
(* with, the contexts hold events of the storage and each of them once.    *)
(* Then, of a host that no other program tells of events, and of one that  *)
(* is told of them and makes one call at a time.                           *)
(***************************************************************************)
EXTENDS ReplayCache, ReplayOrderProofs

-----------------------------------------------------------------------------
(* The inductive invariant of every host *)

\* With a projection there is a context to be had.
Opened == {"listing", "merging", "caughtUp", "emit", "commit", "ingest", "returned"}

Tellings == [written : SUBSET Nat, marked : SUBSET Nat, inbound : SUBSET Nat]

Calls ==
  [pc : {"idle", "ensure", "opening"} \cup Opened, writes : BOOLEAN,
   context : Seq(Entry), listed : Seq(Entry), entry : Entry \cup {<<>>}, due : Tellings]

StorageInv ==
  /\ stored \in Seq(Entry)
  /\ Channel(ToSet(stored))
  /\ LogOf(ToSet(stored), stored)

CacheInv ==
  /\ projection \in {"none", "opening", "ready", "failed"}
  /\ LogOf(ToSet(stored), projected)
  /\ replayTail # NoTail => LogOf(ToSet(stored), replayTail)
  /\ projection # "ready" => projected = <<>> /\ replayTail = NoTail
  /\ dirty \in BOOLEAN
  /\ told \in Tellings

\* What a call holds was in the storage, which is now S.
Holds(S, k) ==
  /\ LogOf(S, k.context) /\ LogOf(S, k.listed)
  /\ k.pc \in {"commit", "ingest"} => k.entry \in S

\* Where a call may be when the projection's promise is in state p.
At(p, k) ==
  /\ k.pc = "opening" => p = "opening"
  /\ k.pc \in Opened => p = "ready"

CallsInv ==
  /\ call \in [Clients -> Calls]
  /\ \A c \in Clients : Holds(ToSet(stored), call[c]) /\ At(projection, call[c])
  /\ \A c, d \in Clients : call[c].pc = "opening" /\ call[d].pc = "opening" => c = d

IInv == host \in HostKinds /\ StorageInv /\ CacheInv /\ CallsInv

-----------------------------------------------------------------------------
(* Lemmas *)

\* The head of a context is one of its events.
LEMMA HeadIsHash ==
  ASSUME NEW E, NEW log \in Seq(E)
  PROVE  \/ ObservedLogHeadFromOrdered(log) = NoRef
         \/ ObservedLogHeadFromOrdered(log) \in {e.hash : e \in E}
<1> DEFINE places == {i \in DOMAIN log : IsFileEventEntry(log[i])}
<1>1. Len(log) \in Nat /\ DOMAIN log = 1 .. Len(log) /\ \A i \in 1 .. Len(log) : log[i] \in E
  BY LenProperties, ElementOfSeq
<1>2. CASE places = {}
  BY <1>2 DEF ObservedLogHeadFromOrdered
<1>3. CASE places # {}
  <2>1. Max(places) \in places
    <3>1. places \in SUBSET (0 .. Len(log))
      BY <1>1
    <3> HIDE DEF places
    <3> QED BY <1>1, <1>3, <3>1, NatLast DEF Max
  <2>2. ObservedLogHeadFromOrdered(log) = log[Max(places)].hash
    BY <1>3 DEF ObservedLogHeadFromOrdered
  <2>3. Max(places) \in 1 .. Len(log)
    BY <1>1, <2>1
  <2> HIDE DEF places
  <2> QED BY <1>1, <2>2, <2>3
<1> QED BY <1>2, <1>3

\* An entry that is stored keeps the storage a channel's log.
LEMMA StoredIsLog ==
  ASSUME StorageInv, NEW entry \in Entry, entry.hash \notin HashesOf(stored),
         stored' = Append(stored, entry)
  PROVE  StorageInv' /\ ToSet(stored') = ToSet(stored) \cup {entry}
<1> DEFINE S == ToSet(stored)
           T == S \cup {entry}
<1>1. S \subseteq Entry /\ HashesOf(stored) = {e.hash : e \in S}
  <2>1. LogOf(Entry, stored)
    BY DEF StorageInv, LogOf
  <2> QED BY <2>1, LogIsSeq, HashesAreOf
<1>2. LogOf(T, stored) /\ entry \notin S
  <2>1. LogOf(S, stored)
    BY DEF StorageInv
  <2> QED BY <1>1, <2>1, LogOfMore
<1>3. LogOf(T, stored') /\ ToSet(stored') = T
  BY <1>2, LogOfAppend
<1>4. Channel(T)
  <2>1. entry.hash \in Nat /\ ExtractTimestamp(entry, 0) \in Nat
    BY DEF Entry, ExtractTimestamp
  <2> QED BY <1>1, <2>1 DEF StorageInv, Channel
<1>5. stored' \in Seq(Entry)
  BY AppendProperties DEF StorageInv
<1> QED BY <1>3, <1>4, <1>5 DEF StorageInv

\* What is put in order of a context and more is what they have.
LEMMA ReorderIsLog ==
  ASSUME NEW S, Channel(S), NEW log, LogOf(S, log), NEW more, LogOf(S, more)
  PROVE  LogOf(S, Reorder(log, more).keys)
<1>1. LogOf(ToSet(log) \cup ToSet(more), Reorder(log, more).keys)
  BY ReorderIsCanonical DEF Canonical
<1>2. ToSet(log) \cup ToSet(more) \subseteq S
  BY LogIsSeq
<1> QED BY <1>1, <1>2, LogOfMore

\* And so is a context with one more of them.
LEMMA ExtendIsLog ==
  ASSUME NEW S, Channel(S), NEW log, LogOf(S, log), NEW entry \in S
  PROVE  LogOf(S, Extend(log, entry))
<1>1. CASE entry.hash \in HashesOf(log)
  BY <1>1 DEF Extend
<1>2. CASE entry.hash \notin HashesOf(log)
  <2>1. entry \notin ToSet(log)
    BY <1>2, HashesAreOf
  <2>2. LogOf(S, Append(log, entry))
    BY <2>1, LogOfAppend
  <2>3. /\ LogOf(ToSet(Append(log, entry)), OrderEventLogEntries(Append(log, entry)))
        /\ ToSet(Append(log, entry)) \subseteq S
    BY <2>2, EntriesAreLog, LogIsSeq
  <2> QED BY <1>2, <2>3, LogOfMore DEF Extend
<1> QED BY <1>1, <1>2

\* The context ahead of the projection, or it.
LEMMA ViewIsLog ==
  ASSUME CacheInv
  PROVE  LogOf(ToSet(stored), View)
BY DEF CacheInv, View

\* A step of one call.
LEMMA CallMoves ==
  ASSUME IInv, NEW c \in Clients, NEW r \in Calls, call' = [call EXCEPT ![c] = r],
         ToSet(stored) \subseteq ToSet(stored'),
         Holds(ToSet(stored'), r), At(projection', r),
         r.pc = "opening" => \A d \in Clients \ {c} : call[d].pc # "opening",
         \A d \in Clients \ {c} : At(projection', call[d])
  PROVE  CallsInv'
<1>1. /\ call' \in [Clients -> Calls] /\ call'[c] = r
      /\ \A d \in Clients \ {c} : call'[d] = call[d]
  BY DEF IInv, CallsInv
<1>2. ASSUME NEW d \in Clients PROVE Holds(ToSet(stored'), call'[d]) /\ At(projection', call'[d])
  <2>1. CASE d = c
    BY <1>1, <2>1
  <2>2. CASE d # c
    <3>1. Holds(ToSet(stored), call[d])
      BY DEF IInv, CallsInv
    <3>2. Holds(ToSet(stored'), call[d])
      BY <3>1, LogOfMore DEF Holds
    <3> QED BY <1>1, <2>2, <3>2
  <2> QED BY <2>1, <2>2
<1>3. ASSUME NEW d \in Clients, NEW e \in Clients,
             call'[d].pc = "opening", call'[e].pc = "opening"
      PROVE  d = e
  <2>1. CASE d # c /\ e # c
    BY <1>1, <1>3, <2>1 DEF IInv, CallsInv
  <2>2. CASE d = c \/ e = c
    BY <1>1, <1>3, <2>2
  <2> QED BY <2>1, <2>2
<1> QED BY <1>1, <1>2, <1>3 DEF CallsInv

\* The same where neither the storage nor the promise changes.
LEMMA CallMovesOn ==
  ASSUME IInv, NEW c \in Clients, NEW r \in Calls, call' = [call EXCEPT ![c] = r],
         UNCHANGED <<stored, projection>>,
         Holds(ToSet(stored), r), At(projection, r), r.pc # "opening"
  PROVE  CallsInv'
<1>1. \A d \in Clients : At(projection, call[d])
  BY DEF IInv, CallsInv
<1> QED BY <1>1, CallMoves

\* What a step makes of the record of its call.
LEMMA CallAt ==
  ASSUME NEW k \in Calls, NEW pc \in {"idle", "ensure", "opening"} \cup Opened
  PROVE  /\ [k EXCEPT !.pc = pc] \in Calls /\ [k EXCEPT !.pc = pc].pc = pc
         /\ [k EXCEPT !.pc = pc].context = k.context /\ [k EXCEPT !.pc = pc].listed = k.listed
         /\ [k EXCEPT !.pc = pc].entry = k.entry /\ [k EXCEPT !.pc = pc].due = k.due
BY DEF Calls

\* No call, and one that has been made.
LEMMA IdleIsCall ==
  /\ Idle \in Calls /\ Idle.pc = "idle"
  /\ \A S : Holds(S, Idle)
  /\ \A p : At(p, Idle)
  /\ NothingTold \in Tellings
<1>1. <<>> \in Seq(Entry) /\ NothingTold \in Tellings
  BY DEF NothingTold, Tellings
<1>2. Idle \in Calls
  BY <1>1 DEF Idle, Calls
<1> QED BY <1>1, <1>2, NothingIsLog DEF Idle, Holds, At, Opened

\* In the beginning there is nothing.
LEMMA InitIInv == Init => IInv
<1> SUFFICES ASSUME Init PROVE IInv
  OBVIOUS
<1>1. StorageInv
  <2>1. <<>> \in Seq(Entry)
    OBVIOUS
  <2> QED BY <2>1, NothingIsLog DEF Init, StorageInv, Channel
<1>2. CacheInv
  BY NothingIsLog, IdleIsCall DEF Init, CacheInv
<1>3. CallsInv
  <2>1. call \in [Clients -> Calls] /\ \A c \in Clients : call[c] = Idle
    BY IdleIsCall DEF Init
  <2> QED BY <2>1, IdleIsCall DEF CallsInv
<1>4. host \in HostKinds
  BY HostsAreKnown DEF Init
<1> QED BY <1>1, <1>2, <1>3, <1>4 DEF IInv

-----------------------------------------------------------------------------
(* The steps of a call *)

\* A call begins.
LEMMA StartKeepsIInv ==
  ASSUME IInv, NEW c \in Clients, NEW writes \in BOOLEAN, Start(c, writes), UNCHANGED host
  PROVE  IInv'
<1> DEFINE r == [Idle EXCEPT !.pc = "ensure", !.writes = writes, !.due = told]
<1>1. r \in Calls /\ r.pc = "ensure" /\ r.context = <<>> /\ r.listed = <<>>
  BY IdleIsCall DEF Idle, Calls, IInv, CacheInv
<1>2. call' = [call EXCEPT ![c] = r]
  BY DEF Start
<1> HIDE DEF r
<1>3. Holds(ToSet(stored), r) /\ At(projection, r)
  BY <1>1, NothingIsLog DEF Holds, At, Opened
<1>4. CallsInv'
  BY <1>1, <1>2, <1>3, CallMovesOn DEF Start
<1> QED BY <1>4 DEF Start, IInv, StorageInv, CacheInv

\* The projection is opened by the first call that wants it.
LEMMA OpenKeepsIInv ==
  ASSUME IInv, NEW c \in Clients, OpenProjection(c), UNCHANGED host
  PROVE  IInv'
<1> DEFINE k == call[c]
           r == [k EXCEPT !.pc = "opening", !.listed = stored]
<1>1. k \in Calls /\ stored \in Seq(Entry)
  BY DEF IInv, CallsInv, StorageInv
<1>2. r \in Calls /\ r.pc = "opening" /\ r.context = k.context /\ r.listed = stored
  <2> HIDE DEF k
  <2> QED BY <1>1 DEF Calls
<1>3. call' = [call EXCEPT ![c] = r]
  BY DEF OpenProjection
<1> HIDE DEF r
<1>4. Holds(ToSet(stored), r) /\ At("opening", r)
  BY <1>2 DEF Holds, At, Opened, IInv, CallsInv, StorageInv
<1>5. \A d \in Clients : call[d].pc # "opening" /\ call[d].pc \notin Opened
  BY DEF OpenProjection, IInv, CallsInv, At
<1>6. CallsInv'
  <2>1. \A d \in Clients \ {c} : At("opening", call[d])
    BY <1>5 DEF At
  <2> QED BY <1>2, <1>3, <1>4, <1>5, <2>1, CallMoves DEF OpenProjection
<1>7. CacheInv'
  BY DEF OpenProjection, IInv, CacheInv
<1> QED BY <1>6, <1>7 DEF OpenProjection, IInv, StorageInv

\* It is opened with what was listed.
LEMMA OpenedKeepsIInv ==
  ASSUME IInv, NEW c \in Clients, ProjectionOpened(c), UNCHANGED host
  PROVE  IInv'
<1> DEFINE k == call[c]
           r == [k EXCEPT !.pc = "ensure"]
<1>1. k \in Calls /\ k.pc = "opening" /\ call' = [call EXCEPT ![c] = r]
  BY DEF ProjectionOpened, Goes, IInv, CallsInv
<1>2. r \in Calls /\ r.pc = "ensure" /\ r.context = k.context /\ r.listed = k.listed
  <2> HIDE DEF k
  <2> QED BY <1>1, CallAt
<1> HIDE DEF r
<1>3. Holds(ToSet(stored), r) /\ At("ready", r)
  BY <1>2 DEF Holds, At, Opened, IInv, CallsInv
<1>4. \A d \in Clients \ {c} : At("ready", call[d])
  BY <1>1 DEF At, IInv, CallsInv
<1>5. CallsInv'
  BY <1>1, <1>2, <1>3, <1>4, CallMoves DEF ProjectionOpened
<1>6. LogOf(ToSet(stored), OrderFileKeys(k.listed))
  <2>1. LogOf(ToSet(stored), k.listed) /\ Channel(ToSet(stored))
    BY DEF IInv, CallsInv, Holds, StorageInv
  <2>2. LogOf(ToSet(k.listed), OrderFileKeys(k.listed)) /\ ToSet(k.listed) \subseteq ToSet(stored)
    BY <2>1, OrderIsCanonical, LogIsSeq DEF Canonical
  <2> QED BY <2>2, LogOfMore
<1>7. CacheInv'
  BY <1>6 DEF ProjectionOpened, IInv, CacheInv
<1> QED BY <1>5, <1>7 DEF ProjectionOpened, IInv, StorageInv

\* A call ends, with or without an answer.
LEMMA EndKeepsIInv ==
  ASSUME IInv, NEW c \in Clients, Rejected(c) \/ StorageFails(c) \/ Return(c), UNCHANGED host
  PROVE  IInv'
<1>1. call' = [call EXCEPT ![c] = Idle]
  BY DEF Rejected, StorageFails, Return
<1>2. UNCHANGED <<stored, projected, replayTail, dirty, told>>
  BY DEF Rejected, StorageFails, Return
<1>3. \/ projection' = projection
      \/ call[c].pc = "opening" /\ projection' = "failed"
  BY DEF Rejected, StorageFails, Return
<1>4. \A d \in Clients \ {c} : At(projection', call[d])
  BY <1>3 DEF At, IInv, CallsInv
<1>5. CallsInv'
  BY <1>1, <1>2, <1>4, IdleIsCall, CallMoves
<1>6. projection' # projection => projection = "opening"
  BY <1>3 DEF IInv, CallsInv, At
<1>7. CacheInv'
  BY <1>2, <1>3, <1>6 DEF IInv, CacheInv
<1> QED BY <1>2, <1>5, <1>7 DEF IInv, StorageInv

\* A stale volume is about to be read again: the mark and the tail go first.
LEMMA BeginCatchUpKeepsIInv ==
  ASSUME IInv, NEW c \in Clients, BeginCatchUp(c), UNCHANGED host
  PROVE  IInv'
<1> DEFINE k == call[c]
           r == [k EXCEPT !.pc = "listing"]
<1>1. k \in Calls /\ call' = [call EXCEPT ![c] = r] /\ Holds(ToSet(stored), k)
  BY DEF BeginCatchUp, Goes, IInv, CallsInv
<1>2. r \in Calls /\ r.pc = "listing" /\ r.context = k.context /\ r.listed = k.listed
  <2> HIDE DEF k
  <2> QED BY <1>1, CallAt DEF Opened
<1> HIDE DEF r
<1>3. Holds(ToSet(stored), r) /\ At(projection, r)
  BY <1>1, <1>2 DEF Holds, At, BeginCatchUp
<1>4. CallsInv'
  BY <1>1, <1>2, <1>3, CallMovesOn DEF BeginCatchUp
<1>5. CacheInv'
  BY DEF BeginCatchUp, IInv, CacheInv
<1> QED BY <1>4, <1>5 DEF BeginCatchUp, IInv, StorageInv

\* The storage is listed for the catch-up.
LEMMA ListKeepsIInv ==
  ASSUME IInv, NEW c \in Clients, ListStorage(c), UNCHANGED host
  PROVE  IInv'
<1> DEFINE k == call[c]
           r == [k EXCEPT !.pc = "merging", !.listed = stored]
<1>1. /\ k \in Calls /\ stored \in Seq(Entry) /\ call' = [call EXCEPT ![c] = r]
      /\ Holds(ToSet(stored), k) /\ k.pc = "listing" /\ projection = "ready"
  BY DEF ListStorage, IInv, CallsInv, StorageInv, At, Opened
<1>2. r \in Calls /\ r.pc = "merging" /\ r.context = k.context /\ r.listed = stored
  <2> HIDE DEF k
  <2> QED BY <1>1 DEF Calls, Opened
<1> HIDE DEF r
<1>3. Holds(ToSet(stored), r) /\ At(projection, r)
  BY <1>1, <1>2 DEF Holds, At, IInv, StorageInv
<1>4. CallsInv'
  BY <1>1, <1>2, <1>3, CallMovesOn DEF ListStorage
<1> QED BY <1>4 DEF ListStorage, IInv, StorageInv, CacheInv

\* What was listed is merged.
LEMMA CatchUpKeepsIInv ==
  ASSUME IInv, NEW c \in Clients, CatchUp(c), UNCHANGED host
  PROVE  IInv'
<1> DEFINE k == call[c]
           r == [k EXCEPT !.pc = "caughtUp"]
<1>1. /\ k \in Calls /\ call' = [call EXCEPT ![c] = r]
      /\ Holds(ToSet(stored), k) /\ k.pc = "merging" /\ projection = "ready"
  BY DEF CatchUp, Goes, IInv, CallsInv, At, Opened
<1>2. r \in Calls /\ r.pc = "caughtUp" /\ r.context = k.context /\ r.listed = k.listed
  <2> HIDE DEF k
  <2> QED BY <1>1, CallAt DEF Opened
<1> HIDE DEF r
<1>3. Holds(ToSet(stored), r) /\ At(projection, r)
  BY <1>1, <1>2 DEF Holds, At
<1>4. CallsInv'
  BY <1>1, <1>2, <1>3, CallMovesOn DEF CatchUp
<1>5. LogOf(ToSet(stored), Reorder(projected, k.listed).keys)
  BY <1>1, ReorderIsLog DEF Holds, IInv, StorageInv, CacheInv
<1>6. CacheInv'
  BY <1>1, <1>5 DEF CatchUp, IInv, CacheInv
<1> QED BY <1>4, <1>6 DEF CatchUp, IInv, StorageInv

\* A call has its context.
LEMMA TakeKeepsIInv ==
  ASSUME IInv, NEW c \in Clients, TakeContext(c), UNCHANGED host
  PROVE  IInv'
<1> DEFINE k == call[c]
           pc == IF k.writes THEN "emit" ELSE "returned"
           r == [k EXCEPT !.context = View, !.pc = pc]
<1>1. /\ k \in Calls /\ call' = [call EXCEPT ![c] = r]
      /\ Holds(ToSet(stored), k) /\ projection = "ready"
  BY DEF TakeContext, IInv, CallsInv, At, Opened
<1>2. LogOf(ToSet(stored), View) /\ View \in Seq(Entry)
  <2>1. LogOf(ToSet(stored), View)
    BY ViewIsLog DEF IInv
  <2>2. ToSet(stored) \subseteq Entry
    <3>1. LogOf(Entry, stored)
      BY DEF IInv, StorageInv, LogOf
    <3> QED BY <3>1, LogIsSeq
  <2> QED BY <2>1, <2>2, LogOfMore DEF LogOf
<1>3. r \in Calls /\ r.pc = pc /\ r.context = View /\ r.listed = k.listed
  <2> HIDE DEF k
  <2> QED BY <1>1, <1>2 DEF Calls, Opened
<1> HIDE DEF r
<1>4. Holds(ToSet(stored), r) /\ At(projection, r)
  BY <1>1, <1>2, <1>3 DEF Holds, At
<1>5. CallsInv'
  BY <1>1, <1>3, <1>4, CallMovesOn DEF TakeContext
<1> QED BY <1>5 DEF TakeContext, IInv, StorageInv, CacheInv

\* What a call writes.
LEMMA WrittenIsEntry ==
  ASSUME StorageInv, host \in HostKinds, NEW context, LogOf(ToSet(stored), context),
         NEW verb \in FileVerbs, NEW now \in host.times, NEW hash \in 1 .. MaxEvents
  PROVE  [hash |-> hash, verb |-> verb, ref |-> FirstRef(verb, context),
          ts |-> EventTime(verb, now, context)] \in Entry
<1>1. context \in Seq(Entry)
  <2>1. ToSet(stored) \subseteq Entry
    <3>1. LogOf(Entry, stored)
      BY DEF StorageInv, LogOf
    <3> QED BY <3>1, LogIsSeq
  <2> QED BY <2>1, LogOfMore DEF LogOf
<1>2. now \in Nat /\ hash \in Nat
  BY MaxEventsIsNat DEF HostKinds
<1>3. EventTime(verb, now, context) \in Nat
  <2>1. \A e \in Entry : e.ts \in Nat
    BY DEF Entry
  <2> QED BY <1>1, <1>2, <2>1, EventTimeIsTime
<1>4. FirstRef(verb, context) \in Nat \cup {NoRef, OwnContent}
  <2>1. \A e \in Entry : e.hash \in Nat
    BY DEF Entry
  <2>2. ObservedLogHeadFromOrdered(context) \in Nat \cup {NoRef}
    BY <1>1, <2>1, HeadIsHash
  <2> QED BY <2>2 DEF FirstRef
<1> QED BY <1>2, <1>3, <1>4 DEF Entry

\* A call stores its event.
LEMMA EmitKeepsIInv ==
  ASSUME IInv, NEW c \in Clients, NEW verb \in FileVerbs, NEW now \in host.times,
         NEW hash \in 1 .. MaxEvents, Emit(c, verb, now, hash), UNCHANGED host
  PROVE  IInv'
<1> DEFINE k == call[c]
           entry == [hash |-> hash, verb |-> verb, ref |-> FirstRef(verb, k.context),
                     ts |-> EventTime(verb, now, k.context)]
           r == [k EXCEPT !.pc = "commit", !.entry = entry]
<1>1. /\ k \in Calls /\ call' = [call EXCEPT ![c] = r] /\ Holds(ToSet(stored), k)
      /\ projection = "ready" /\ stored' = Append(stored, entry) /\ hash \notin HashesOf(stored)
  BY DEF Emit, IInv, CallsInv, At, Opened
<1>2. entry \in Entry /\ entry.hash = hash
  BY <1>1, WrittenIsEntry DEF Holds, IInv
<1> HIDE DEF entry
<1>3. r \in Calls /\ r.pc = "commit" /\ r.context = k.context /\ r.listed = k.listed /\ r.entry = entry
  <2> HIDE DEF k
  <2> QED BY <1>1, <1>2 DEF Calls, Opened
<1> HIDE DEF r
<1>4. StorageInv' /\ ToSet(stored') = ToSet(stored) \cup {entry}
  BY <1>1, <1>2, StoredIsLog DEF IInv
<1>5. Holds(ToSet(stored'), r) /\ At(projection, r)
  BY <1>1, <1>3, <1>4, LogOfMore DEF Holds, At
<1>6. CallsInv'
  <2>1. \A d \in Clients : At(projection, call[d])
    BY DEF IInv, CallsInv
  <2> QED BY <1>1, <1>3, <1>4, <1>5, <2>1, CallMoves DEF Emit
<1>7. CacheInv'
  BY <1>4, LogOfMore DEF Emit, IInv, CacheInv
<1> QED BY <1>4, <1>6, <1>7 DEF IInv

\* The tail is extended with it.
LEMMA CommitKeepsIInv ==
  ASSUME IInv, NEW c \in Clients, CommitReplayEntry(c), UNCHANGED host
  PROVE  IInv'
<1> DEFINE k == call[c]
           r == [k EXCEPT !.pc = "ingest"]
<1>1. /\ k \in Calls /\ call' = [call EXCEPT ![c] = r]
      /\ Holds(ToSet(stored), k) /\ k.pc = "commit" /\ projection = "ready"
  BY DEF CommitReplayEntry, Goes, IInv, CallsInv, At, Opened
<1>2. /\ r \in Calls /\ r.pc = "ingest" /\ r.context = k.context /\ r.listed = k.listed
      /\ r.entry = k.entry
  <2> HIDE DEF k
  <2> QED BY <1>1, CallAt DEF Opened
<1> HIDE DEF r
<1>3. Holds(ToSet(stored), r) /\ At(projection, r)
  BY <1>1, <1>2 DEF Holds, At
<1>4. CallsInv'
  BY <1>1, <1>2, <1>3, CallMovesOn DEF CommitReplayEntry
<1>5. LogOf(ToSet(stored), Extend(View, k.entry))
  BY <1>1, ViewIsLog, ExtendIsLog DEF Holds, IInv, StorageInv
<1>6. CacheInv'
  BY <1>1, <1>5 DEF CommitReplayEntry, IInv, CacheInv
<1> QED BY <1>4, <1>6 DEF CommitReplayEntry, IInv, StorageInv

\* And the projection.
LEMMA IngestKeepsIInv ==
  ASSUME IInv, NEW c \in Clients, IngestOwn(c), UNCHANGED host
  PROVE  IInv'
<1> DEFINE k == call[c]
           r == [k EXCEPT !.pc = "returned"]
<1>1. /\ k \in Calls /\ call' = [call EXCEPT ![c] = r]
      /\ Holds(ToSet(stored), k) /\ k.pc = "ingest" /\ projection = "ready"
  BY DEF IngestOwn, Goes, IInv, CallsInv, At, Opened
<1>2. r \in Calls /\ r.pc = "returned" /\ r.context = k.context /\ r.listed = k.listed
  <2> HIDE DEF k
  <2> QED BY <1>1, CallAt DEF Opened
<1> HIDE DEF r
<1>3. Holds(ToSet(stored), r) /\ At(projection, r)
  BY <1>1, <1>2 DEF Holds, At
<1>4. CallsInv'
  BY <1>1, <1>2, <1>3, CallMovesOn DEF IngestOwn
<1>5. k.entry \in ToSet(stored) /\ k.entry.hash \in Nat
  BY <1>1 DEF Holds, IInv, StorageInv, Channel
<1>6. LogOf(ToSet(stored), Reorder(projected, <<k.entry>>).keys)
  BY <1>5, LogOfOne, ReorderIsLog DEF IInv, StorageInv, CacheInv
<1>7. told' \in Tellings
  BY <1>5 DEF IngestOwn, IInv, CacheInv, Tellings
<1>8. CacheInv'
  BY <1>1, <1>6, <1>7 DEF IngestOwn, IInv, CacheInv
<1> QED BY <1>4, <1>8 DEF IngestOwn, IInv, StorageInv

-----------------------------------------------------------------------------
(* The steps of the environment *)

\* Another program writes to the storage.
LEMMA ExternalKeepsIInv ==
  ASSUME IInv, NEW verb \in host.external, NEW ref \in {NoRef} \cup (1 .. MaxEvents),
         NEW ts \in host.times, NEW hash \in 1 .. MaxEvents,
         ExternalWrite(verb, ref, ts, hash), UNCHANGED host
  PROVE  IInv'
<1> DEFINE entry == [hash |-> hash, verb |-> verb, ref |-> ref, ts |-> ts]
<1>1. entry \in Entry
  <2>1. verb \in FileVerbs /\ ts \in Nat /\ hash \in Nat /\ ref \in Nat \cup {NoRef}
    BY MaxEventsIsNat DEF IInv, HostKinds
  <2> QED BY <2>1 DEF Entry
<1>2. stored' = Append(stored, entry) /\ entry.hash = hash /\ hash \notin HashesOf(stored)
  BY DEF ExternalWrite
<1> HIDE DEF entry
<1>3. StorageInv' /\ ToSet(stored') = ToSet(stored) \cup {entry}
  BY <1>1, <1>2, StoredIsLog DEF IInv
<1>4. UNCHANGED <<projection, projected, replayTail, dirty, call, told>>
  BY DEF ExternalWrite
<1>5. CallsInv'
  BY <1>3, <1>4, LogOfMore DEF IInv, CallsInv, Holds
<1>6. CacheInv'
  BY <1>3, <1>4, LogOfMore DEF IInv, CacheInv
<1> QED BY <1>3, <1>5, <1>6 DEF IInv

\* The cache is told of events.
LEMMA ToldKeepsIInv ==
  ASSUME IInv, MarkReplayStale \/ (\E entry \in ToSet(stored) : ApplyInboundEvent(entry)),
         UNCHANGED host
  PROVE  IInv'
<1>1. UNCHANGED <<stored, projection, call>>
  BY DEF MarkReplayStale, ApplyInboundEvent
<1>2. CASE MarkReplayStale
  <2>1. HashesOf(stored) \in SUBSET Nat
    <3>1. \A e \in ToSet(stored) : e.hash \in Nat
      BY DEF IInv, StorageInv, Channel
    <3> QED BY <3>1, HashesAreOf DEF IInv, StorageInv
  <2>2. told' \in Tellings
    BY <1>2, <2>1 DEF MarkReplayStale, IInv, CacheInv, Tellings
  <2>3. CacheInv'
    BY <1>2, <2>2 DEF MarkReplayStale, IInv, CacheInv
  <2> QED BY <1>1, <2>3 DEF IInv, StorageInv, CallsInv
<1>3. ASSUME NEW entry \in ToSet(stored), ApplyInboundEvent(entry) PROVE IInv'
  <2>1. entry.hash \in Nat
    BY DEF IInv, StorageInv, Channel
  <2>2. LogOf(ToSet(stored), Reorder(projected, <<entry>>).keys)
    BY LogOfOne, ReorderIsLog DEF IInv, StorageInv, CacheInv
  <2>3. told' \in Tellings
    BY <1>3, <2>1 DEF ApplyInboundEvent, IInv, CacheInv, Tellings
  <2>4. CacheInv'
    BY <1>3, <2>2, <2>3 DEF ApplyInboundEvent, IInv, CacheInv
  <2> QED BY <1>1, <2>4 DEF IInv, StorageInv, CallsInv
<1> QED BY <1>2, <1>3

-----------------------------------------------------------------------------
(* Theorems about every host *)

\* Every step keeps the invariant.
LEMMA NextIInv == IInv /\ [Next]_vars => IInv'
<1> SUFFICES ASSUME IInv, [Next]_vars PROVE IInv'
  OBVIOUS
<1>1. CASE UNCHANGED vars
  BY <1>1 DEF vars, IInv, StorageInv, CacheInv, CallsInv
<1>2. ASSUME NEW c \in Clients, ClientStep(c), UNCHANGED host PROVE IInv'
  <2>1. {"CREATE_FILE", "RENAME"} \subseteq FileVerbs
    BY DEF FileVerbs
  <2> QED BY <1>2, <2>1, StartKeepsIInv, OpenKeepsIInv, OpenedKeepsIInv, EndKeepsIInv,
             BeginCatchUpKeepsIInv, ListKeepsIInv, CatchUpKeepsIInv, TakeKeepsIInv,
             EmitKeepsIInv, CommitKeepsIInv, IngestKeepsIInv DEF ClientStep
<1>3. ASSUME EnvironmentStep, UNCHANGED host PROVE IInv'
  BY <1>3, ExternalKeepsIInv, ToldKeepsIInv DEF EnvironmentStep
<1> QED BY <1>1, <1>2, <1>3 DEF Next

\* The inductive invariant holds of every host.
THEOREM CacheIsSound == Spec => []IInv
BY InitIInv, NextIInv, PTL DEF Spec

\* The type invariant of the replay cache: what is served is in the storage,
\* every event once, and there is nothing to serve before the projection.
THEOREM CacheTypeCorrect == Spec => []TypeOK
<1>1. IInv => TypeOK
  <2> SUFFICES ASSUME IInv PROVE TypeOK
    OBVIOUS
  <2>1. \A log : LogOf(ToSet(stored), log) => ToSet(log) \subseteq ToSet(stored)
    BY LogIsSeq
  <2> QED BY <2>1 DEF IInv, StorageInv, CacheInv, CallsInv, Holds, LogOf, TypeOK
<1> QED BY <1>1, CacheIsSound, PTL

-----------------------------------------------------------------------------
(* A host that nobody tells of events.  Other programs may write to the     *)
(* storage, calls may run side by side, the storage may fail; but no event  *)
(* arrives before its parent.  Then the view only grows: what a call was    *)
(* answered from stays in it, and so does every write.                      *)

Lone == ~host.staleMarks /\ ~host.inboundEvents /\ ~host.missingParents

\* q shows every FILES event no later than the event e names as its parent.
LeadsTo(q, e) ==
  \A f \in ToSet(q) : IsFileEventEntry(f) =>
    \E i, m \in 1 .. Len(q) : i <= m /\ q[i] = f /\ q[m].hash = ParentOf(e)

\* What a call may rely on, when S is stored, v is the view, and the events in
\* `written` have been answered for.
Relies(S, v, written, k) ==
  /\ k.pc \notin {"listing", "merging", "caughtUp"}
  /\ k.pc = "opening" => Arrived(k.listed)
  /\ k.due.written \subseteq written
  /\ k.pc \in {"emit", "commit", "ingest", "returned"} =>
       /\ ViewOf(S, k.context) /\ ToSet(k.context) \subseteq ToSet(v)
       /\ k.due.written \subseteq FileHashes(k.context)
  /\ k.pc \in {"commit", "ingest"} => IsFileEventEntry(k.entry)
  /\ k.pc = "commit" /\ ParentOf(k.entry) # NoRef =>
       \E f \in ToSet(k.context) : f.hash = ParentOf(k.entry)
  /\ k.pc = "ingest" => k.entry \in ToSet(v)

\* The event h was written on a view that had all it is to follow.
WrittenAfter(S, before, h) ==
  \E e \in S : \E q : e.hash = h /\ ViewOf(S, q) /\ before \subseteq FileHashes(q) /\ LeadsTo(q, e)

LoneInv ==
  /\ Lone
  /\ Arrived(stored)
  /\ ~dirty /\ told.marked = {} /\ told.inbound = {}
  /\ ViewOf(ToSet(stored), View)
  /\ told.written \subseteq FileHashes(View)
  /\ \A c \in Clients : Relies(ToSet(stored), View, told.written, call[c])
  /\ \A c \in Clients : call[c].pc = "ingest" => replayTail # NoTail
  /\ \A h \in DOMAIN observed : WrittenAfter(ToSet(stored), observed[h], h)

\* FILES events of a larger log.
LEMMA FileHashesOfMore ==
  ASSUME NEW p, NEW q, ToSet(p) \subseteq ToSet(q)
  PROVE  FileHashes(p) \subseteq FileHashes(q)
BY DEF FileHashes

\* What a call relies on stays true when storage, view and answers grow.
LEMMA ReliesOfMore ==
  ASSUME NEW A, NEW B, A \subseteq B, NEW v, NEW w, ToSet(v) \subseteq ToSet(w),
         NEW before, NEW after, before \subseteq after, NEW k, Relies(A, v, before, k)
  PROVE  Relies(B, w, after, k)
<1>1. ViewOf(A, k.context) => ViewOf(B, k.context)
  BY ViewOfMore
<1> QED BY <1>1 DEF Relies

\* The view extended with an event whose parent it has.
LEMMA ExtendIsView ==
  ASSUME StorageInv, Arrived(stored), NEW v, ViewOf(ToSet(stored), v),
         NEW e \in ToSet(stored),
         ParentOf(e) # NoRef => \E f \in ToSet(v) : f.hash = ParentOf(e)
  PROVE  ViewOf(ToSet(stored), Extend(v, e)) /\ ToSet(Extend(v, e)) = ToSet(v) \cup {e}
<1> DEFINE S == ToSet(stored)
           log == Append(v, e)
           order == OrderEventLogEntries(log)
<1>1. /\ LogOf(S, stored) /\ Channel(S) /\ ToSet(v) \subseteq S
      /\ LogOf(ToSet(v), v) /\ LogOf(S, v)
  BY LogOfMore DEF StorageInv, ViewOf, Canonical
<1>2. CASE e.hash \in HashesOf(v)
  <2>1. PICK f \in ToSet(v) : f.hash = e.hash
    BY <1>1, <1>2, HashesAreOf
  <2>2. f = e
    BY <1>1, <2>1 DEF Channel
  <2> QED BY <1>2, <2>1, <2>2 DEF Extend
<1>3. CASE e.hash \notin HashesOf(v)
  <2>1. e \notin ToSet(v)
    BY <1>1, <1>3, HashesAreOf
  <2>2. LogOf(S, log) /\ ToSet(log) = ToSet(v) \cup {e}
    BY <1>1, <2>1, LogOfAppend
  <2>3. Extend(v, e) = order
    BY <1>3 DEF Extend
  <2> HIDE DEF log
  <2>4. Closed(ToSet(log))
    BY <2>2 DEF Closed, ViewOf
  <2>5. \A d \in ToSet(log) : d.ts # NoTime
    <3>1. \A d \in S : d.ts \in Nat
      <4>1. LogOf(Entry, stored)
        BY DEF StorageInv, LogOf
      <4>2. S \subseteq Entry
        BY <4>1, LogIsSeq
      <4> HIDE DEF S
      <4> QED BY <4>2 DEF Entry
    <3> QED BY <1>1, <2>2, <3>1, MarksNotNumbers
  <2>6. Canonical(ToSet(log), order)
    BY <1>1, <2>2, <2>4, <2>5, OrdersAreOne, OrderIsCanonical
  <2>7. ToSet(order) = ToSet(log)
    <3>1. ToSet(log) \in SUBSET S
      BY <1>1, <2>2
    <3> QED BY <1>1, <2>6, <3>1, ArrivedIsOrdered
  <2> QED BY <1>1, <2>2, <2>3, <2>4, <2>6, <2>7 DEF ViewOf
<1> QED BY <1>2, <1>3

\* Nothing is a view.
LEMMA NothingIsView ==
  ASSUME NEW S
  PROVE  ViewOf(S, <<>>) /\ FileHashes(<<>>) = {}
<1>1. Len(<<>>) = 0 /\ 1 .. 0 = {}
  OBVIOUS
<1> QED BY <1>1, NothingIsLog DEF ViewOf, Canonical, Closed, Free, FileHashes

-----------------------------------------------------------------------------
(* The steps of a call in a lone host *)

\* A step of one call.
LEMMA LoneCallMoves ==
  ASSUME IInv, LoneInv, NEW c \in Clients, NEW r, call' = [call EXCEPT ![c] = r],
         ToSet(stored) \subseteq ToSet(stored'), ToSet(View) \subseteq ToSet(View'),
         told.written \subseteq told'.written,
         Relies(ToSet(stored'), View', told'.written, r)
  PROVE  \A d \in Clients : Relies(ToSet(stored'), View', told'.written, call'[d])
<1> SUFFICES ASSUME NEW d \in Clients
             PROVE  Relies(ToSet(stored'), View', told'.written, call'[d])
  OBVIOUS
<1>1. call'[d] = IF d = c THEN r ELSE call[d]
  BY DEF IInv, CallsInv
<1>2. Relies(ToSet(stored), View, told.written, call[d])
  BY DEF LoneInv
<1>3. Relies(ToSet(stored'), View', told'.written, call[d])
  BY <1>2, ReliesOfMore
<1> QED BY <1>1, <1>3

\* A step of one call that leaves the view and the storage as they were.
LEMMA LoneCallMovesOn ==
  ASSUME IInv, LoneInv, NEW c \in Clients, NEW r, call' = [call EXCEPT ![c] = r],
         UNCHANGED <<host, stored, replayTail, dirty, told, observed>>,
         View' = View, r.pc # "ingest", Relies(ToSet(stored), View, told.written, r)
  PROVE  LoneInv'
<1>1. \A d \in Clients : Relies(ToSet(stored'), View', told'.written, call'[d])
  BY LoneCallMoves
<1>2. \A d \in Clients : call'[d].pc = "ingest" => replayTail' # NoTail
  BY DEF IInv, CallsInv, LoneInv
<1> QED BY <1>1, <1>2 DEF LoneInv, Lone

\* No call relies on nothing.
LEMMA IdleRelies ==
  ASSUME NEW S, NEW v, NEW written
  PROVE  Relies(S, v, written, Idle)
BY DEF Relies, Idle, NothingTold

\* A call begins: what it is due has been answered for.
LEMMA StartKeepsLone ==
  ASSUME IInv, LoneInv, NEW c \in Clients, NEW writes \in BOOLEAN, Start(c, writes),
         UNCHANGED host
  PROVE  LoneInv'
<1> DEFINE r == [Idle EXCEPT !.pc = "ensure", !.writes = writes, !.due = told]
<1>1. r.pc = "ensure" /\ r.due = told
  BY DEF Idle
<1>2. call' = [call EXCEPT ![c] = r] /\ View' = View
  BY DEF Start, View
<1> HIDE DEF r
<1>3. Relies(ToSet(stored), View, told.written, r)
  BY <1>1 DEF Relies
<1> QED BY <1>1, <1>2, <1>3, LoneCallMovesOn DEF Start

\* The storage that is listed has parents first.
LEMMA OpenKeepsLone ==
  ASSUME IInv, LoneInv, NEW c \in Clients, OpenProjection(c), UNCHANGED host
  PROVE  LoneInv'
<1> DEFINE k == call[c]
           r == [k EXCEPT !.pc = "opening", !.listed = stored]
<1>1. k \in Calls /\ Relies(ToSet(stored), View, told.written, k)
  BY DEF IInv, CallsInv, LoneInv
<1>2. r.pc = "opening" /\ r.listed = stored /\ r.due = k.due
  <2> HIDE DEF k
  <2> QED BY <1>1 DEF Calls
<1>3. call' = [call EXCEPT ![c] = r] /\ View' = View
  BY DEF OpenProjection, View
<1> HIDE DEF r
<1>4. Relies(ToSet(stored), View, told.written, r)
  BY <1>1, <1>2 DEF Relies, LoneInv
<1> QED BY <1>2, <1>3, <1>4, LoneCallMovesOn DEF OpenProjection

\* The projection is a view of what was listed.
LEMMA OpenedKeepsLone ==
  ASSUME IInv, LoneInv, NEW c \in Clients, ProjectionOpened(c), UNCHANGED host
  PROVE  LoneInv'
<1> DEFINE k == call[c]
           r == [k EXCEPT !.pc = "ensure"]
           order == OrderFileKeys(k.listed)
<1>1. /\ k \in Calls /\ k.pc = "opening" /\ call' = [call EXCEPT ![c] = r]
      /\ Relies(ToSet(stored), View, told.written, k)
  BY DEF ProjectionOpened, Goes, IInv, CallsInv, LoneInv
<1>2. r.pc = "ensure" /\ r.due = k.due
  <2> HIDE DEF k
  <2> QED BY <1>1, CallAt
<1> HIDE DEF r
<1>3. projection = "opening" /\ View = <<>> /\ View' = order
  <2>1. projection = "opening"
    BY <1>1 DEF IInv, CallsInv, At
  <2> QED BY <2>1 DEF ProjectionOpened, View, IInv, CacheInv
<1>4. ViewOf(ToSet(stored), order)
  <2>1. LogOf(ToSet(stored), k.listed) /\ Channel(ToSet(stored)) /\ Arrived(k.listed)
    BY <1>1 DEF IInv, CallsInv, Holds, StorageInv, Relies
  <2>2. Canonical(ToSet(k.listed), order) /\ ToSet(k.listed) \subseteq ToSet(stored)
    BY <2>1, OrderIsCanonical, LogIsSeq
  <2>3. ToSet(order) = ToSet(k.listed) /\ Closed(ToSet(k.listed))
    BY <2>1, <2>2, ArrivedIsOrdered
  <2> QED BY <2>2, <2>3 DEF ViewOf
<1> HIDE DEF order
<1>5. told.written \subseteq FileHashes(order) /\ ToSet(View) = {}
  BY <1>3, NothingIsView, NothingIsLog DEF LoneInv
<1>6. Relies(ToSet(stored), order, told.written, r)
  BY <1>1, <1>2 DEF Relies
<1>7. \A d \in Clients : Relies(ToSet(stored'), View', told'.written, call'[d])
  BY <1>1, <1>3, <1>5, <1>6, LoneCallMoves DEF ProjectionOpened
<1>8. \A d \in Clients : call'[d].pc = "ingest" => replayTail' # NoTail
  BY <1>1, <1>2 DEF IInv, CallsInv, LoneInv, ProjectionOpened
<1> QED BY <1>3, <1>4, <1>5, <1>7, <1>8 DEF LoneInv, Lone, ProjectionOpened

\* A call ends.
LEMMA EndKeepsLone ==
  ASSUME IInv, LoneInv, NEW c \in Clients, Rejected(c) \/ StorageFails(c) \/ Return(c),
         UNCHANGED host
  PROVE  LoneInv'
<1>1. /\ call' = [call EXCEPT ![c] = Idle]
      /\ UNCHANGED <<stored, projected, replayTail, dirty, told, observed>>
  BY DEF Rejected, StorageFails, Return
<1>2. Idle.pc # "ingest" /\ View' = View
  BY <1>1 DEF Idle, View
<1> QED BY <1>1, <1>2, IdleRelies, LoneCallMovesOn

\* Nobody marks the volume stale, and so nobody reads it again.
LEMMA NoCatchUp ==
  ASSUME IInv, LoneInv, NEW c \in Clients
  PROVE  ~BeginCatchUp(c) /\ ~ListStorage(c) /\ ~CatchUp(c)
BY DEF LoneInv, Relies, BeginCatchUp, ListStorage, CatchUp, Goes

\* A call has its context: the view, with all that has been answered for.
LEMMA TakeKeepsLone ==
  ASSUME IInv, LoneInv, NEW c \in Clients, TakeContext(c), UNCHANGED host
  PROVE  LoneInv'
<1> DEFINE k == call[c]
           pc == IF k.writes THEN "emit" ELSE "returned"
           r == [k EXCEPT !.context = View, !.pc = pc]
<1>1. /\ k \in Calls /\ call' = [call EXCEPT ![c] = r]
      /\ Relies(ToSet(stored), View, told.written, k) /\ View' = View
  BY DEF TakeContext, IInv, CallsInv, LoneInv, View
<1>2. r.pc = pc /\ r.context = View /\ r.due = k.due
  <2> HIDE DEF k
  <2> QED BY <1>1 DEF Calls
<1> HIDE DEF r
<1>3. k.due.written \subseteq FileHashes(View) /\ ViewOf(ToSet(stored), View)
  BY <1>1 DEF Relies, LoneInv
<1>4. Relies(ToSet(stored), View, told.written, r)
  BY <1>1, <1>2, <1>3 DEF Relies
<1>5. r.pc # "ingest"
  BY <1>2
<1> QED BY <1>1, <1>4, <1>5, LoneCallMovesOn DEF TakeContext

\* An event keeps that parents come first when its own is stored, or none.
LEMMA ParentStored ==
  ASSUME IInv, LoneInv, NEW entry \in Entry, entry.hash \notin HashesOf(stored),
         ParentOf(entry) # NoRef => \E f \in ToSet(stored) : f.hash = ParentOf(entry),
         stored' = Append(stored, entry)
  PROVE  Arrived(stored')
BY ArrivedAfter DEF IInv, StorageInv, LoneInv

\* A call stores its event, written on a view that had all it is due.
LEMMA EmitKeepsLone ==
  ASSUME IInv, LoneInv, NEW c \in Clients, NEW verb \in FileVerbs, NEW now \in host.times,
         NEW hash \in 1 .. MaxEvents, Emit(c, verb, now, hash), UNCHANGED host
  PROVE  LoneInv'
<1> DEFINE k == call[c]
           q == k.context
           entry == [hash |-> hash, verb |-> verb, ref |-> FirstRef(verb, k.context),
                     ts |-> EventTime(verb, now, k.context)]
           r == [k EXCEPT !.pc = "commit", !.entry = entry]
           S == ToSet(stored)
           T == ToSet(stored')
<1>1. /\ k \in Calls /\ call' = [call EXCEPT ![c] = r] /\ Holds(S, k) /\ k.pc = "emit"
      /\ Relies(S, View, told.written, k)
      /\ stored' = Append(stored, entry) /\ hash \notin HashesOf(stored)
      /\ UNCHANGED <<projection, projected, replayTail, dirty, told>> /\ View' = View
      /\ observed' = [h \in DOMAIN observed \cup {hash} |->
                        IF h = hash THEN k.due.written ELSE observed[h]]
  BY DEF Emit, IInv, CallsInv, LoneInv, View
<1>2. entry \in Entry /\ entry.hash = hash /\ IsFileEventEntry(entry)
  BY <1>1, WrittenIsEntry DEF Holds, IInv, IsFileEventEntry
<1>3. /\ ParentOf(entry) # NoRef => \E f \in ToSet(q) : f.hash = ParentOf(entry)
      /\ LeadsTo(q, entry)
  <2>1. entry.ref = FirstRef(entry.verb, q) /\ LogOf(S, q) /\ Channel(S)
    BY <1>1 DEF Holds, IInv, StorageInv
  <2> HIDE DEF entry
  <2> QED BY <1>2, <2>1, HeadIsLast DEF LeadsTo
<1> HIDE DEF entry
<1>4. /\ r.pc = "commit" /\ r.context = q /\ r.entry = entry /\ r.due = k.due
  <2> HIDE DEF k
  <2> QED BY <1>1 DEF Calls
<1> HIDE DEF r
<1>5. T = S \cup {entry}
  BY <1>1, <1>2, StoredIsLog DEF IInv
<1>6. ViewOf(S, q) /\ k.due.written \subseteq FileHashes(q) /\ ToSet(q) \subseteq ToSet(View)
  BY <1>1 DEF Relies
<1>7. Arrived(stored')
  <2>1. ToSet(q) \subseteq S
    BY <1>6 DEF ViewOf
  <2> QED BY <1>1, <1>2, <1>3, <2>1, ParentStored
<1>8. Relies(T, View, told.written, r)
  <2>1. ViewOf(T, q)
    BY <1>5, <1>6, ViewOfMore
  <2> QED BY <1>1, <1>2, <1>3, <1>4, <1>6, <2>1 DEF Relies
<1>9. \A d \in Clients : Relies(T, View', told'.written, call'[d])
  BY <1>1, <1>5, <1>8, LoneCallMoves
<1>10. \A d \in Clients : call'[d].pc = "ingest" => replayTail' # NoTail
  BY <1>1, <1>4 DEF IInv, CallsInv, LoneInv
<1>11. \A h \in DOMAIN observed' : WrittenAfter(T, observed'[h], h)
  <2>1. WrittenAfter(T, k.due.written, hash)
    BY <1>2, <1>3, <1>5, <1>6, ViewOfMore DEF WrittenAfter
  <2>2. ASSUME NEW h \in DOMAIN observed PROVE WrittenAfter(T, observed[h], h)
    BY <1>5, ViewOfMore DEF LoneInv, WrittenAfter
  <2> HIDE DEF T
  <2> QED BY <1>1, <2>1, <2>2
<1>12. ViewOf(T, View)
  BY <1>5, ViewOfMore DEF LoneInv
<1> QED BY <1>1, <1>7, <1>9, <1>10, <1>11, <1>12 DEF LoneInv, Lone

\* The tail has what the view had, and the event.
LEMMA CommitKeepsLone ==
  ASSUME IInv, LoneInv, NEW c \in Clients, CommitReplayEntry(c), UNCHANGED host
  PROVE  LoneInv'
<1> DEFINE k == call[c]
           r == [k EXCEPT !.pc = "ingest"]
           S == ToSet(stored)
           v == Extend(View, k.entry)
<1>1. /\ k \in Calls /\ call' = [call EXCEPT ![c] = r] /\ Holds(S, k) /\ k.pc = "commit"
      /\ Relies(S, View, told.written, k) /\ replayTail' = v
      /\ UNCHANGED <<stored, projection, projected, dirty, told, observed>>
  BY DEF CommitReplayEntry, Goes, IInv, CallsInv, LoneInv
<1>2. r.pc = "ingest" /\ r.context = k.context /\ r.entry = k.entry /\ r.due = k.due
  <2> HIDE DEF k
  <2> QED BY <1>1, CallAt DEF Opened
<1> HIDE DEF r
<1>3. k.entry \in S
  BY <1>1 DEF Holds
<1>4. ViewOf(S, v) /\ ToSet(v) = ToSet(View) \cup {k.entry}
  <2>1. ParentOf(k.entry) # NoRef => \E f \in ToSet(View) : f.hash = ParentOf(k.entry)
    BY <1>1 DEF Relies
  <2> QED BY <1>3, <2>1, ExtendIsView DEF IInv, LoneInv
<1>5. v # NoTail
  <2>1. LogOf(Entry, stored)
    BY DEF IInv, StorageInv, LogOf
  <2>2. v \in Seq(S) /\ S \subseteq Entry
    BY <1>3, <2>1, ViewIsLog, ExtendIsLog, LogIsSeq DEF IInv, StorageInv, LogOf
  <2>3. v \in Seq(Entry)
    BY <2>2, SeqDef
  <2> QED BY <2>3, NoTailIsNoContext
<1> HIDE DEF v
<1>6. View' = v
  BY <1>1, <1>5 DEF View
<1>7. told.written \subseteq FileHashes(v)
  BY <1>4, FileHashesOfMore DEF LoneInv
<1>8. Relies(S, v, told.written, r)
  BY <1>1, <1>2, <1>4 DEF Relies
<1>9. \A d \in Clients : Relies(S, v, told.written, call'[d])
  BY <1>1, <1>4, <1>6, <1>8, LoneCallMoves
<1> QED BY <1>1, <1>4, <1>5, <1>6, <1>7, <1>9 DEF LoneInv, Lone

\* The write is answered for; the tail has it.
LEMMA IngestKeepsLone ==
  ASSUME IInv, LoneInv, NEW c \in Clients, IngestOwn(c), UNCHANGED host
  PROVE  LoneInv'
<1> DEFINE k == call[c]
           r == [k EXCEPT !.pc = "returned"]
           S == ToSet(stored)
<1>1. /\ k \in Calls /\ call' = [call EXCEPT ![c] = r] /\ k.pc = "ingest"
      /\ Relies(S, View, told.written, k) /\ replayTail # NoTail
      /\ UNCHANGED <<stored, projection, replayTail, dirty, observed>>
  BY DEF IngestOwn, Goes, IInv, CallsInv, LoneInv
<1>2. r.pc = "returned" /\ r.context = k.context /\ r.due = k.due
  <2> HIDE DEF k
  <2> QED BY <1>1, CallAt DEF Opened
<1> HIDE DEF r
<1>3. View' = View
  BY <1>1 DEF View
<1>4. /\ told'.written = told.written \cup {k.entry.hash}
      /\ told'.marked = told.marked /\ told'.inbound = told.inbound
  BY DEF IngestOwn, IInv, CacheInv, Tellings
<1>5. k.entry.hash \in FileHashes(View)
  BY <1>1 DEF Relies, FileHashes
<1>6. Relies(S, View, told'.written, r)
  BY <1>1, <1>2, <1>4 DEF Relies
<1>7. \A d \in Clients : Relies(S, View, told'.written, call'[d])
  BY <1>1, <1>3, <1>4, <1>6, LoneCallMoves
<1> QED BY <1>1, <1>3, <1>4, <1>5, <1>7 DEF LoneInv, Lone

\* Another program's event has its parent in the storage.
LEMMA ExternalKeepsLone ==
  ASSUME IInv, LoneInv, NEW verb \in host.external, NEW ref \in {NoRef} \cup (1 .. MaxEvents),
         NEW ts \in host.times, NEW hash \in 1 .. MaxEvents,
         ExternalWrite(verb, ref, ts, hash), UNCHANGED host
  PROVE  LoneInv'
<1> DEFINE entry == [hash |-> hash, verb |-> verb, ref |-> ref, ts |-> ts]
           S == ToSet(stored)
           T == ToSet(stored')
<1>1. entry \in Entry
  <2>1. verb \in FileVerbs /\ ts \in Nat /\ hash \in Nat /\ ref \in Nat \cup {NoRef}
    BY MaxEventsIsNat DEF IInv, HostKinds
  <2> QED BY <2>1 DEF Entry
<1>2. /\ stored' = Append(stored, entry) /\ entry.hash = hash /\ hash \notin HashesOf(stored)
      /\ entry.ref = ref /\ (ref = NoRef \/ ref \in FileHashes(stored))
      /\ UNCHANGED <<projection, projected, replayTail, dirty, call, told, observed>>
  BY DEF ExternalWrite, LoneInv, Lone
<1> HIDE DEF entry
<1>3. T = S \cup {entry}
  BY <1>1, <1>2, StoredIsLog DEF IInv
<1>4. Arrived(stored')
  <2>1. ParentOf(entry) # NoRef => ParentOf(entry) = ref
    BY <1>2 DEF ParentOf, ObservedLogHeadRef
  <2> QED BY <1>1, <1>2, <2>1, ParentStored DEF FileHashes
<1>5. View' = View
  BY <1>2 DEF View
<1>6. ViewOf(T, View)
  BY <1>3, ViewOfMore DEF LoneInv
<1>7. \A c \in Clients : Relies(T, View, told.written, call[c])
  BY <1>3, ReliesOfMore DEF LoneInv
<1>8. \A h \in DOMAIN observed : WrittenAfter(T, observed[h], h)
  BY <1>3, ViewOfMore DEF LoneInv, WrittenAfter
<1> QED BY <1>2, <1>4, <1>5, <1>6, <1>7, <1>8 DEF LoneInv, Lone

-----------------------------------------------------------------------------
(* Theorems about a lone host *)

\* Before the first call nothing has been promised.
LEMMA InitLone == Init /\ Lone => LoneInv
<1> SUFFICES ASSUME Init, Lone PROVE LoneInv
  OBVIOUS
<1>1. stored = <<>> /\ View = <<>> /\ observed = <<>> /\ told = NothingTold
  BY DEF Init, View
<1>2. Arrived(<<>>)
  BY DEF Arrived
<1>3. \A c \in Clients : call[c] = Idle
  BY DEF Init
<1> QED BY <1>1, <1>2, <1>3, NothingIsView, IdleRelies DEF Init, LoneInv, NothingTold, Idle

\* Every step keeps what a lone host promises.
LEMMA NextLone == IInv /\ LoneInv /\ [Next]_vars => LoneInv'
<1> SUFFICES ASSUME IInv, LoneInv, [Next]_vars PROVE LoneInv'
  OBVIOUS
<1>1. CASE UNCHANGED vars
  BY <1>1 DEF vars, LoneInv, Lone, View
<1>2. ASSUME NEW c \in Clients, ClientStep(c), UNCHANGED host PROVE LoneInv'
  <2>1. {"CREATE_FILE", "RENAME"} \subseteq FileVerbs
    BY DEF FileVerbs
  <2> QED BY <1>2, <2>1, StartKeepsLone, OpenKeepsLone, OpenedKeepsLone, EndKeepsLone,
             NoCatchUp, TakeKeepsLone, EmitKeepsLone, CommitKeepsLone, IngestKeepsLone
             DEF ClientStep
<1>3. ASSUME EnvironmentStep, UNCHANGED host PROVE LoneInv'
  <2>1. ~MarkReplayStale /\ \A entry : ~ApplyInboundEvent(entry)
    BY DEF MarkReplayStale, ApplyInboundEvent, LoneInv, Lone
  <2> QED BY <1>3, <2>1, ExternalKeepsLone DEF EnvironmentStep
<1> QED BY <1>1, <1>2, <1>3 DEF Next

\* What a lone host promises holds at all times.
THEOREM LoneHostIsSound == Spec /\ Lone => []LoneInv
BY InitLone, NextLone, CacheIsSound, PTL DEF Spec

\* A caller of a lone host sees every write that had returned before the call
\* began, of any client, whatever other calls do meanwhile.
THEOREM LoneReadsItsWrites == Spec /\ Lone => []ReadYourWrites
<1>1. IInv /\ LoneInv => ReadYourWrites
  <2> SUFFICES ASSUME IInv, LoneInv, NEW c \in Clients, HasContext(c)
               PROVE  call[c].due.written \subseteq HashesOf(call[c].context)
    BY DEF ReadYourWrites
  <2>1. Relies(ToSet(stored), View, told.written, call[c])
    BY DEF LoneInv
  <2>2. call[c].due.written \subseteq FileHashes(call[c].context)
    BY <2>1 DEF Relies, HasContext
  <2>3. HashesOf(call[c].context) = {e.hash : e \in ToSet(call[c].context)}
    BY HashesAreOf DEF IInv, CallsInv, Holds
  <2> QED BY <2>2, <2>3 DEF FileHashes
<1> QED BY <1>1, CacheIsSound, LoneHostIsSound, PTL

\* Writes of a lone host replay in the order in which they were made, whatever
\* the clock said.
THEOREM LoneWritesInOrder == Spec /\ Lone => []WritesReplayInOrder
<1>1. IInv /\ LoneInv => WritesReplayInOrder
  <2> SUFFICES ASSUME IInv, LoneInv, NEW h \in DOMAIN observed, NEW g \in observed[h],
                      {g, h} \subseteq HashesOf(View)
               PROVE  Before(View, g, h)
    BY DEF WritesReplayInOrder
  <2> DEFINE S == ToSet(stored)
  <2>1. PICK e \in S : \E q : /\ e.hash = h /\ ViewOf(S, q)
                               /\ observed[h] \subseteq FileHashes(q) /\ LeadsTo(q, e)
    BY DEF LoneInv, WrittenAfter
  <2>2. PICK q : /\ e.hash = h /\ ViewOf(S, q)
                 /\ observed[h] \subseteq FileHashes(q) /\ LeadsTo(q, e)
    BY <2>1
  <2>3. PICK f \in ToSet(q) : f.hash = g /\ IsFileEventEntry(f)
    BY <2>2 DEF FileHashes
  <2>4. PICK i, m \in 1 .. Len(q) : i <= m /\ q[i] = f /\ q[m].hash = ParentOf(e)
    BY <2>2, <2>3 DEF LeadsTo
  <2>5. /\ HashesOf(View) = {d.hash : d \in ToSet(View)} /\ ToSet(View) \subseteq S
        /\ ToSet(q) \subseteq S /\ Channel(S) /\ ViewOf(S, View)
    BY <2>2, ViewIsLog, HashesAreOf, LogIsSeq DEF IInv, StorageInv, LoneInv, ViewOf
  <2>6. e \in ToSet(View) /\ f \in ToSet(View)
    BY <2>2, <2>3, <2>5 DEF Channel
  <2> QED BY <2>2, <2>3, <2>4, <2>5, <2>6, FollowsItsView
<1> QED BY <1>1, CacheIsSound, LoneHostIsSound, PTL

\* When all that is stored has been written here and answered for, the view is
\* the replay of the storage: that of a program that has just been started.
THEOREM LoneQuietView == Spec /\ Lone => []QuietViewIsReplay
<1>1. IInv /\ LoneInv => QuietViewIsReplay
  <2> SUFFICES ASSUME IInv, LoneInv,
                      HashesOf(stored) \subseteq told.written \cup told.marked \cup told.inbound
               PROVE  View = OrderFileKeys(stored)
    BY DEF QuietViewIsReplay
  <2> DEFINE S == ToSet(stored)
  <2>1. /\ LogOf(S, stored) /\ Channel(S) /\ ViewOf(S, View)
        /\ HashesOf(stored) = {e.hash : e \in S}
    BY HashesAreOf DEF IInv, StorageInv, LoneInv
  <2>2. HashesOf(stored) \subseteq FileHashes(View)
    BY DEF LoneInv
  <2>3. S \subseteq ToSet(View)
    <3> SUFFICES ASSUME NEW e \in S PROVE e \in ToSet(View)
      OBVIOUS
    <3>1. PICK f \in ToSet(View) : f.hash = e.hash
      BY <2>1, <2>2 DEF FileHashes
    <3> QED BY <2>1, <3>1 DEF ViewOf, Channel
  <2>4. ToSet(View) = S
    BY <2>1, <2>3 DEF ViewOf
  <2>5. Canonical(S, View) /\ Canonical(S, OrderFileKeys(stored))
    BY <2>1, <2>4, OrderIsCanonical DEF ViewOf
  <2> QED BY <2>1, <2>5, CanonicalIsUnique
<1> QED BY <1>1, CacheIsSound, LoneHostIsSound, PTL

-----------------------------------------------------------------------------
(* A host that makes one call at a time.  It may be told of events, by      *)
(* marks and beside them, if it does not write, by applyInboundEvent.  Then *)
(* the tail, when it is not marked stale, shadows nothing: the projection   *)
(* only grows, and the tail has all of it.  A catch-up that fails loses the *)
(* mark that it took, and so the listing must not fail.                     *)

Solo ==
  /\ host.calls = 1
  /\ ~host.missingParents
  /\ ~(host.writes /\ host.inboundEvents)
  /\ "listing" \notin host.failures

Shows(log, hashes) == hashes \subseteq {e.hash : e \in ToSet(log)}

\* What is served of the projection p and the tail.
Served(p, tail) == IF tail # NoTail THEN tail ELSE p

\* What a call under way may expect of them, in a host that writes or not, when
\* the volume is marked stale or not, and the cache has been told t.
Expects(writes, p, tail, stale, t, k) ==
  /\ /\ k.due.written \subseteq t.written
     /\ k.due.inbound \subseteq t.inbound
     /\ k.due.marked \subseteq t.marked
  /\ k.writes \/ k.pc \in {"emit", "commit", "ingest"} => writes
  /\ k.pc \in {"opening", "merging"} => Arrived(k.listed)
  /\ k.pc \in {"listing", "merging", "caughtUp"} => tail = NoTail
  /\ k.pc = "merging" =>
       Shows(k.listed, k.due.marked) /\ (writes => ToSet(p) \subseteq ToSet(k.listed))
  /\ k.pc = "caughtUp" => Shows(p, k.due.marked)
  /\ k.pc \in {"emit", "commit", "ingest", "returned"} =>
       Shows(k.context, k.due.written \cup k.due.inbound \cup k.due.marked)
  /\ k.pc \in {"emit", "commit"} /\ ~stale => k.context = Served(p, tail)
  /\ k.pc = "commit" /\ ParentOf(k.entry) # NoRef =>
       \E f \in ToSet(k.context) : f.hash = ParentOf(k.entry)
  /\ k.pc = "ingest" /\ ~stale => tail # NoTail /\ k.entry \in ToSet(tail)

\* Some call is going to read all that the cache was marked for.
CatchesUp(k, marked) ==
  \/ k.pc = "listing"
  \/ k.pc = "merging" /\ Shows(k.listed, marked)

SoloInv ==
  /\ Solo
  /\ Arrived(stored)
  /\ \A c, d \in Clients : call[c].pc # "idle" /\ call[d].pc # "idle" => c = d
  /\ ~host.writes => replayTail = NoTail
  /\ Shows(projected, told.written \cup told.inbound)
  /\ Shows(stored, told.marked)
  /\ ~dirty => ToSet(projected) \subseteq ToSet(View)
  /\ ~dirty => \/ Shows(projected, told.marked)
               \/ \E c \in Clients : CatchesUp(call[c], told.marked)
  /\ host.writes /\ ~dirty /\ (\A c \in Clients : call[c].pc \notin {"listing", "merging"}) =>
       ViewOf(ToSet(stored), View)
  /\ \A c \in Clients : call[c].pc # "idle" =>
       Expects(host.writes, projected, replayTail, dirty, told, call[c])

\* What a log shows, a larger one shows.
LEMMA ShowsMore ==
  ASSUME NEW p, NEW q, ToSet(p) \subseteq ToSet(q), NEW hashes, Shows(p, hashes)
  PROVE  Shows(q, hashes)
BY DEF Shows

\* A merge loses nothing where parents arrive first.
LEMMA ReorderHasAll ==
  ASSUME StorageInv, Arrived(stored), NEW log, LogOf(ToSet(stored), log),
         NEW more, LogOf(ToSet(stored), more)
  PROVE  ToSet(Reorder(log, more).keys) = ToSet(log) \cup ToSet(more)
<1> DEFINE S == ToSet(stored)
<1>1. Channel(S) /\ LogOf(S, stored)
  BY DEF StorageInv
<1>2. ToSet(log) \cup ToSet(more) \in SUBSET S
  BY LogIsSeq
<1>3. Canonical(ToSet(log) \cup ToSet(more), Reorder(log, more).keys)
  BY <1>1, ReorderIsCanonical
<1> QED BY <1>1, <1>2, <1>3, ArrivedIsOrdered

\* A call under way is the only one.
LEMMA OthersAreIdle ==
  ASSUME SoloInv, NEW c \in Clients, call[c].pc # "idle"
  PROVE  /\ \A d \in Clients \ {c} : call[d].pc = "idle"
         /\ Expects(host.writes, projected, replayTail, dirty, told, call[c])
BY DEF SoloInv

\* A step of the only call.
LEMMA SoloCallMoves ==
  ASSUME IInv, NEW c \in Clients, NEW r, call' = [call EXCEPT ![c] = r],
         \A d \in Clients \ {c} : call[d].pc = "idle",
         r.pc # "idle" => Expects(host.writes, projected', replayTail', dirty', told', r)
  PROVE  /\ call'[c] = r
         /\ \A d \in Clients \ {c} : call'[d].pc = "idle"
         /\ \A d, e \in Clients : call'[d].pc # "idle" /\ call'[e].pc # "idle" => d = e
         /\ \A d \in Clients : call'[d].pc # "idle" =>
              Expects(host.writes, projected', replayTail', dirty', told', call'[d])
<1>1. call'[c] = r /\ \A d \in Clients \ {c} : call'[d] = call[d]
  BY DEF IInv, CallsInv
<1>2. \A d \in Clients : d # c => call'[d].pc = "idle"
  BY <1>1
<1> QED BY ONLY <1>1, <1>2, c \in Clients,
             r.pc # "idle" => Expects(host.writes, projected', replayTail', dirty', told', r)

\* In the beginning nothing is expected.
LEMMA InitSolo == Init /\ Solo => SoloInv
<1> SUFFICES ASSUME Init, Solo PROVE SoloInv
  OBVIOUS
<1>1. /\ stored = <<>> /\ View = <<>> /\ projected = <<>> /\ told = NothingTold
      /\ replayTail = NoTail /\ \A c \in Clients : call[c].pc = "idle"
  BY DEF Init, View, Idle
<1>2. Arrived(<<>>)
  BY DEF Arrived
<1> QED BY <1>1, <1>2, NothingIsView DEF SoloInv, Shows, NothingTold

\* A call begins when none is under way.
LEMMA StartKeepsSolo ==
  ASSUME IInv, SoloInv, NEW c \in Clients, NEW writes \in BOOLEAN, Start(c, writes),
         UNCHANGED host
  PROVE  SoloInv'
<1> DEFINE r == [Idle EXCEPT !.pc = "ensure", !.writes = writes, !.due = told]
           busy == {d \in Clients : call[d].pc # "idle"}
<1>1. r.pc = "ensure" /\ r.due = told /\ r.writes = writes
  BY DEF Idle
<1>2. /\ call' = [call EXCEPT ![c] = r] /\ View' = View
      /\ UNCHANGED <<stored, projection, projected, replayTail, dirty, told>>
      /\ writes => host.writes
  BY DEF Start, View
<1>3. \A d \in Clients : call[d].pc = "idle"
  <2>1. IsFiniteSet(busy)
    BY ClientsAreFinite, FS_Subset
  <2>2. Cardinality(busy) < 1
    BY DEF Start, SoloInv, Solo
  <2> HIDE DEF busy
  <2>3. Cardinality(busy) = 0
    <3>1. Cardinality(busy) \in Nat
      BY <2>1, FS_CardinalityType
    <3> QED BY <2>2, <3>1
  <2>4. busy = {}
    BY <2>1, <2>3, FS_EmptySet
  <2> QED BY <2>4 DEF busy
<1> HIDE DEF r
<1>4. Expects(host.writes, projected, replayTail, dirty, told, r)
  BY <1>1, <1>2 DEF Expects
<1>5. /\ call'[c] = r
      /\ \A d \in Clients \ {c} : call'[d].pc = "idle"
      /\ \A d, e \in Clients : call'[d].pc # "idle" /\ call'[e].pc # "idle" => d = e
      /\ \A d \in Clients : call'[d].pc # "idle" =>
           Expects(host.writes, projected', replayTail', dirty', told', call'[d])
  BY <1>2, <1>3, <1>4, SoloCallMoves
<1>6. ~dirty => Shows(projected, told.marked)
  BY <1>3 DEF SoloInv, CatchesUp
<1>7. host.writes /\ ~dirty => ViewOf(ToSet(stored), View)
  BY <1>3 DEF SoloInv
<1> QED BY <1>2, <1>5, <1>6, <1>7 DEF SoloInv, Solo

\* A step of the only call that changes nothing but the call, and no catch-up.
LEMMA SoloCallMovesOn ==
  ASSUME IInv, SoloInv, NEW c \in Clients, NEW r, call' = [call EXCEPT ![c] = r],
         UNCHANGED <<host, stored, projected, replayTail, dirty, told>>,
         call[c].pc \notin {"idle", "listing", "merging"},
         r.pc # "idle" => Expects(host.writes, projected, replayTail, dirty, told, r)
  PROVE  SoloInv'
<1>1. \A d \in Clients \ {c} : call[d].pc = "idle"
  BY OthersAreIdle
<1>2. View' = View
  BY DEF View
<1>3. /\ \A d, e \in Clients : call'[d].pc # "idle" /\ call'[e].pc # "idle" => d = e
      /\ \A d \in Clients : call'[d].pc # "idle" =>
           Expects(host.writes, projected', replayTail', dirty', told', call'[d])
  BY <1>1, SoloCallMoves
<1>4. ~dirty => Shows(projected, told.marked)
  BY <1>1 DEF SoloInv, CatchesUp
<1>5. host.writes /\ ~dirty => ViewOf(ToSet(stored), View)
  BY <1>1 DEF SoloInv
<1> QED BY <1>2, <1>3, <1>4, <1>5 DEF SoloInv, Solo

\* The projection is opened.
LEMMA OpenKeepsSolo ==
  ASSUME IInv, SoloInv, NEW c \in Clients, OpenProjection(c), UNCHANGED host
  PROVE  SoloInv'
<1> DEFINE k == call[c]
           r == [k EXCEPT !.pc = "opening", !.listed = stored]
<1>1. k \in Calls /\ k.pc = "ensure" /\ call' = [call EXCEPT ![c] = r]
  BY DEF OpenProjection, IInv, CallsInv
<1>2. r.pc = "opening" /\ r.listed = stored /\ r.due = k.due /\ r.writes = k.writes
  <2> HIDE DEF k
  <2> QED BY <1>1 DEF Calls
<1> HIDE DEF r
<1>3. Expects(host.writes, projected, replayTail, dirty, told, k)
  BY <1>1, OthersAreIdle
<1>4. Expects(host.writes, projected, replayTail, dirty, told, r)
  BY <1>2, <1>3 DEF Expects, SoloInv
<1> QED BY <1>1, <1>4, SoloCallMovesOn DEF OpenProjection

\* What has been listed is there.
LEMMA OpenedKeepsSolo ==
  ASSUME IInv, SoloInv, NEW c \in Clients, ProjectionOpened(c), UNCHANGED host
  PROVE  SoloInv'
<1> DEFINE k == call[c]
           r == [k EXCEPT !.pc = "ensure"]
           order == OrderFileKeys(k.listed)
           S == ToSet(stored)
<1>1. /\ k \in Calls /\ k.pc = "opening" /\ call' = [call EXCEPT ![c] = r]
      /\ UNCHANGED <<stored, replayTail, dirty, told>> /\ projected' = order
  BY DEF ProjectionOpened, Goes, IInv, CallsInv
<1>2. r.pc = "ensure" /\ r.due = k.due /\ r.writes = k.writes
  <2> HIDE DEF k
  <2> QED BY <1>1, CallAt DEF Calls
<1> HIDE DEF r
<1>3. /\ Expects(host.writes, projected, replayTail, dirty, told, k)
      /\ \A d \in Clients \ {c} : call[d].pc = "idle"
  BY <1>1, OthersAreIdle
<1>4. projected = <<>> /\ replayTail = NoTail /\ View' = order
  <2>1. projection = "opening"
    BY <1>1 DEF IInv, CallsInv, At
  <2> QED BY <1>1, <2>1 DEF View, IInv, CacheInv
<1>5. ViewOf(S, order)
  <2>1. LogOf(S, k.listed) /\ Channel(S) /\ Arrived(k.listed)
    BY <1>1, <1>3 DEF IInv, CallsInv, Holds, StorageInv, Expects
  <2>2. Canonical(ToSet(k.listed), order) /\ ToSet(k.listed) \subseteq S
    BY <2>1, OrderIsCanonical, LogIsSeq
  <2>3. ToSet(order) = ToSet(k.listed) /\ Closed(ToSet(k.listed))
    BY <2>1, <2>2, ArrivedIsOrdered
  <2> QED BY <2>2, <2>3 DEF ViewOf
<1> HIDE DEF order
<1>6. ToSet(projected) \subseteq ToSet(order)
  BY <1>4, NothingIsLog
<1>7. Expects(host.writes, order, replayTail, dirty, told, r)
  BY <1>2, <1>3 DEF Expects
<1>8. /\ call'[c] = r
      /\ \A d \in Clients \ {c} : call'[d].pc = "idle"
      /\ \A d, e \in Clients : call'[d].pc # "idle" /\ call'[e].pc # "idle" => d = e
      /\ \A d \in Clients : call'[d].pc # "idle" =>
           Expects(host.writes, projected', replayTail', dirty', told', call'[d])
  BY <1>1, <1>3, <1>7, SoloCallMoves
<1>9. Shows(order, told.written \cup told.inbound)
  BY <1>6, ShowsMore DEF SoloInv
<1>10. ~dirty => Shows(order, told.marked)
  <2>1. ~dirty => Shows(projected, told.marked)
    BY <1>1, <1>3 DEF SoloInv, CatchesUp
  <2> QED BY <1>6, <2>1, ShowsMore
<1> QED BY <1>1, <1>4, <1>5, <1>8, <1>9, <1>10 DEF SoloInv, Solo

\* A call ends.  (One whose listing fails would take the mark with it.)
LEMMA EndKeepsSolo ==
  ASSUME IInv, SoloInv, NEW c \in Clients, Rejected(c) \/ StorageFails(c) \/ Return(c),
         UNCHANGED host
  PROVE  SoloInv'
<1>1. /\ call' = [call EXCEPT ![c] = Idle]
      /\ UNCHANGED <<stored, projected, replayTail, dirty, told>>
  BY DEF Rejected, StorageFails, Return
<1>2. call[c].pc \notin {"idle", "listing", "merging"}
  <2>1. host.failures \subseteq {"opening", "listing", "emit", "ingest"}
    BY DEF IInv, HostKinds
  <2> QED BY <2>1 DEF Rejected, StorageFails, Return, SoloInv, Solo
<1> QED BY <1>1, <1>2, IdleIsCall, SoloCallMovesOn

\* The catch-up takes the mark and the tail.
LEMMA BeginCatchUpKeepsSolo ==
  ASSUME IInv, SoloInv, NEW c \in Clients, BeginCatchUp(c), UNCHANGED host
  PROVE  SoloInv'
<1> DEFINE k == call[c]
           r == [k EXCEPT !.pc = "listing"]
<1>1. /\ k \in Calls /\ k.pc = "ensure" /\ call' = [call EXCEPT ![c] = r]
      /\ UNCHANGED <<stored, projected, told>> /\ replayTail' = NoTail /\ dirty' = FALSE
  BY DEF BeginCatchUp, Goes, IInv, CallsInv
<1>2. r.pc = "listing" /\ r.due = k.due /\ r.writes = k.writes
  <2> HIDE DEF k
  <2> QED BY <1>1, CallAt DEF Calls, Opened
<1> HIDE DEF r
<1>3. /\ Expects(host.writes, projected, replayTail, dirty, told, k)
      /\ \A d \in Clients \ {c} : call[d].pc = "idle"
  BY <1>1, OthersAreIdle
<1>4. Expects(host.writes, projected, NoTail, FALSE, told, r)
  BY <1>2, <1>3 DEF Expects
<1>5. /\ call'[c] = r
      /\ \A d \in Clients \ {c} : call'[d].pc = "idle"
      /\ \A d, e \in Clients : call'[d].pc # "idle" /\ call'[e].pc # "idle" => d = e
      /\ \A d \in Clients : call'[d].pc # "idle" =>
           Expects(host.writes, projected', replayTail', dirty', told', call'[d])
  BY <1>1, <1>3, <1>4, SoloCallMoves
<1>6. View' = projected' /\ CatchesUp(call'[c], told'.marked)
  BY <1>1, <1>2, <1>5 DEF View, CatchesUp
<1> QED BY <1>1, <1>2, <1>5, <1>6 DEF SoloInv, Solo

\* The listing has all that the cache was marked for.
LEMMA ListKeepsSolo ==
  ASSUME IInv, SoloInv, NEW c \in Clients, ListStorage(c), UNCHANGED host
  PROVE  SoloInv'
<1> DEFINE k == call[c]
           r == [k EXCEPT !.pc = "merging", !.listed = stored]
<1>1. /\ k \in Calls /\ k.pc = "listing" /\ call' = [call EXCEPT ![c] = r]
      /\ UNCHANGED <<stored, projected, replayTail, dirty, told>> /\ View' = View
  BY DEF ListStorage, IInv, CallsInv, View
<1>2. r.pc = "merging" /\ r.due = k.due /\ r.writes = k.writes /\ r.listed = stored
  <2> HIDE DEF k
  <2> QED BY <1>1 DEF Calls
<1> HIDE DEF r
<1>3. /\ Expects(host.writes, projected, replayTail, dirty, told, k)
      /\ \A d \in Clients \ {c} : call[d].pc = "idle"
  BY <1>1, OthersAreIdle
<1>4. Shows(stored, told.marked) /\ Shows(stored, k.due.marked) /\ ToSet(projected) \subseteq ToSet(stored)
  BY <1>3, LogIsSeq DEF Expects, SoloInv, Shows, IInv, CacheInv
<1>5. Expects(host.writes, projected, replayTail, dirty, told, r)
  BY <1>1, <1>2, <1>3, <1>4 DEF Expects, SoloInv
<1>6. /\ call'[c] = r
      /\ \A d, e \in Clients : call'[d].pc # "idle" /\ call'[e].pc # "idle" => d = e
      /\ \A d \in Clients : call'[d].pc # "idle" =>
           Expects(host.writes, projected', replayTail', dirty', told', call'[d])
  BY <1>1, <1>3, <1>5, SoloCallMoves
<1>7. CatchesUp(call'[c], told.marked)
  BY <1>2, <1>4, <1>6 DEF CatchesUp
<1> QED BY <1>1, <1>2, <1>6, <1>7 DEF SoloInv, Solo

\* The merge adds what was listed, and has lost nothing.
LEMMA CatchUpKeepsSolo ==
  ASSUME IInv, SoloInv, NEW c \in Clients, CatchUp(c), UNCHANGED host
  PROVE  SoloInv'
<1> DEFINE k == call[c]
           r == [k EXCEPT !.pc = "caughtUp"]
           merged == Reorder(projected, k.listed).keys
           S == ToSet(stored)
<1>1. /\ k \in Calls /\ k.pc = "merging" /\ call' = [call EXCEPT ![c] = r] /\ Holds(S, k)
      /\ UNCHANGED <<stored, replayTail, dirty, told>> /\ projected' = merged
  BY DEF CatchUp, Goes, IInv, CallsInv
<1>2. r.pc = "caughtUp" /\ r.due = k.due /\ r.writes = k.writes
  <2> HIDE DEF k
  <2> QED BY <1>1, CallAt DEF Calls, Opened
<1> HIDE DEF r
<1>3. /\ Expects(host.writes, projected, replayTail, dirty, told, k)
      /\ \A d \in Clients \ {c} : call[d].pc = "idle"
  BY <1>1, OthersAreIdle
<1>4. /\ LogOf(S, projected) /\ LogOf(S, k.listed) /\ Channel(S) /\ Arrived(k.listed)
      /\ replayTail = NoTail /\ Shows(k.listed, k.due.marked)
      /\ host.writes => ToSet(projected) \subseteq ToSet(k.listed)
  BY <1>1, <1>3 DEF Holds, IInv, CacheInv, StorageInv, Expects
<1>5. ToSet(merged) = ToSet(projected) \cup ToSet(k.listed)
  BY <1>4, ReorderHasAll DEF IInv, SoloInv
<1>6. host.writes => ViewOf(S, merged)
  <2> SUFFICES ASSUME host.writes PROVE ViewOf(S, merged)
    OBVIOUS
  <2>1. ToSet(projected) \cup ToSet(k.listed) = ToSet(k.listed) /\ ToSet(k.listed) \subseteq S
    BY <1>4, LogIsSeq
  <2>2. Canonical(ToSet(k.listed), merged)
    BY <1>4, <2>1, ReorderIsCanonical
  <2>3. Closed(ToSet(k.listed))
    BY <1>4, <2>2, ArrivedIsOrdered
  <2> HIDE DEF merged
  <2> QED BY <1>5, <2>1, <2>2, <2>3 DEF ViewOf
<1> HIDE DEF merged
<1>7. Shows(merged, told.written \cup told.inbound) /\ Shows(merged, k.due.marked)
  BY <1>4, <1>5, ShowsMore DEF SoloInv
<1>8. ~dirty => Shows(merged, told.marked)
  <2>1. ~dirty => Shows(projected, told.marked) \/ Shows(k.listed, told.marked)
    BY <1>1, <1>3 DEF SoloInv, CatchesUp
  <2> QED BY <1>5, <2>1, ShowsMore
<1>9. Expects(host.writes, merged, replayTail, dirty, told, r)
  BY <1>2, <1>3, <1>4, <1>7 DEF Expects
<1>10. /\ \A d, e \in Clients : call'[d].pc # "idle" /\ call'[e].pc # "idle" => d = e
       /\ \A d \in Clients : call'[d].pc # "idle" =>
            Expects(host.writes, projected', replayTail', dirty', told', call'[d])
  BY <1>1, <1>3, <1>9, SoloCallMoves
<1>11. View' = merged
  BY <1>1, <1>4 DEF View
<1> QED BY <1>1, <1>6, <1>7, <1>8, <1>10, <1>11 DEF SoloInv, Solo

\* The context has all that the cache was told of before the call.
LEMMA TakeKeepsSolo ==
  ASSUME IInv, SoloInv, NEW c \in Clients, TakeContext(c), UNCHANGED host
  PROVE  SoloInv'
<1> DEFINE k == call[c]
           pc == IF k.writes THEN "emit" ELSE "returned"
           r == [k EXCEPT !.context = View, !.pc = pc]
<1>1. /\ k \in Calls /\ call' = [call EXCEPT ![c] = r]
      /\ k.pc = "caughtUp" \/ (k.pc = "ensure" /\ ~dirty)
      /\ UNCHANGED <<stored, projected, replayTail, dirty, told>>
  BY DEF TakeContext, IInv, CallsInv
<1>2. r.pc = pc /\ r.context = View /\ r.due = k.due /\ r.writes = k.writes
  <2> HIDE DEF k
  <2> QED BY <1>1 DEF Calls
<1> HIDE DEF r
<1>3. /\ Expects(host.writes, projected, replayTail, dirty, told, k)
      /\ \A d \in Clients \ {c} : call[d].pc = "idle"
  BY <1>1, OthersAreIdle
<1>4. ToSet(projected) \subseteq ToSet(View)
  <2>1. CASE k.pc = "caughtUp"
    BY <1>3, <2>1 DEF Expects, View
  <2>2. CASE ~dirty
    BY <2>2 DEF SoloInv
  <2> QED BY <1>1, <2>1, <2>2
<1>5. Shows(projected, k.due.marked)
  <2>1. CASE k.pc = "caughtUp"
    BY <1>3, <2>1 DEF Expects
  <2>2. CASE k.pc = "ensure" /\ ~dirty
    <3>1. Shows(projected, told.marked)
      BY <1>3, <2>2 DEF SoloInv, CatchesUp
    <3> QED BY <1>3, <3>1 DEF Expects, Shows
  <2> QED BY <1>1, <2>1, <2>2
<1>6. Shows(View, k.due.written \cup k.due.inbound \cup k.due.marked)
  <2>1. Shows(projected, k.due.written \cup k.due.inbound \cup k.due.marked)
    BY <1>3, <1>5 DEF Expects, Shows, SoloInv
  <2> QED BY <1>4, <2>1, ShowsMore
<1>7. View = Served(projected, replayTail)
  BY DEF View, Served
<1>8. Expects(host.writes, projected, replayTail, dirty, told, r)
  BY <1>2, <1>3, <1>6, <1>7 DEF Expects
<1> QED BY <1>1, <1>8, SoloCallMovesOn

\* A call stores its event.
LEMMA EmitKeepsSolo ==
  ASSUME IInv, SoloInv, NEW c \in Clients, NEW verb \in FileVerbs, NEW now \in host.times,
         NEW hash \in 1 .. MaxEvents, Emit(c, verb, now, hash), UNCHANGED host
  PROVE  SoloInv'
<1> DEFINE k == call[c]
           q == k.context
           entry == [hash |-> hash, verb |-> verb, ref |-> FirstRef(verb, k.context),
                     ts |-> EventTime(verb, now, k.context)]
           r == [k EXCEPT !.pc = "commit", !.entry = entry]
           S == ToSet(stored)
           T == ToSet(stored')
<1>1. /\ k \in Calls /\ call' = [call EXCEPT ![c] = r] /\ Holds(S, k) /\ k.pc = "emit"
      /\ stored' = Append(stored, entry) /\ hash \notin HashesOf(stored)
      /\ UNCHANGED <<projected, replayTail, dirty, told>> /\ View' = View
  BY DEF Emit, IInv, CallsInv, View
<1>2. entry \in Entry /\ entry.hash = hash
  BY <1>1, WrittenIsEntry DEF Holds, IInv
<1>3. /\ LogOf(S, q) /\ Channel(S) /\ LogOf(S, stored) /\ ToSet(q) \subseteq S
      /\ ParentOf(entry) # NoRef => \E f \in ToSet(q) : f.hash = ParentOf(entry)
  <2>1. entry.ref = FirstRef(entry.verb, q) /\ LogOf(S, q) /\ Channel(S) /\ LogOf(S, stored)
    BY <1>1 DEF Holds, IInv, StorageInv
  <2> HIDE DEF entry
  <2> QED BY <2>1, HeadIsLast, LogIsSeq
<1> HIDE DEF entry
<1>4. r.pc = "commit" /\ r.context = q /\ r.entry = entry /\ r.due = k.due /\ r.writes = k.writes
  <2> HIDE DEF k
  <2> QED BY <1>1 DEF Calls
<1> HIDE DEF r
<1>5. T = S \cup {entry}
  BY <1>1, <1>2, StoredIsLog DEF IInv
<1>6. Arrived(stored')
  BY <1>1, <1>3, ArrivedAfter DEF SoloInv
<1>7. /\ Expects(host.writes, projected, replayTail, dirty, told, k)
      /\ \A d \in Clients \ {c} : call[d].pc = "idle"
  BY <1>1, OthersAreIdle
<1>8. Expects(host.writes, projected, replayTail, dirty, told, r)
  BY <1>1, <1>3, <1>4, <1>7 DEF Expects
<1>9. /\ \A d, e \in Clients : call'[d].pc # "idle" /\ call'[e].pc # "idle" => d = e
      /\ \A d \in Clients : call'[d].pc # "idle" =>
           Expects(host.writes, projected', replayTail', dirty', told', call'[d])
  BY <1>1, <1>7, <1>8, SoloCallMoves
<1>10. ~dirty => Shows(projected, told.marked)
  BY <1>1, <1>7 DEF SoloInv, CatchesUp
<1>11. host.writes /\ ~dirty => ViewOf(T, View)
  BY <1>1, <1>5, <1>7, ViewOfMore DEF SoloInv
<1>12. Shows(stored', told.marked)
  BY <1>5, ShowsMore DEF SoloInv
<1> QED BY <1>1, <1>6, <1>9, <1>10, <1>11, <1>12 DEF SoloInv, Solo

\* The tail has all of the projection and the event, if the volume has not been
\* marked stale since the context was taken.
LEMMA CommitKeepsSolo ==
  ASSUME IInv, SoloInv, NEW c \in Clients, CommitReplayEntry(c), UNCHANGED host
  PROVE  SoloInv'
<1> DEFINE k == call[c]
           r == [k EXCEPT !.pc = "ingest"]
           S == ToSet(stored)
           v == Extend(View, k.entry)
<1>1. /\ k \in Calls /\ call' = [call EXCEPT ![c] = r] /\ Holds(S, k) /\ k.pc = "commit"
      /\ replayTail' = v /\ UNCHANGED <<stored, projected, dirty, told>>
  BY DEF CommitReplayEntry, Goes, IInv, CallsInv
<1>2. /\ r.pc = "ingest" /\ r.context = k.context /\ r.entry = k.entry /\ r.due = k.due
      /\ r.writes = k.writes
  <2> HIDE DEF k
  <2> QED BY <1>1, CallAt DEF Calls, Opened
<1> HIDE DEF r
<1>3. /\ Expects(host.writes, projected, replayTail, dirty, told, k)
      /\ \A d \in Clients \ {c} : call[d].pc = "idle"
  BY <1>1, OthersAreIdle
<1>4. k.entry \in S /\ host.writes
  BY <1>1, <1>3 DEF Holds, Expects
<1>5. v # NoTail
  <2>1. LogOf(Entry, stored)
    BY DEF IInv, StorageInv, LogOf
  <2>2. v \in Seq(S) /\ S \subseteq Entry
    BY <1>4, <2>1, ViewIsLog, ExtendIsLog, LogIsSeq DEF IInv, StorageInv, LogOf
  <2>3. v \in Seq(Entry)
    BY <2>2, SeqDef
  <2> QED BY <2>3, NoTailIsNoContext
<1>6. ~dirty => ViewOf(S, v) /\ ToSet(v) = ToSet(View) \cup {k.entry}
  <2> SUFFICES ASSUME ~dirty PROVE ViewOf(S, v) /\ ToSet(v) = ToSet(View) \cup {k.entry}
    OBVIOUS
  <2>1. k.context = View
    BY <1>1, <1>3 DEF Expects, Served, View
  <2>2. ViewOf(S, View)
    BY <1>1, <1>3, <1>4 DEF SoloInv
  <2>3. ParentOf(k.entry) # NoRef => \E f \in ToSet(View) : f.hash = ParentOf(k.entry)
    BY <1>1, <1>3, <2>1 DEF Expects
  <2> QED BY <1>4, <2>2, <2>3, ExtendIsView DEF IInv, SoloInv
<1> HIDE DEF v
<1>7. View' = v
  BY <1>1, <1>5 DEF View
<1>8. ~dirty => ToSet(projected) \subseteq ToSet(v) /\ k.entry \in ToSet(v)
  BY <1>6 DEF SoloInv
<1>9. Expects(host.writes, projected, v, dirty, told, r)
  BY <1>1, <1>2, <1>3, <1>5, <1>8 DEF Expects
<1>10. /\ \A d, e \in Clients : call'[d].pc # "idle" /\ call'[e].pc # "idle" => d = e
       /\ \A d \in Clients : call'[d].pc # "idle" =>
            Expects(host.writes, projected', replayTail', dirty', told', call'[d])
  BY <1>1, <1>3, <1>9, SoloCallMoves
<1>11. ~dirty => Shows(projected, told.marked)
  BY <1>1, <1>3 DEF SoloInv, CatchesUp
<1> QED BY <1>1, <1>4, <1>6, <1>7, <1>8, <1>10, <1>11 DEF SoloInv, Solo

\* The projection has the event too, and then it is answered for.
LEMMA IngestKeepsSolo ==
  ASSUME IInv, SoloInv, NEW c \in Clients, IngestOwn(c), UNCHANGED host
  PROVE  SoloInv'
<1> DEFINE k == call[c]
           r == [k EXCEPT !.pc = "returned"]
           merged == Reorder(projected, <<k.entry>>).keys
           S == ToSet(stored)
<1>1. /\ k \in Calls /\ call' = [call EXCEPT ![c] = r] /\ Holds(S, k) /\ k.pc = "ingest"
      /\ UNCHANGED <<stored, replayTail, dirty>> /\ projected' = merged
      /\ told' = [told EXCEPT !.written = @ \cup {k.entry.hash}]
  BY DEF IngestOwn, Goes, IInv, CallsInv
<1>2. r.pc = "returned" /\ r.context = k.context /\ r.due = k.due /\ r.writes = k.writes
  <2> HIDE DEF k
  <2> QED BY <1>1, CallAt DEF Calls, Opened
<1> HIDE DEF r
<1>3. /\ Expects(host.writes, projected, replayTail, dirty, told, k)
      /\ \A d \in Clients \ {c} : call[d].pc = "idle"
  BY <1>1, OthersAreIdle
<1>4. /\ told'.written = told.written \cup {k.entry.hash}
      /\ told'.marked = told.marked /\ told'.inbound = told.inbound
  <2> HIDE DEF k
  <2> QED BY <1>1 DEF IInv, CacheInv, Tellings
<1>5. ToSet(merged) = ToSet(projected) \cup {k.entry}
  <2>1. k.entry \in S /\ LogOf(S, projected)
    BY <1>1 DEF Holds, IInv, CacheInv
  <2>2. LogOf(S, <<k.entry>>) /\ ToSet(<<k.entry>>) = {k.entry}
    BY <2>1, LogOfOne
  <2> QED BY <2>1, <2>2, ReorderHasAll DEF IInv, SoloInv
<1> HIDE DEF merged
<1>6. Shows(merged, told'.written \cup told'.inbound)
  BY <1>4, <1>5 DEF Shows, SoloInv
<1>7. ~dirty => Shows(merged, told.marked)
  <2>1. ~dirty => Shows(projected, told.marked)
    BY <1>1, <1>3 DEF SoloInv, CatchesUp
  <2> QED BY <1>5, <2>1, ShowsMore
<1>8. Expects(host.writes, merged, replayTail, dirty, told', r)
  BY <1>1, <1>2, <1>3, <1>4 DEF Expects
<1>9. /\ \A d, e \in Clients : call'[d].pc # "idle" /\ call'[e].pc # "idle" => d = e
      /\ \A d \in Clients : call'[d].pc # "idle" =>
           Expects(host.writes, projected', replayTail', dirty', told', call'[d])
  BY <1>1, <1>3, <1>8, SoloCallMoves
<1>10. ~dirty => /\ View' = View /\ ViewOf(S, View)
                 /\ ToSet(merged) \subseteq ToSet(View)
  <2> SUFFICES ASSUME ~dirty
               PROVE  View' = View /\ ViewOf(S, View) /\ ToSet(merged) \subseteq ToSet(View)
    OBVIOUS
  <2>1. replayTail # NoTail /\ k.entry \in ToSet(replayTail) /\ host.writes
    BY <1>1, <1>3 DEF Expects
  <2>2. View' = View /\ View = replayTail
    BY <1>1, <2>1 DEF View
  <2>3. ViewOf(S, View) /\ ToSet(projected) \subseteq ToSet(View)
    BY <1>1, <1>3, <2>1 DEF SoloInv
  <2> QED BY <1>5, <2>1, <2>2, <2>3
<1>11. host.writes
  BY <1>1, <1>3 DEF Expects
<1> QED BY <1>1, <1>4, <1>6, <1>7, <1>9, <1>10, <1>11 DEF SoloInv, Solo

-----------------------------------------------------------------------------
(* The steps of the environment of a solo host *)

\* Another program writes.
LEMMA ExternalKeepsSolo ==
  ASSUME IInv, SoloInv, NEW verb \in host.external, NEW ref \in {NoRef} \cup (1 .. MaxEvents),
         NEW ts \in host.times, NEW hash \in 1 .. MaxEvents,
         ExternalWrite(verb, ref, ts, hash), UNCHANGED host
  PROVE  SoloInv'
<1> DEFINE entry == [hash |-> hash, verb |-> verb, ref |-> ref, ts |-> ts]
           S == ToSet(stored)
           T == ToSet(stored')
<1>1. entry \in Entry
  <2>1. verb \in FileVerbs /\ ts \in Nat /\ hash \in Nat /\ ref \in Nat \cup {NoRef}
    BY MaxEventsIsNat DEF IInv, HostKinds
  <2> QED BY <2>1 DEF Entry
<1>2. /\ stored' = Append(stored, entry) /\ entry.hash = hash /\ hash \notin HashesOf(stored)
      /\ entry.ref = ref /\ (ref = NoRef \/ ref \in FileHashes(stored))
      /\ UNCHANGED <<projected, replayTail, dirty, call, told>>
  BY DEF ExternalWrite, SoloInv, Solo
<1> HIDE DEF entry
<1>3. T = S \cup {entry}
  BY <1>1, <1>2, StoredIsLog DEF IInv
<1>4. Arrived(stored')
  <2>1. ParentOf(entry) # NoRef => ParentOf(entry) = ref
    BY <1>2 DEF ParentOf, ObservedLogHeadRef
  <2>2. ParentOf(entry) # NoRef => \E f \in S : f.hash = ParentOf(entry)
    BY <1>2, <2>1 DEF FileHashes
  <2> QED BY <1>2, <2>2, ArrivedAfter DEF IInv, StorageInv, SoloInv
<1>5. View' = View /\ Shows(stored', told.marked)
  BY <1>2, <1>3, ShowsMore DEF View, SoloInv
<1>6. ViewOf(S, View) => ViewOf(T, View)
  BY <1>3, ViewOfMore
<1> QED BY <1>2, <1>4, <1>5, <1>6 DEF SoloInv, Solo

\* The volume is marked stale.
LEMMA MarkKeepsSolo ==
  ASSUME IInv, SoloInv, MarkReplayStale, UNCHANGED host
  PROVE  SoloInv'
<1>1. /\ UNCHANGED <<stored, projected, call>> /\ dirty' = TRUE /\ replayTail' = NoTail
  BY DEF MarkReplayStale
<1>2. /\ told'.marked = HashesOf(stored)
      /\ told'.written = told.written /\ told'.inbound = told.inbound
  BY DEF MarkReplayStale, IInv, CacheInv, Tellings
<1>3. HashesOf(stored) = {e.hash : e \in ToSet(stored)}
  BY HashesAreOf DEF IInv, StorageInv
<1>4. told.marked \subseteq told'.marked
  BY <1>2, <1>3 DEF SoloInv, Shows
<1>5. \A c \in Clients : call[c].pc # "idle" =>
        Expects(host.writes, projected, NoTail, TRUE, told', call[c])
  <2> SUFFICES ASSUME NEW c \in Clients, call[c].pc # "idle"
               PROVE  Expects(host.writes, projected, NoTail, TRUE, told', call[c])
    OBVIOUS
  <2>1. Expects(host.writes, projected, replayTail, dirty, told, call[c])
    BY DEF SoloInv
  <2> QED BY <1>2, <1>4, <2>1 DEF Expects
<1>6. Shows(stored, told'.marked)
  BY <1>2, <1>3 DEF Shows
<1> QED BY <1>1, <1>2, <1>5, <1>6 DEF SoloInv, Solo

\* An inbound event is merged; there is no tail to shadow it.
LEMMA InboundKeepsSolo ==
  ASSUME IInv, SoloInv, NEW entry \in ToSet(stored), ApplyInboundEvent(entry), UNCHANGED host
  PROVE  SoloInv'
<1> DEFINE merged == Reorder(projected, <<entry>>).keys
           S == ToSet(stored)
<1>1. /\ UNCHANGED <<stored, replayTail, dirty, call>> /\ projected' = merged
      /\ told' = [told EXCEPT !.inbound = @ \cup {entry.hash}] /\ ~host.writes
  BY DEF ApplyInboundEvent, SoloInv, Solo
<1>2. /\ told'.inbound = told.inbound \cup {entry.hash}
      /\ told'.written = told.written /\ told'.marked = told.marked
  BY <1>1 DEF IInv, CacheInv, Tellings
<1>3. ToSet(merged) = ToSet(projected) \cup {entry}
  <2>1. LogOf(S, projected) /\ LogOf(S, <<entry>>) /\ ToSet(<<entry>>) = {entry}
    BY LogOfOne DEF IInv, CacheInv
  <2> QED BY <2>1, ReorderHasAll DEF IInv, SoloInv
<1> HIDE DEF merged
<1>4. Shows(merged, told'.written \cup told'.inbound)
  BY <1>2, <1>3 DEF Shows, SoloInv
<1>5. Shows(projected, told.marked) => Shows(merged, told.marked)
  BY <1>3, ShowsMore
<1>6. \A c \in Clients : call[c].pc # "idle" =>
        Expects(host.writes, merged, replayTail, dirty, told', call[c])
  <2> SUFFICES ASSUME NEW c \in Clients, call[c].pc # "idle"
               PROVE  Expects(host.writes, merged, replayTail, dirty, told', call[c])
    OBVIOUS
  <2>1. Expects(host.writes, projected, replayTail, dirty, told, call[c])
    BY DEF SoloInv
  <2>2. Shows(projected, call[c].due.marked) => Shows(merged, call[c].due.marked)
    BY <1>3, ShowsMore
  <2> QED BY <1>1, <1>2, <2>1, <2>2 DEF Expects
<1>7. View' = merged
  BY <1>1 DEF View, SoloInv
<1> QED BY <1>1, <1>2, <1>4, <1>5, <1>6, <1>7 DEF SoloInv, Solo

\* Every step keeps what a host of one call at a time promises.
LEMMA NextSolo == IInv /\ SoloInv /\ [Next]_vars => SoloInv'
<1> SUFFICES ASSUME IInv, SoloInv, [Next]_vars PROVE SoloInv'
  OBVIOUS
<1>1. CASE UNCHANGED vars
  BY <1>1 DEF vars, SoloInv, Solo, View
<1>2. ASSUME NEW c \in Clients, ClientStep(c), UNCHANGED host PROVE SoloInv'
  <2>1. {"CREATE_FILE", "RENAME"} \subseteq FileVerbs
    BY DEF FileVerbs
  <2> QED BY <1>2, <2>1, StartKeepsSolo, OpenKeepsSolo, OpenedKeepsSolo, EndKeepsSolo,
             BeginCatchUpKeepsSolo, ListKeepsSolo, CatchUpKeepsSolo, TakeKeepsSolo,
             EmitKeepsSolo, CommitKeepsSolo, IngestKeepsSolo
             DEF ClientStep
<1>3. ASSUME EnvironmentStep, UNCHANGED host PROVE SoloInv'
  BY <1>3, ExternalKeepsSolo, MarkKeepsSolo, InboundKeepsSolo DEF EnvironmentStep
<1> QED BY <1>1, <1>2, <1>3 DEF Next

\* What a host of one call at a time promises holds at all times.
THEOREM SoloHostIsSound == Spec /\ Solo => []SoloInv
BY InitSolo, NextSolo, CacheIsSound, PTL DEF Spec

\* What is due to a call is in its context.
LEMMA SoloShowsDue ==
  ASSUME IInv, SoloInv, NEW c \in Clients, HasContext(c)
  PROVE  call[c].due.written \cup call[c].due.inbound \cup call[c].due.marked
           \subseteq HashesOf(call[c].context)
<1>1. call[c].pc # "idle" /\ Expects(host.writes, projected, replayTail, dirty, told, call[c])
  BY OthersAreIdle DEF HasContext
<1>2. Shows(call[c].context,
            call[c].due.written \cup call[c].due.inbound \cup call[c].due.marked)
  BY <1>1 DEF Expects, HasContext
<1>3. HashesOf(call[c].context) = {e.hash : e \in ToSet(call[c].context)}
  BY HashesAreOf DEF IInv, CallsInv, Holds
<1> QED BY <1>2, <1>3 DEF Shows

\* One call at a time sees every write that had returned before it, though the
\* volume may have been marked stale in between.
THEOREM SoloReadsItsWrites == Spec /\ Solo => []ReadYourWrites
<1>1. IInv /\ SoloInv => ReadYourWrites
  BY SoloShowsDue DEF ReadYourWrites
<1> QED BY <1>1, CacheIsSound, SoloHostIsSound, PTL

\* One call at a time sees all that the storage held when the volume was marked
\* stale before it.
THEOREM SoloHonoursMarks == Spec /\ Solo => []StaleMarkHonoured
<1>1. IInv /\ SoloInv => StaleMarkHonoured
  BY SoloShowsDue DEF StaleMarkHonoured
<1> QED BY <1>1, CacheIsSound, SoloHostIsSound, PTL

\* One call at a time sees every event that applyInboundEvent had answered for
\* before it.
THEOREM SoloSeesInbound == Spec /\ Solo => []InboundSeen
<1>1. IInv /\ SoloInv => InboundSeen
  BY SoloShowsDue DEF InboundSeen
<1> QED BY <1>1, CacheIsSound, SoloHostIsSound, PTL

\* What is projected is in the order of its keys, in every host.
InOrder == Canonical(ToSet(projected), projected)

\* A merge leaves the projection in order.
LEMMA MergedInOrder ==
  ASSUME IInv, NEW log, LogOf(ToSet(stored), log),
         projected' = Reorder(projected, log).keys
  PROVE  InOrder'
<1>1. Canonical(ToSet(projected) \cup ToSet(log), projected')
  BY ReorderIsCanonical DEF IInv, StorageInv, CacheInv
<1> QED BY <1>1, CanonicalOfItself DEF InOrder

\* Every step leaves the projection in order.
LEMMA NextInOrder == IInv /\ InOrder /\ [Next]_vars => InOrder'
<1> SUFFICES ASSUME IInv, InOrder, [Next]_vars, projected' # projected PROVE InOrder'
  BY DEF InOrder
<1>1. ASSUME NEW c \in Clients, ProjectionOpened(c) PROVE InOrder'
  <2>1. Channel(ToSet(stored)) /\ LogOf(ToSet(stored), call[c].listed)
    BY DEF IInv, StorageInv, CallsInv, Holds
  <2>2. Canonical(ToSet(call[c].listed), projected')
    BY <1>1, <2>1, OrderIsCanonical DEF ProjectionOpened
  <2> QED BY <2>2, CanonicalOfItself DEF InOrder
<1>2. ASSUME NEW c \in Clients, CatchUp(c) PROVE InOrder'
  BY <1>2, MergedInOrder DEF CatchUp, IInv, CallsInv, Holds
<1>3. ASSUME NEW c \in Clients, IngestOwn(c) PROVE InOrder'
  <2>1. call[c].pc = "ingest"
    BY <1>3 DEF IngestOwn, Goes
  <2>2. call[c].entry \in ToSet(stored)
    BY <2>1 DEF IInv, CallsInv, Holds
  <2>3. LogOf(ToSet(stored), <<call[c].entry>>)
    BY <2>2, LogOfOne
  <2> QED BY <1>3, <2>3, MergedInOrder DEF IngestOwn
<1>4. ASSUME NEW entry \in ToSet(stored), ApplyInboundEvent(entry) PROVE InOrder'
  <2>1. LogOf(ToSet(stored), <<entry>>)
    BY LogOfOne
  <2> QED BY <1>4, <2>1, MergedInOrder DEF ApplyInboundEvent
<1>5. ~UNCHANGED vars
  BY DEF vars
<1>6. ASSUME NEW c \in Clients, ClientStep(c)
      PROVE  ProjectionOpened(c) \/ CatchUp(c) \/ IngestOwn(c)
  <2>1. \A writes : ~Start(c, writes)
    BY DEF Start
  <2>2. \A verb, now, hash : ~Emit(c, verb, now, hash)
    BY DEF Emit
  <2>3. ~OpenProjection(c) /\ ~Rejected(c) /\ ~StorageFails(c) /\ ~BeginCatchUp(c)
    BY DEF OpenProjection, Rejected, StorageFails, BeginCatchUp
  <2>4. ~ListStorage(c) /\ ~TakeContext(c) /\ ~CommitReplayEntry(c) /\ ~Return(c)
    BY DEF ListStorage, TakeContext, CommitReplayEntry, Return
  <2> QED BY <1>6, <2>1, <2>2, <2>3, <2>4 DEF ClientStep
<1>7. ASSUME EnvironmentStep
      PROVE  \E entry \in ToSet(stored) : ApplyInboundEvent(entry)
  <2>1. ~MarkReplayStale /\ \A verb, ref, ts, hash : ~ExternalWrite(verb, ref, ts, hash)
    BY DEF MarkReplayStale, ExternalWrite
  <2> QED BY <1>7, <2>1 DEF EnvironmentStep
<1>8. CASE \E c \in Clients : ClientStep(c)
  BY <1>1, <1>2, <1>3, <1>6, <1>8
<1>9. CASE EnvironmentStep
  BY <1>4, <1>7, <1>9
<1> QED BY <1>5, <1>8, <1>9 DEF Next

\* The projection is in the order of its keys at all times, however the calls,
\* the catch-ups and what other programs tell of are interleaved.
THEOREM ProjectedInOrder == Spec => []InOrder
<1>1. Init => InOrder
  BY NothingIsView DEF Init, InOrder, ViewOf
<1> QED BY <1>1, NextInOrder, CacheIsSound, PTL DEF Spec

\* When the one call has returned and all that is stored has been written here
\* or told, the view is the replay of the storage.
THEOREM SoloQuietView == Spec /\ Solo => []QuietViewIsReplay
<1>1. IInv /\ SoloInv /\ InOrder => QuietViewIsReplay
  <2> SUFFICES ASSUME IInv, SoloInv, InOrder, ~dirty, \A c \in Clients : call[c].pc = "idle",
                      HashesOf(stored) \subseteq told.written \cup told.marked \cup told.inbound
               PROVE  View = OrderFileKeys(stored)
    BY DEF QuietViewIsReplay
  <2> DEFINE S == ToSet(stored)
  <2>1. /\ LogOf(S, stored) /\ Channel(S) /\ LogOf(S, projected)
        /\ HashesOf(stored) = {e.hash : e \in S}
    BY HashesAreOf DEF IInv, StorageInv, CacheInv
  <2>2. Canonical(ToSet(View), View) /\ ToSet(View) \subseteq S
    <3>1. CASE host.writes
      BY <3>1 DEF SoloInv, ViewOf
    <3>2. CASE ~host.writes
      <4>1. View = projected
        BY <3>2 DEF SoloInv, View
      <4> QED BY <2>1, <4>1, LogIsSeq DEF InOrder
    <3> QED BY <3>1, <3>2
  <2>3. Shows(View, HashesOf(stored))
    BY DEF SoloInv, CatchesUp, Shows
  <2>4. S \subseteq ToSet(View)
    <3> SUFFICES ASSUME NEW e \in S PROVE e \in ToSet(View)
      OBVIOUS
    <3>1. PICK f \in ToSet(View) : f.hash = e.hash
      BY <2>1, <2>3 DEF Shows
    <3> QED BY <2>1, <2>2, <3>1 DEF Channel
  <2>5. ToSet(View) = S
    BY <2>2, <2>4
  <2>6. Canonical(S, View) /\ Canonical(S, OrderFileKeys(stored))
    BY <2>1, <2>2, <2>5, OrderIsCanonical
  <2> QED BY <2>1, <2>6, CanonicalIsUnique
<1> QED BY <1>1, CacheIsSound, SoloHostIsSound, ProjectedInOrder, PTL

=============================================================================
