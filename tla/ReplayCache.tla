---------------------------- MODULE ReplayCache ----------------------------
(***************************************************************************)
(* The replay cache of one process for one volume (fileService.ts) and the *)
(* calls that go through it.  Calls are asynchronous: a call runs from one *)
(* await to the next in one step, and between two of its steps any other   *)
(* call, another program or the sync engine may run.  A context is its     *)
(* ordered entries; the file system in it is their replay (VolumeReplay).  *)
(*                                                                         *)
(* The projection engine (nearbytes-log) is external: createProjection and *)
(* catchUp list the storage, and some time later what they found is merged *)
(* in one step; ingest merges its entries in one step.                     *)
(***************************************************************************)
EXTENDS ReplayOrder

CONSTANTS
  Clients,          \* those who call the service
  Hosts,            \* the programs it may be part of
  MaxEvents,        \* bound: events in the storage
  NoTail            \* replayTail has no context

\* How a program uses the service: how many calls it has under way at once, if
\* they may write, the verbs other programs write to the storage, if an event
\* may arrive there before its parent, if the cache is told of events by
\* markReplayStale or by applyInboundEvent, what clocks may show, and where the
\* storage may fail.
HostKinds ==
  [calls : 1 .. Cardinality(Clients), writes : BOOLEAN,
   external : SUBSET FileVerbs, missingParents : BOOLEAN,
   staleMarks : BOOLEAN, inboundEvents : BOOLEAN, times : SUBSET Nat,
   failures : SUBSET {"opening", "listing", "emit", "ingest"}]

\* The FILES events such programs write.
Entry == [hash : Nat, verb : FileVerbs, ref : Nat \cup {NoRef, OwnContent}, ts : Nat]

ASSUME MaxEventsIsNat == MaxEvents \in Nat
ASSUME ClientsAreFinite == IsFiniteSet(Clients)
ASSUME NoTailIsNoContext == NoTail \notin Seq(Entry)
ASSUME HostsAreKnown == Hosts \subseteq HostKinds

VARIABLES
  host,        \* the program the service is part of, once and for all
  stored,      \* the channel's log in the storage
  projection,  \* the shared promise: "none", "opening", "ready" or "failed"
  projected,   \* projection.state()
  replayTail,  \* the context ahead of the projection, or NoTail
  dirty,       \* is the volume's key in the dirty set?
  call,        \* the call each client has under way
  told,        \* history: events of finished writes, events stored when the
               \* cache was last marked stale, events applied as inbound
  observed     \* history: for a write, the writes that had returned before it

vars == <<host, stored, projection, projected, replayTail, dirty, call, told, observed>>

NothingTold == [written |-> {}, marked |-> {}, inbound |-> {}]

Idle == [pc |-> "idle", writes |-> FALSE, context |-> <<>>, listed |-> <<>>,
         entry |-> <<>>, due |-> NothingTold]

Init ==
  /\ host \in Hosts
  /\ stored = <<>>
  /\ projection = "none"
  /\ projected = <<>>
  /\ replayTail = NoTail
  /\ dirty = FALSE
  /\ call = [c \in Clients |-> Idle]
  /\ told = NothingTold
  /\ observed = <<>>

\* replayTail.get(key) ?? projection.state()
View == IF replayTail # NoTail THEN replayTail ELSE projected

Goes(c, from, to) ==
  /\ call[c].pc = from
  /\ call' = [call EXCEPT ![c].pc = to]

-----------------------------------------------------------------------------
(* getReplayContext *)

\* A client calls a reader or a mutator of the service.
Start(c, writes) ==
  /\ call[c].pc = "idle"
  /\ Cardinality({d \in Clients : call[d].pc # "idle"}) < host.calls
  /\ writes => host.writes
  /\ call' = [call EXCEPT ![c] = [Idle EXCEPT !.pc = "ensure", !.writes = writes,
                                              !.due = told]]
  /\ UNCHANGED <<stored, projection, projected, replayTail, dirty, told, observed>>

\* The first call opens the projection; the others wait for the same promise.
OpenProjection(c) ==
  /\ projection = "none"
  /\ call[c].pc = "ensure"
  /\ projection' = "opening"
  /\ call' = [call EXCEPT ![c].pc = "opening", ![c].listed = stored]
  /\ UNCHANGED <<stored, projected, replayTail, dirty, told, observed>>

ProjectionOpened(c) ==
  /\ Goes(c, "opening", "ensure")
  /\ projection' = "ready"
  /\ projected' = OrderFileKeys(call[c].listed)
  /\ UNCHANGED <<stored, replayTail, dirty, told, observed>>

\* The promise stays in the map when it is rejected: every call after this one
\* is rejected with it.
Rejected(c) ==
  /\ projection = "failed"
  /\ call[c].pc = "ensure"
  /\ call' = [call EXCEPT ![c] = Idle]
  /\ UNCHANGED <<stored, projection, projected, replayTail, dirty, told, observed>>

\* The storage throws where the call awaits it, and nothing catches: what the
\* call has done to the cache so far stays done.
StorageFails(c) ==
  /\ call[c].pc \in host.failures
  /\ call' = [call EXCEPT ![c] = Idle]
  /\ projection' = IF call[c].pc = "opening" THEN "failed" ELSE projection
  /\ UNCHANGED <<stored, projected, replayTail, dirty, told, observed>>

\* dirty.delete and replayTail.delete come before the catch-up is awaited.
BeginCatchUp(c) ==
  /\ projection = "ready"
  /\ dirty
  /\ Goes(c, "ensure", "listing")
  /\ dirty' = FALSE
  /\ replayTail' = NoTail
  /\ UNCHANGED <<stored, projection, projected, told, observed>>

ListStorage(c) ==
  /\ call[c].pc = "listing"
  /\ call' = [call EXCEPT ![c].pc = "merging", ![c].listed = stored]
  /\ UNCHANGED <<stored, projection, projected, replayTail, dirty, told, observed>>

CatchUp(c) ==
  /\ Goes(c, "merging", "caughtUp")
  /\ projected' = Reorder(projected, call[c].listed).keys
  /\ UNCHANGED <<stored, projection, replayTail, dirty, told, observed>>

\* The context is taken; a reader answers from it.
TakeContext(c) ==
  /\ \/ call[c].pc = "caughtUp"
     \/ call[c].pc = "ensure" /\ projection = "ready" /\ ~dirty
  /\ call' = [call EXCEPT ![c].context = View,
                          ![c].pc = IF call[c].writes THEN "emit" ELSE "returned"]
  /\ UNCHANGED <<stored, projection, projected, replayTail, dirty, told, observed>>

-----------------------------------------------------------------------------
(* The mutators, from the context to the answer *)

\* Mutant: the event is answered for but never stored.
EmitUnstored(c, verb, now, hash) ==
  /\ call[c].pc = "emit"
  /\ hash \notin HashesOf(stored)
  /\ call' = [call EXCEPT ![c].pc = "commit", ![c].entry =
                [hash |-> hash, verb |-> verb, ref |-> FirstRef(verb, call[c].context),
                 ts |-> EventTime(verb, now, call[c].context)]]
  /\ UNCHANGED <<stored, projection, projected, replayTail, dirty, told, observed>>

\* Encryption and storeEvent.  Local verbs: one that introduces content and
\* one that does not.
Emit(c, verb, now, hash) ==
  LET entry == [hash |-> hash, verb |-> verb,
                ref |-> FirstRef(verb, call[c].context),
                ts |-> EventTime(verb, now, call[c].context)]
  IN  /\ call[c].pc = "emit"
      /\ Len(stored) < MaxEvents
      /\ hash \notin HashesOf(stored)
      /\ stored' = Append(stored, entry)
      /\ call' = [call EXCEPT ![c].pc = "commit", ![c].entry = entry]
      /\ observed' = [h \in DOMAIN observed \cup {hash} |->
                        IF h = hash THEN call[c].due.written ELSE observed[h]]
      /\ UNCHANGED <<projection, projected, replayTail, dirty, told>>

\* Mutant: the new entry goes to the end, wherever it belongs.
ExtendAtEnd(context, entry) == Append(context, entry)

\* extendFileReplayContext: the base is ordered again with the new entry.
Extend(context, entry) ==
  IF entry.hash \in HashesOf(context) THEN context
  ELSE OrderEventLogEntries(Append(context, entry))

\* Mutant: the base is the projection even while a tail shadows it.
CommitOnProjection(c) ==
  /\ Goes(c, "commit", "ingest")
  /\ replayTail' = Extend(projected, call[c].entry)
  /\ UNCHANGED <<stored, projection, projected, dirty, told, observed>>

\* commitReplayEntry, up to its ingest.
CommitReplayEntry(c) ==
  /\ Goes(c, "commit", "ingest")
  /\ replayTail' = Extend(View, call[c].entry)
  /\ UNCHANGED <<stored, projection, projected, dirty, told, observed>>

IngestOwn(c) ==
  /\ Goes(c, "ingest", "returned")
  /\ projected' = Reorder(projected, <<call[c].entry>>).keys
  /\ told' = [told EXCEPT !.written = @ \cup {call[c].entry.hash}]
  /\ UNCHANGED <<stored, projection, replayTail, dirty, observed>>

Return(c) ==
  /\ call[c].pc = "returned"
  /\ call' = [call EXCEPT ![c] = Idle]
  /\ UNCHANGED <<stored, projection, projected, replayTail, dirty, told, observed>>

-----------------------------------------------------------------------------
(* Other programs and the sync engine *)

\* The hashes that first refs lead to from `ref`, as far as the log goes.
Lineage(log, ref) ==
  LET up[n \in 0 .. Len(log)] ==
        IF n = 0 THEN {ref}
        ELSE up[n - 1] \cup {log[i].ref : i \in {i \in DOMAIN log : log[i].hash \in up[n - 1]}}
  IN  up[Len(log)]

\* An event of another writer reaches the storage, written on any FILES event
\* there or, with missingParents, on one that is not.  A hash is known only
\* once its event is written, so no event descends from itself.
ExternalWrite(verb, ref, ts, hash) ==
  /\ Len(stored) < MaxEvents
  /\ hash \notin HashesOf(stored)
  /\ \/ ref \in FileHashes(stored)
     \/ ref = NoRef
     \/ host.missingParents /\ ref \in (1 .. MaxEvents) \ HashesOf(stored)
  /\ hash \notin Lineage(stored, ref)
  /\ stored' = Append(stored, [hash |-> hash, verb |-> verb, ref |-> ref, ts |-> ts])
  /\ UNCHANGED <<projection, projected, replayTail, dirty, call, told, observed>>

\* Mutant: the tail goes, the projection is believed.
MarkTailStale ==
  /\ host.staleMarks
  /\ replayTail' = NoTail
  /\ told' = [told EXCEPT !.marked = HashesOf(stored)]
  /\ UNCHANGED <<stored, projection, projected, dirty, call, observed>>

MarkReplayStale ==
  /\ host.staleMarks
  /\ dirty' = TRUE
  /\ replayTail' = NoTail
  /\ told' = [told EXCEPT !.marked = HashesOf(stored)]
  /\ UNCHANGED <<stored, projection, projected, call, observed>>

\* Mutant: the event is acknowledged and left to the next catch-up.
AcknowledgeInboundEvent(entry) ==
  /\ host.inboundEvents
  /\ projection = "ready"
  /\ told' = [told EXCEPT !.inbound = @ \cup {entry.hash}]
  /\ UNCHANGED <<stored, projection, projected, replayTail, dirty, call, observed>>

\* The event is read back from the storage and ingested.
ApplyInboundEvent(entry) ==
  /\ host.inboundEvents
  /\ projection = "ready"
  /\ projected' = Reorder(projected, <<entry>>).keys
  /\ told' = [told EXCEPT !.inbound = @ \cup {entry.hash}]
  /\ UNCHANGED <<stored, projection, replayTail, dirty, call, observed>>

ClientStep(c) ==
  \/ \E writes \in BOOLEAN : Start(c, writes)
  \/ OpenProjection(c)
  \/ ProjectionOpened(c)
  \/ Rejected(c)
  \/ StorageFails(c)
  \/ BeginCatchUp(c)
  \/ ListStorage(c)
  \/ CatchUp(c)
  \/ TakeContext(c)
  \/ \E verb \in {"CREATE_FILE", "RENAME"}, now \in host.times, hash \in 1 .. MaxEvents :
       Emit(c, verb, now, hash)
  \/ CommitReplayEntry(c)
  \/ IngestOwn(c)
  \/ Return(c)

EnvironmentStep ==
  \/ \E verb \in host.external, ref \in {NoRef} \cup (1 .. MaxEvents),
        ts \in host.times, hash \in 1 .. MaxEvents :
       ExternalWrite(verb, ref, ts, hash)
  \/ MarkReplayStale
  \/ \E entry \in ToSet(stored) : ApplyInboundEvent(entry)

Next ==
  /\ (\E c \in Clients : ClientStep(c)) \/ EnvironmentStep
  /\ UNCHANGED host

Spec == Init /\ [][Next]_vars

-----------------------------------------------------------------------------
(* Properties *)

TypeOK ==
  /\ IsInjective(stored)
  /\ projection \in {"none", "opening", "ready", "failed"}
  /\ ToSet(projected) \subseteq ToSet(stored)
  /\ replayTail = NoTail \/ ToSet(replayTail) \subseteq ToSet(stored)
  /\ dirty \in BOOLEAN
  /\ \A c \in Clients : ToSet(call[c].context) \subseteq ToSet(stored)
  /\ projection # "ready" => projected = <<>> /\ replayTail = NoTail

HasContext(c) == call[c].pc \in {"emit", "commit", "ingest", "returned"}

\* A call sees every write that had returned when it began: the tail that
\* shadows the projection has lost none of them, and neither has the
\* projection when a catch-up drops the tail.
ReadYourWrites ==
  \A c \in Clients : HasContext(c) =>
    call[c].due.written \subseteq HashesOf(call[c].context)

\* A call that begins after markReplayStale sees all that was in the storage
\* when the cache was marked.
StaleMarkHonoured ==
  \A c \in Clients : HasContext(c) =>
    call[c].due.marked \subseteq HashesOf(call[c].context)

\* A call that begins after applyInboundEvent answered sees that event.
InboundSeen ==
  \A c \in Clients : HasContext(c) =>
    call[c].due.inbound \subseteq HashesOf(call[c].context)

\* A write that begins after another one returned replays after it in what
\* callers see, whatever the clock said and whatever is written meanwhile.
WritesReplayInOrder ==
  \A h \in DOMAIN observed : \A g \in observed[h] :
    {g, h} \subseteq HashesOf(View) => Before(View, g, h)

\* With no call under way, and the cache told of all that is in the storage,
\* what a call would be answered from is the replay of the storage. 
QuietViewIsReplay ==
  /\ projection = "ready" /\ ~dirty
  /\ \A c \in Clients : call[c].pc = "idle"
  /\ HashesOf(stored) \subseteq
       told.written \cup told.marked \cup told.inbound
  => Files(View) = Files(OrderFileKeys(stored))

=============================================================================
