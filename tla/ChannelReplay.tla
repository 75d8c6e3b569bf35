--------------------------- MODULE ChannelReplay ---------------------------
(***************************************************************************)
(* Several devices replaying one channel.  Every device writes on the head *)
(* of its own replay, with its own clock; events reach the other devices'  *)
(* storage one by one, in any order.  A device has its log (`stored`), the *)
(* order kept by its projector (`keys`) and the entries the projection has *)
(* reduced (`reduced`: the replay up to insertAt is kept, the rest is done *)
(* again).  What the entries do to the volume is VolumeReplay's subject;   *)
(* here they are only put in order.                                        *)
(***************************************************************************)
EXTENDS ReplayOrder

CONSTANTS
  Devices,
  Times,            \* what the devices' clocks may show
  Verbs,            \* verbs the devices write
  MaxEvents         \* bound: events in the channel

ASSUME TimesAreNumbers == Times \subseteq Nat
ASSUME MaxEventsIsNat == MaxEvents \in Nat

VARIABLES
  published,  \* the set of all entries
  observed,   \* history: hash |-> FILES hashes its writer had replayed
  stored, keys, reduced

vars == <<published, observed, stored, keys, reduced>>

Init ==
  /\ published = {}
  /\ observed = <<>>
  /\ stored  = [d \in Devices |-> <<>>]
  /\ keys    = [d \in Devices |-> <<>>]
  /\ reduced = [d \in Devices |-> <<>>]

-----------------------------------------------------------------------------

\* projection.ingest: merge the entries and replay from the first that moved.
Ingest(d, entries) ==
  LET merged == Reorder(keys[d], entries)
  IN  /\ keys' = [keys EXCEPT ![d] = merged.keys]
      /\ reduced' = [reduced EXCEPT ![d] =
           SubSeq(@, 1, merged.insertAt)
             \o SubSeq(merged.keys, merged.insertAt + 1, Len(merged.keys))]

\* A local write: stored, then ingested.
Publish(d, verb, ts, hash) ==
  LET entry == [hash |-> hash, verb |-> verb, ref |-> FirstRef(verb, reduced[d]), ts |-> ts]
  IN  /\ hash \notin {e.hash : e \in published}
      /\ verb \in FileVerbs => ts # NoTime
      /\ published' = published \cup {entry}
      /\ observed' = [h \in DOMAIN observed \cup {hash} |->
                        IF h = hash THEN FileHashes(reduced[d]) ELSE observed[h]]
      /\ stored' = [stored EXCEPT ![d] = Append(@, entry)]
      /\ Ingest(d, <<entry>>)

\* Another program brings an event to the device's storage.
Deliver(d, entry) ==
  /\ entry.hash \notin HashesOf(stored[d])
  /\ stored' = [stored EXCEPT ![d] = Append(@, entry)]
  /\ UNCHANGED <<published, observed, keys, reduced>>

\* projection.catchUp: list the storage, ingest what is not known.
CatchUp(d) ==
  /\ Unknown(keys[d], stored[d]) # <<>>
  /\ Ingest(d, Unknown(keys[d], stored[d]))
  /\ UNCHANGED <<published, observed, stored>>

Next ==
  \E d \in Devices :
    \/ \E verb \in Verbs, ts \in Times \cup {NoTime}, hash \in 1 .. MaxEvents :
         Publish(d, verb, ts, hash)
    \/ \E entry \in published : Deliver(d, entry)
    \/ CatchUp(d)

Spec == Init /\ [][Next]_vars

-----------------------------------------------------------------------------
(* Properties *)

\* So far no event has reached a storage before its parent.
ParentsArrivedFirst ==
  \A d \in Devices : \A i \in DOMAIN stored[d] :
    ParentOf(stored[d][i]) # NoRef =>
      ParentOf(stored[d][i]) \in HashesOf(SubSeq(stored[d], 1, i - 1))

TypeOK ==
  /\ \A e \in published : e.hash \in 1 .. MaxEvents
  /\ \A d \in Devices :
       /\ ToSet(stored[d]) \subseteq published
       /\ ToSet(keys[d]) \subseteq ToSet(stored[d])
       /\ \A log \in {stored[d], keys[d], reduced[d]} : IsInjective(log)

\* Two devices that know the same events replay them in the same order, in
\* whatever order and in whatever batches the events reached them.
Converged ==
  \A d, e \in Devices :
    ToSet(keys[d]) = ToSet(keys[e]) => keys[d] = keys[e]

\* What the projection has reduced is its order: insertAt never keeps the
\* replay of an entry that another one now precedes.
ReducedInOrder == \A d \in Devices : reduced[d] = keys[d]

\* A write replays after every FILES event its writer had replayed, on every
\* device and however many concurrent events come in between: only the last
\* of them is named in the event.  (It takes parents that arrive first: without
\* them a FILES event replayed as a root may later move behind the write.)
WriteFollowsObserved ==
  ParentsArrivedFirst =>
    \A d \in Devices : \A g \in FileHashes(keys[d]) :
      \A h \in observed[g] \cap HashesOf(keys[d]) : Before(keys[d], h, g)

\* A context loaded with an earlier one as seed replays the FILES events that
\* a load of the whole storage would, in its order: the entries it reuses are
\* never in the wrong place, and none that waited for its parent is forgotten.
SeededLoadIsFull ==
  \A d \in Devices : \A n \in 0 .. Len(stored[d]) :
    LET seed == OrderEventLogEntries(SubSeq(stored[d], 1, n))
    IN  Files(LoadChannelEntries(seed, stored[d]))
          = Files(OrderEventLogEntries(stored[d]))

\* The two implementations of the order agree on FILES events when no parent
\* is missing.
OrdersAgree ==
  ParentsArrivedFirst =>
    \A d \in Devices : Files(OrderEventLogEntries(stored[d])) = Files(OrderFileKeys(stored[d]))

-----------------------------------------------------------------------------
(* What the specification of the order asks and the projector does not do *)

\* An event whose first ref names no known event waits for it.
MissingParentIsPending ==
  \A d \in Devices : \A e \in ToSet(keys[d]) :
    ParentOf(e) # NoRef => ParentOf(e) \in HashesOf(keys[d])

=============================================================================
