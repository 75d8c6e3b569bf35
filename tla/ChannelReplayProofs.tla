------------------------- MODULE ChannelReplayProofs -------------------------
(***************************************************************************)
(* What holds of the devices that replay one channel, for any number of    *)
(* devices, events and clocks.  The inductive invariant says that a        *)
(* projector's keys are the canonical order (ReplayOrderProofs) of the     *)
(* entries they are made of; that order is unique, and so it does not      *)
(* matter in which batches the entries came.                               *)
(***************************************************************************)
EXTENDS ChannelTimeline, ReplayOrderProofs

-----------------------------------------------------------------------------
(* The inductive invariant *)

PublishedInv ==
  /\ Channel(published)
  /\ \A e \in published : e.hash \in 1 .. MaxEvents

\* What a device has, and what it has put in order of it.
Replica(E, log, order) ==
  /\ LogOf(E, log)
  /\ Canonical(ToSet(order), order)
  /\ ToSet(order) \subseteq ToSet(log)

DevicesInv ==
  /\ DOMAIN stored = Devices /\ DOMAIN keys = Devices /\ DOMAIN reduced = Devices
  /\ \A d \in Devices : Replica(published, stored[d], keys[d]) /\ reduced[d] = keys[d]

IInv == PublishedInv /\ DevicesInv

\* The replay a device has after a reorder: what it kept, then the rest.
Replayed(order, r) == SubSeq(order, 1, r.insertAt) \o SubSeq(r.keys, r.insertAt + 1, Len(r.keys))

\* Ingesting a batch of the device's log.
LEMMA IngestKeepsReplica ==
  ASSUME NEW E, Channel(E), NEW log, NEW order, Replica(E, log, order),
         NEW more, LogOf(ToSet(log), more)
  PROVE  /\ Replica(E, log, Reorder(order, more).keys)
         /\ Canonical(ToSet(order) \cup ToSet(more), Reorder(order, more).keys)
         /\ Replayed(order, Reorder(order, more)) = Reorder(order, more).keys
<1> USE DEF Replica
<1>1. ToSet(log) \subseteq E /\ ToSet(more) \subseteq ToSet(log)
  BY LogIsSeq
<1>2. LogOf(E, order) /\ LogOf(E, more)
  BY <1>1, LogOfMore DEF Canonical
<1>3. Canonical(ToSet(order) \cup ToSet(more), Reorder(order, more).keys)
  BY <1>2, ReorderIsCanonical
<1>4. Canonical(ToSet(Reorder(order, more).keys), Reorder(order, more).keys)
  BY <1>3, CanonicalOfItself
<1>5. ToSet(Reorder(order, more).keys) \subseteq ToSet(order) \cup ToSet(more)
  BY <1>3, LogIsSeq DEF Canonical
<1>6. Replayed(order, Reorder(order, more)) = Reorder(order, more).keys
  BY <1>2, ReorderKeepsFront DEF Replayed
<1> QED BY <1>1, <1>3, <1>4, <1>5, <1>6

\* No entries are in order.
LEMMA InitIInv == Init => IInv
<1> SUFFICES ASSUME Init PROVE IInv
  OBVIOUS
<1>1. PublishedInv
  BY DEF Init, PublishedInv, Channel
<1>2. ASSUME NEW S PROVE LogOf(S, <<>>) /\ ToSet(<<>>) = {}
  <2>1. <<>> \in Seq(S) /\ DOMAIN <<>> = {}
    OBVIOUS
  <2> QED BY <2>1 DEF LogOf, ToSet, IsInjective
<1>3. Canonical({}, <<>>)
  <2>1. Len(<<>>) = 0 /\ 1 .. 0 = {}
    OBVIOUS
  <2> QED BY <1>2, <2>1 DEF Canonical, Free
<1>4. DevicesInv
  BY <1>2, <1>3 DEF Init, DevicesInv, Replica
<1> QED BY <1>1, <1>4 DEF IInv

\* A replica of a channel is one of a larger channel.
LEMMA ReplicaOfMore ==
  ASSUME NEW A, NEW B, A \subseteq B, NEW log, NEW order, Replica(A, log, order)
  PROVE  Replica(B, log, order)
BY LogOfMore DEF Replica

\* What Ingest does to the state of the device.
LEMMA IngestStep ==
  ASSUME IInv, NEW d \in Devices, NEW more, Ingest(d, more), NEW E, Channel(E),
         NEW log, Replica(E, log, keys[d]), LogOf(ToSet(log), more)
  PROVE  /\ DOMAIN keys' = Devices /\ DOMAIN reduced' = Devices
         /\ keys'[d] = Reorder(keys[d], more).keys
         /\ Replica(E, log, keys'[d]) /\ reduced'[d] = keys'[d]
         /\ \A c \in Devices \ {d} : keys'[c] = keys[c] /\ reduced'[c] = reduced[c]
<1>1. DOMAIN keys = Devices /\ DOMAIN reduced = Devices /\ reduced[d] = keys[d]
  BY DEF IInv, DevicesInv
<1> DEFINE r == Reorder(keys[d], more)
<1>2. /\ keys' = [keys EXCEPT ![d] = r.keys]
      /\ reduced' = [reduced EXCEPT ![d] = Replayed(@, r)]
  BY DEF Ingest, Replayed
<1>3. Replica(E, log, r.keys) /\ Replayed(keys[d], r) = r.keys
  BY IngestKeepsReplica, ZenonT(60)
<1> HIDE DEF r
<1>4. keys'[d] = r.keys /\ reduced'[d] = r.keys
  BY <1>1, <1>2, <1>3
<1> QED BY <1>1, <1>2, <1>3, <1>4 DEF r

\* A write: the hash is new, and the entry joins storage and order together.
LEMMA PublishKeepsIInv ==
  ASSUME IInv, NEW d \in Devices, NEW verb \in Verbs, NEW ts \in Times \cup {NoTime},
         NEW hash \in 1 .. MaxEvents, Publish(d, verb, ts, hash)
  PROVE  IInv'
<1> DEFINE entry == [hash |-> hash, verb |-> verb, ref |-> FirstRef(verb, reduced[d]), ts |-> ts]
<1>1. /\ hash \notin {e.hash : e \in published}
      /\ published' = published \cup {entry}
      /\ stored' = [stored EXCEPT ![d] = Append(@, entry)]
      /\ Ingest(d, <<entry>>)
  BY DEF Publish
<1>2. entry.hash = hash /\ entry.ts = ts /\ entry \in published'
  BY <1>1
<1> HIDE DEF entry
<1>3. Channel(published')
  <2>1. entry.hash \in Nat /\ ExtractTimestamp(entry, 0) \in Nat
    BY <1>2, TimesAreNumbers DEF ExtractTimestamp
  <2>2. \A e \in published : e.hash # entry.hash
    BY <1>1, <1>2
  <2> QED BY <1>1, <2>1, <2>2 DEF IInv, PublishedInv, Channel
<1>4. PublishedInv'
  BY <1>1, <1>2, <1>3 DEF IInv, PublishedInv
<1>5. DOMAIN stored' = Devices /\ stored'[d] = Append(stored[d], entry)
      /\ \A c \in Devices \ {d} : stored'[c] = stored[c]
  BY <1>1 DEF IInv, DevicesInv
<1>6. published \subseteq published'
  BY <1>1
<1>7. LogOf(published', stored'[d]) /\ ToSet(stored'[d]) = ToSet(stored[d]) \cup {entry}
  <2>1. LogOf(published, stored[d])
    BY DEF IInv, DevicesInv, Replica
  <2>2. LogOf(published', stored[d])
    BY <1>6, <2>1, LogOfMore
  <2>3. entry \notin ToSet(stored[d])
    BY <1>1, <1>2, <2>1, LogIsSeq
  <2> QED BY <1>2, <1>5, <2>2, <2>3, LogOfAppend
<1>8. LogOf(ToSet(stored'[d]), <<entry>>)
  BY <1>7, LogOfOne
<1>9. Replica(published', stored'[d], keys[d])
  BY <1>7 DEF IInv, DevicesInv, Replica
<1>10. /\ DOMAIN keys' = Devices /\ DOMAIN reduced' = Devices
       /\ Replica(published', stored'[d], keys'[d]) /\ reduced'[d] = keys'[d]
       /\ \A c \in Devices \ {d} : keys'[c] = keys[c] /\ reduced'[c] = reduced[c]
  BY <1>1, <1>3, <1>8, <1>9, IngestStep
<1>11. ASSUME NEW c \in Devices \ {d}
       PROVE  Replica(published', stored'[c], keys'[c]) /\ reduced'[c] = keys'[c]
  BY <1>5, <1>6, <1>10, ReplicaOfMore DEF IInv, DevicesInv
<1>12. DevicesInv'
  BY <1>5, <1>10, <1>11 DEF DevicesInv
<1> QED BY <1>4, <1>12 DEF IInv

\* A delivery adds to the storage only.
LEMMA DeliverKeepsIInv ==
  ASSUME IInv, NEW d \in Devices, NEW entry \in published, Deliver(d, entry)
  PROVE  IInv'
<1>1. /\ entry.hash \notin HashesOf(stored[d])
      /\ stored' = [stored EXCEPT ![d] = Append(@, entry)]
      /\ UNCHANGED <<published, keys, reduced>>
  BY DEF Deliver
<1>2. LogOf(published, stored[d])
  BY DEF IInv, DevicesInv, Replica
<1>3. entry \notin ToSet(stored[d])
  BY <1>1, <1>2, HashesAreOf
<1>4. /\ LogOf(published, Append(stored[d], entry))
      /\ ToSet(Append(stored[d], entry)) = ToSet(stored[d]) \cup {entry}
  BY <1>2, <1>3, LogOfAppend
<1>5. /\ DOMAIN stored' = Devices /\ stored'[d] = Append(stored[d], entry)
      /\ \A c \in Devices \ {d} : stored'[c] = stored[c]
  BY <1>1 DEF IInv, DevicesInv
<1>6. DevicesInv'
  BY <1>1, <1>4, <1>5 DEF IInv, DevicesInv, Replica
<1>7. PublishedInv'
  BY <1>1 DEF IInv, PublishedInv
<1> QED BY <1>6, <1>7 DEF IInv

\* A catch-up merges what the storage has and the order has not.
LEMMA CatchUpKeepsIInv ==
  ASSUME IInv, NEW d \in Devices, CatchUp(d)
  PROVE  IInv'
<1> DEFINE more == Unknown(keys[d], stored[d])
<1>1. Ingest(d, more) /\ UNCHANGED <<published, observed, stored>>
  BY DEF CatchUp
<1>2. Replica(published, stored[d], keys[d]) /\ Channel(published)
  BY DEF IInv, DevicesInv, PublishedInv
<1>3. LogOf(ToSet(stored[d]), more)
  <2>1. LogOf(ToSet(stored[d]), stored[d])
    BY <1>2, LogIsSeq DEF Replica, LogOf
  <2> QED BY <2>1, UnknownIsLog
<1> HIDE DEF more
<1>4. /\ DOMAIN keys' = Devices /\ DOMAIN reduced' = Devices
      /\ Replica(published, stored[d], keys'[d]) /\ reduced'[d] = keys'[d]
      /\ \A c \in Devices \ {d} : keys'[c] = keys[c] /\ reduced'[c] = reduced[c]
  BY <1>1, <1>2, <1>3, IngestStep
<1>5. DevicesInv'
  BY <1>1, <1>4 DEF IInv, DevicesInv
<1>6. PublishedInv'
  BY <1>1 DEF IInv, PublishedInv
<1> QED BY <1>5, <1>6 DEF IInv

\* One step of any device.
LEMMA NextIInv == IInv /\ [Next]_vars => IInv'
<1> SUFFICES ASSUME IInv, [Next]_vars PROVE IInv'
  OBVIOUS
<1>1. CASE UNCHANGED vars
  BY <1>1 DEF vars, IInv, PublishedInv, DevicesInv
<1>2. CASE Next
  BY <1>2, PublishKeepsIInv, DeliverKeepsIInv, CatchUpKeepsIInv DEF Next
<1> QED BY <1>1, <1>2

\* Every device of every channel has its entries in the canonical order.
THEOREM Inductive == Spec => []IInv
BY InitIInv, NextIInv, PTL DEF Spec

-----------------------------------------------------------------------------
(* The properties *)

\* Whatever is replayed was published and has reached the device, and no log
\* has an entry twice, for every number of devices and events.
THEOREM TypeCorrect == Spec => []TypeOK
<1>1. IInv => TypeOK
  <2> SUFFICES ASSUME IInv PROVE TypeOK
    OBVIOUS
  <2>1. ASSUME NEW d \in Devices
        PROVE  /\ ToSet(stored[d]) \subseteq published /\ ToSet(keys[d]) \subseteq ToSet(stored[d])
               /\ IsInjective(stored[d]) /\ IsInjective(keys[d]) /\ IsInjective(reduced[d])
    BY LogIsSeq DEF IInv, DevicesInv, Replica, Canonical, LogOf
  <2> QED BY <2>1 DEF IInv, PublishedInv, TypeOK
<1> QED BY <1>1, Inductive, PTL

\* Devices that know the same events replay them in the same order
\* (fileLogEntries.ts, filesProjector.ts), however many devices and events
\* there are and in whatever order and batches the events came.
THEOREM Convergence == Spec => []Converged
<1>1. IInv => Converged
  <2> SUFFICES ASSUME IInv, NEW d \in Devices, NEW e \in Devices,
                      ToSet(keys[d]) = ToSet(keys[e])
               PROVE  keys[d] = keys[e]
    BY DEF Converged
  <2>1. /\ Canonical(ToSet(keys[d]), keys[d]) /\ Canonical(ToSet(keys[d]), keys[e])
        /\ ToSet(keys[d]) \subseteq published
    BY LogIsSeq DEF IInv, DevicesInv, Replica
  <2>2. Channel(ToSet(keys[d]))
    BY <2>1, ChannelOfLess DEF IInv, PublishedInv
  <2> QED BY <2>1, <2>2, CanonicalIsUnique
<1> QED BY <1>1, Inductive, PTL

\* The projection reduces from insertAt on (filesProjector.ts reorder) and has
\* at all times the whole replay in order.
THEOREM KeptReplayIsInOrder == Spec => []ReducedInOrder
<1>1. IInv => ReducedInOrder
  BY DEF IInv, DevicesInv, ReducedInOrder
<1> QED BY <1>1, Inductive, PTL

-----------------------------------------------------------------------------
(* Writes follow what they have observed.  A second invariant keeps, for    *)
(* every FILES event, the order its writer had: all FILES events of it come *)
(* no later than the parent, and other devices agree with it on what they   *)
(* know of it (ViewsAgree).                                                 *)

\* The premise of WriteFollowsObserved, without SubSeq.
LEMMA ArrivedFirst ==
  ASSUME IInv
  PROVE  ParentsArrivedFirst <=> \A d \in Devices : Arrived(stored[d])
<1>1. ASSUME NEW d \in Devices, NEW i \in 1 .. Len(stored[d])
      PROVE  HashesOf(SubSeq(stored[d], 1, i - 1)) = {stored[d][j].hash : j \in 1 .. i - 1}
  <2>1. stored[d] \in Seq(published) /\ Len(stored[d]) \in Nat
    BY LogIsSeq DEF IInv, DevicesInv, Replica
  <2>2. /\ DOMAIN SubSeq(stored[d], 1, i - 1) = 1 .. i - 1
        /\ \A j \in 1 .. i - 1 : SubSeq(stored[d], 1, i - 1)[j] = stored[d][j]
    <3>1. i - 1 \in Nat /\ i - 1 \in Int /\ 1 \in Int /\ \A j \in 1 .. i - 1 : j \in 1 .. Len(stored[d])
      BY <2>1
    <3>2. \A j \in 1 .. i - 1 : stored[d][j] \in published
      BY <2>1, <3>1
    <3>3. /\ SubSeq(stored[d], 1, i - 1) \in Seq(published)
          /\ Len(SubSeq(stored[d], 1, i - 1)) = i - 1
          /\ \A j \in 1 .. i - 1 : SubSeq(stored[d], 1, i - 1)[j] = stored[d][j]
      BY <3>1, <3>2, SubSeqProperties
    <3> QED BY <3>3, LenProperties
  <2> QED BY <2>2 DEF HashesOf
<1>2. \A d \in Devices : DOMAIN stored[d] = 1 .. Len(stored[d])
  BY LogIsSeq DEF IInv, DevicesInv, Replica
<1>3. ASSUME NEW d \in Devices, NEW i \in 1 .. Len(stored[d])
      PROVE  ParentOf(stored[d][i]) \in HashesOf(SubSeq(stored[d], 1, i - 1))
               <=> \E j \in 1 .. i - 1 : stored[d][j].hash = ParentOf(stored[d][i])
  BY <1>1
<1> QED BY ONLY <1>2, <1>3 DEF ParentsArrivedFirst, Arrived

\* q is what the writer of e had replayed.
WriteView(e, q) ==
  /\ ViewOf(published, q)
  /\ observed[e.hash] = FileHashes(q)
  /\ \A f \in ToSet(q) : IsFileEventEntry(f) =>
       \E i, m \in 1 .. Len(q) : i <= m /\ q[i] = f /\ q[m].hash = ParentOf(e)

KeysClosed == \A d \in Devices : Closed(ToSet(keys[d]))

WritesHaveViews == \A e \in published : IsFileEventEntry(e) => \E q : WriteView(e, q)

WInv ==
  /\ DOMAIN observed = {e.hash : e \in published}
  /\ ParentsArrivedFirst => KeysClosed /\ WritesHaveViews

\* Nothing is written yet.
LEMMA InitWInv == Init => WInv
<1> SUFFICES ASSUME Init PROVE WInv
  OBVIOUS
<1>1. DOMAIN observed = {} /\ published = {}
  BY DEF Init
<1>2. KeysClosed
  BY DEF Init, KeysClosed, Closed, ToSet
<1> QED BY <1>1, <1>2 DEF WInv, WritesHaveViews

\* What has arrived first still has when more is appended behind it.
LEMMA ArrivedFirstBefore ==
  ASSUME IInv, IInv', ParentsArrivedFirst',
         \A d \in Devices : stored'[d] = stored[d] \/ \E e : stored'[d] = Append(stored[d], e)
  PROVE  ParentsArrivedFirst /\ \A d \in Devices : Arrived(stored'[d])
<1>1. \A d \in Devices : Arrived(stored'[d])
  <2>1. (ParentsArrivedFirst <=> \A d \in Devices : Arrived(stored[d]))'
    BY ArrivedFirst, PTL
  <2> QED BY <2>1
<1>2. ASSUME NEW d \in Devices PROVE Arrived(stored[d])
  <2>1. LogOf(published, stored[d])
    BY DEF IInv, DevicesInv, Replica
  <2> QED BY <1>1, <2>1, ArrivedBefore
<1> QED BY <1>1, <1>2, ArrivedFirst

\* A write: what the writer has replayed is the event's view.
LEMMA PublishKeepsWInv ==
  ASSUME IInv, IInv', WInv, NEW d \in Devices, NEW verb \in Verbs,
         NEW ts \in Times \cup {NoTime}, NEW hash \in 1 .. MaxEvents, Publish(d, verb, ts, hash)
  PROVE  WInv'
<1>1. PICK entry :
        /\ entry = [hash |-> hash, verb |-> verb, ref |-> FirstRef(verb, reduced[d]), ts |-> ts]
        /\ hash \notin {e.hash : e \in published}
        /\ published' = published \cup {entry}
        /\ observed' = [h \in DOMAIN observed \cup {hash} |->
                          IF h = hash THEN FileHashes(reduced[d]) ELSE observed[h]]
        /\ stored' = [stored EXCEPT ![d] = Append(@, entry)]
        /\ Ingest(d, <<entry>>)
  BY DEF Publish
<1>2. /\ entry.hash = hash /\ entry \in published'
      /\ entry.ref = FirstRef(entry.verb, reduced[d]) /\ published \subseteq published'
  BY <1>1
<1>3. DOMAIN observed' = {e.hash : e \in published'}
  BY <1>1, <1>2 DEF WInv
<1> SUFFICES ASSUME ParentsArrivedFirst' PROVE KeysClosed' /\ WritesHaveViews'
  BY <1>3 DEF WInv
<1>4. DOMAIN stored = Devices /\ reduced[d] = keys[d] /\ Replica(published, stored[d], keys[d])
  BY DEF IInv, DevicesInv
<1>5. stored'[d] = Append(stored[d], entry) /\ \A c \in Devices \ {d} : stored'[c] = stored[c]
  BY <1>1, <1>4
<1>6. ParentsArrivedFirst /\ \A c \in Devices : Arrived(stored'[c])
  BY <1>5, ArrivedFirstBefore
<1>7. KeysClosed /\ WritesHaveViews
  BY <1>6 DEF WInv
<1>8. Channel(published) /\ Channel(published')
  BY DEF IInv, PublishedInv
<1>9. LogOf(published, keys[d]) /\ ViewOf(published, keys[d])
  <2>1. Canonical(ToSet(keys[d]), keys[d]) /\ ToSet(keys[d]) \subseteq published
    BY <1>4, LogIsSeq DEF Replica
  <2> QED BY <1>7, <2>1, LogOfMore DEF Canonical, ViewOf, KeysClosed
<1>10. /\ ParentOf(entry) # NoRef => \E f \in ToSet(keys[d]) : f.hash = ParentOf(entry)
       /\ IsFileEventEntry(entry) =>
            \A f \in ToSet(keys[d]) : IsFileEventEntry(f) =>
              \E i, m \in 1 .. Len(keys[d]) :
                i <= m /\ keys[d][i] = f /\ keys[d][m].hash = ParentOf(entry)
  BY <1>2, <1>4, <1>8, <1>9, HeadIsLast
<1>11. ToSet(keys'[d]) = ToSet(keys[d]) \cup {entry}
  <2>1. entry \notin ToSet(stored[d])
    BY <1>1, <1>2, <1>4, LogIsSeq DEF Replica
  <2>2. LogOf(published', stored[d])
    BY <1>2, <1>4, LogOfMore DEF Replica
  <2>3. LogOf(published', stored'[d]) /\ ToSet(stored'[d]) = ToSet(stored[d]) \cup {entry}
    BY <1>2, <1>5, <2>1, <2>2, LogOfAppend
  <2>4. LogOf(ToSet(stored'[d]), <<entry>>) /\ ToSet(<<entry>>) = {entry}
    BY <2>3, LogOfOne
  <2>5. Replica(published', stored'[d], keys[d])
    BY <1>4, <2>3 DEF Replica
  <2>6. keys'[d] = Reorder(keys[d], <<entry>>).keys
    BY <1>1, <1>8, <2>4, <2>5, IngestStep
  <2>7. Canonical(ToSet(keys[d]) \cup {entry}, keys'[d])
    <3>1. Canonical(ToSet(keys[d]) \cup ToSet(<<entry>>), Reorder(keys[d], <<entry>>).keys)
      BY <1>8, <2>4, <2>5, IngestKeepsReplica
    <3> QED BY <2>4, <2>6, <3>1
  <2>8. ToSet(keys[d]) \cup {entry} \in SUBSET ToSet(stored'[d])
    BY <1>4, <2>3 DEF Replica
  <2> QED BY <1>6, <1>8, <2>3, <2>7, <2>8, ArrivedIsOrdered
<1>12. \A c \in Devices \ {d} : keys'[c] = keys[c]
  BY <1>1 DEF Ingest, IInv, DevicesInv
<1>13. KeysClosed'
  <2>1. Closed(ToSet(keys'[d]))
    BY <1>7, <1>10, <1>11 DEF KeysClosed, Closed
  <2> QED BY <1>7, <1>12, <2>1 DEF KeysClosed
<1>14. ASSUME NEW q, ViewOf(published, q) PROVE ViewOf(published', q)
  BY <1>2, <1>14 DEF ViewOf
<1>15. ASSUME IsFileEventEntry(entry) PROVE \E q : WriteView(entry, q)'
  <2>1. PICK q : q = keys[d]
    OBVIOUS
  <2>2. observed'[entry.hash] = FileHashes(q)
    BY <1>1, <1>2, <1>4, <2>1
  <2>3. WriteView(entry, q)'
    BY <1>9, <1>10, <1>14, <1>15, <2>1, <2>2 DEF WriteView
  <2> QED BY <2>3
<1>16. ASSUME NEW e \in published, IsFileEventEntry(e) PROVE \E q : WriteView(e, q)'
  <2>1. PICK q : WriteView(e, q)
    BY <1>7, <1>16 DEF WritesHaveViews
  <2>2. observed'[e.hash] = observed[e.hash]
    BY <1>1 DEF WInv
  <2> QED BY <1>14, <2>1, <2>2 DEF WriteView
<1>17. WritesHaveViews'
  BY <1>1, <1>15, <1>16 DEF WritesHaveViews
<1> QED BY <1>13, <1>17

\* A delivery writes and replays nothing.
LEMMA DeliverKeepsWInv ==
  ASSUME IInv, IInv', WInv, NEW d \in Devices, NEW entry \in published, Deliver(d, entry)
  PROVE  WInv'
<1>1. /\ stored' = [stored EXCEPT ![d] = Append(@, entry)]
      /\ UNCHANGED <<published, observed, keys>>
  BY DEF Deliver
<1>2. \A c \in Devices : stored'[c] = stored[c] \/ \E e : stored'[c] = Append(stored[c], e)
  BY <1>1 DEF IInv, DevicesInv
<1>3. ParentsArrivedFirst' => ParentsArrivedFirst
  BY <1>2, ArrivedFirstBefore
<1> QED BY <1>1, <1>3 DEF WInv, KeysClosed, WritesHaveViews, WriteView

\* After a catch-up all that is stored is in order.
LEMMA CatchUpKeepsWInv ==
  ASSUME IInv, IInv', WInv, NEW d \in Devices, CatchUp(d)
  PROVE  WInv'
<1> DEFINE more == Unknown(keys[d], stored[d])
<1>1. Ingest(d, more) /\ UNCHANGED <<published, observed, stored>>
  BY DEF CatchUp
<1> SUFFICES ASSUME ParentsArrivedFirst' PROVE KeysClosed' /\ WritesHaveViews'
  BY <1>1 DEF WInv
<1>2. ParentsArrivedFirst /\ \A c \in Devices : Arrived(stored[c])
  <2>1. \A c \in Devices : stored'[c] = stored[c]
    BY <1>1
  <2> QED BY <1>1, <2>1, ArrivedFirstBefore
<1>3. KeysClosed /\ WritesHaveViews
  BY <1>2 DEF WInv
<1>4. Channel(published) /\ Replica(published, stored[d], keys[d])
  BY DEF IInv, PublishedInv, DevicesInv
<1>5. /\ LogOf(ToSet(stored[d]), more)
      /\ ToSet(more) = {e \in ToSet(stored[d]) : e.hash \notin HashesOf(keys[d])}
  <2>1. LogOf(ToSet(stored[d]), stored[d])
    BY <1>4, LogIsSeq DEF Replica, LogOf
  <2> QED BY <2>1, UnknownIsLog
<1> HIDE DEF more
<1>6. ToSet(keys[d]) \cup ToSet(more) = ToSet(stored[d])
  <2>1. ToSet(keys[d]) \subseteq ToSet(stored[d]) /\ ToSet(stored[d]) \subseteq published
    BY <1>4, LogIsSeq DEF Replica
  <2>2. HashesOf(keys[d]) = {e.hash : e \in ToSet(keys[d])}
    <3>1. LogOf(ToSet(keys[d]), keys[d])
      BY <1>4 DEF Replica, Canonical
    <3> QED BY <3>1, HashesAreOf
  <2>3. ASSUME NEW e \in ToSet(stored[d]), e.hash \in HashesOf(keys[d]) PROVE e \in ToSet(keys[d])
    <3>1. PICK f \in ToSet(keys[d]) : f.hash = e.hash
      BY <2>2, <2>3
    <3> QED BY <1>4, <2>1, <3>1 DEF Channel
  <2> QED BY <1>5, <2>1, <2>3
<1>7. keys'[d] = Reorder(keys[d], more).keys /\ \A c \in Devices \ {d} : keys'[c] = keys[c]
  BY <1>1, <1>4, <1>5, IngestStep
<1>8. Canonical(ToSet(stored[d]), keys'[d])
  <2>1. Canonical(ToSet(keys[d]) \cup ToSet(more), Reorder(keys[d], more).keys)
    BY <1>4, <1>5, IngestKeepsReplica
  <2> QED BY <1>6, <1>7, <2>1
<1>9. LogOf(published, stored[d])
  BY <1>4 DEF Replica
<1>10. ToSet(keys'[d]) = ToSet(stored[d]) /\ Closed(ToSet(stored[d]))
  BY <1>2, <1>4, <1>8, <1>9, ArrivedIsOrdered
<1>11. KeysClosed'
  BY <1>3, <1>7, <1>10 DEF KeysClosed
<1>12. WritesHaveViews'
  BY <1>1, <1>3 DEF WritesHaveViews, WriteView
<1> QED BY <1>11, <1>12

\* One step of any device.
LEMMA NextWInv == IInv /\ IInv' /\ WInv /\ [Next]_vars => WInv'
<1> SUFFICES ASSUME IInv, IInv', WInv, [Next]_vars PROVE WInv'
  OBVIOUS
<1>1. CASE UNCHANGED vars
  BY <1>1 DEF vars, WInv, ParentsArrivedFirst, KeysClosed, WritesHaveViews, WriteView
<1>2. CASE Next
  BY <1>2, PublishKeepsWInv, DeliverKeepsWInv, CatchUpKeepsWInv DEF Next
<1> QED BY <1>1, <1>2

\* In every view of the channel a write is behind what its writer had replayed.
LEMMA SeenBefore ==
  ASSUME Channel(published), WritesHaveViews, NEW p, ViewOf(published, p),
         NEW e \in ToSet(p), IsFileEventEntry(e),
         NEW f \in ToSet(p), f.hash \in observed[e.hash]
  PROVE  \E i, j \in 1 .. Len(p) : i < j /\ p[i] = f /\ p[j] = e
<1>1. /\ LogOf(published, p) /\ DOMAIN p = 1 .. Len(p) /\ ToSet(p) \subseteq published
      /\ \A i \in 1 .. Len(p) : p[i] \in published
  <2>1. /\ LogOf(ToSet(p), p) /\ ToSet(p) \subseteq published
        /\ DOMAIN p = 1 .. Len(p) /\ ToSet(p) = {p[i] : i \in 1 .. Len(p)}
    BY LogIsSeq DEF ViewOf, Canonical
  <2> QED BY <2>1, LogOfMore
<1>2. PICK q : WriteView(e, q)
  BY <1>1 DEF WritesHaveViews
<1>3. ViewOf(published, q) /\ ToSet(q) \subseteq published /\ f.hash \in FileHashes(q)
  BY <1>2 DEF WriteView, ViewOf
<1>4. f \in ToSet(q) /\ IsFileEventEntry(f)
  <2>1. PICK g \in ToSet(q) : IsFileEventEntry(g) /\ g.hash = f.hash
    BY <1>3 DEF FileHashes
  <2> QED BY <1>1, <1>3, <2>1 DEF Channel
<1>5. PICK i \in 1 .. Len(q), m \in 1 .. Len(q) :
        i <= m /\ q[i] = f /\ q[m].hash = ParentOf(e)
  BY <1>2, <1>4 DEF WriteView
<1>6. Before(p, f.hash, e.hash)
  BY <1>3, <1>5, FollowsItsView
<1>7. PICK a, b \in 1 .. Len(p) : a < b /\ p[a].hash = f.hash /\ p[b].hash = e.hash
  BY <1>1, <1>6 DEF Before
<1>8. p[a] = f /\ p[b] = e
  BY <1>1, <1>7 DEF Channel
<1> QED BY <1>7, <1>8

\* While parents arrive first, a write is replayed after every FILES event its
\* writer had replayed (the observed log head of fileEmit.ts), on every device
\* and whatever concurrent events come in between.
THEOREM WritesFollow == Spec => []WriteFollowsObserved
<1>1. IInv /\ WInv => WriteFollowsObserved
  <2> SUFFICES ASSUME IInv, WInv, ParentsArrivedFirst, NEW d \in Devices,
                      NEW g \in FileHashes(keys[d]), NEW h \in observed[g] \cap HashesOf(keys[d])
               PROVE  Before(keys[d], h, g)
    BY DEF WriteFollowsObserved
  <2> DEFINE p == keys[d]
  <2>1. Channel(published) /\ Replica(published, stored[d], p) /\ KeysClosed /\ WritesHaveViews
    BY DEF IInv, PublishedInv, DevicesInv, WInv
  <2>2. ViewOf(published, p) /\ LogOf(ToSet(p), p) /\ Canonical(ToSet(p), p)
    BY <2>1, LogIsSeq DEF Replica, ViewOf, Canonical, KeysClosed
  <2> HIDE DEF p
  <2>3. /\ Len(p) \in Nat /\ DOMAIN p = 1 .. Len(p) /\ ToSet(p) = {p[i] : i \in 1 .. Len(p)}
        /\ ToSet(p) \subseteq published /\ HashesOf(p) = {e.hash : e \in ToSet(p)}
    BY <2>2, LogIsSeq, HashesAreOf DEF ViewOf
  <2>4. PICK e \in ToSet(p) : IsFileEventEntry(e) /\ e.hash = g
    BY DEF FileHashes, p
  <2>5. PICK f \in ToSet(p) : f.hash = h
    BY <2>3 DEF p
  <2>6. PICK i, j \in 1 .. Len(p) : i < j /\ p[i] = f /\ p[j] = e
    BY <2>1, <2>2, <2>4, <2>5, SeenBefore
  <2> QED BY <2>3, <2>4, <2>5, <2>6 DEF Before, p
<1>2. Spec => []WInv
  BY InitWInv, NextWInv, Inductive, PTL DEF Spec
<1> QED BY <1>1, <1>2, Inductive, PTL

-----------------------------------------------------------------------------
(* Both orders.  A FILES event always has a time and is written on a FILES  *)
(* event, and so the others do not matter for its place.                    *)

HeadsInv ==
  \A e \in published :
    /\ IsFileEventEntry(e) => e.ts # NoTime
    /\ ParentOf(e) # NoRef =>
         \E f \in published : f.hash = ParentOf(e) /\ IsFileEventEntry(f)

LEMMA HeadsAreFiles == IInv /\ HeadsInv => FilesOnFiles(published)
<1> SUFFICES ASSUME IInv, HeadsInv, NEW e \in published, IsFileEventEntry(e),
                    NEW f \in published, f.hash = ParentOf(e)
             PROVE  IsFileEventEntry(f)
  BY DEF HeadsInv, FilesOnFiles
<1>1. Channel(published)
  BY DEF IInv, PublishedInv
<1>2. ParentOf(e) # NoRef
  BY <1>1, MarksNotNumbers DEF Channel
<1>3. PICK g \in published : g.hash = ParentOf(e) /\ IsFileEventEntry(g)
  BY <1>2 DEF HeadsInv
<1> QED BY <1>1, <1>3 DEF Channel

LEMMA NextHeadsInv == IInv /\ HeadsInv /\ [Next]_vars => HeadsInv'
<1> SUFFICES ASSUME IInv, HeadsInv, [Next]_vars PROVE HeadsInv'
  OBVIOUS
<1>1. CASE published' = published
  BY <1>1 DEF HeadsInv
<1>2. ASSUME NEW d \in Devices, NEW verb \in Verbs, NEW ts \in Times \cup {NoTime},
             NEW hash \in 1 .. MaxEvents, Publish(d, verb, ts, hash)
      PROVE  HeadsInv'
  <2>1. PICK entry :
          /\ entry = [hash |-> hash, verb |-> verb, ref |-> FirstRef(verb, reduced[d]), ts |-> ts]
          /\ verb \in FileVerbs => ts # NoTime
          /\ published' = published \cup {entry}
    BY <1>2 DEF Publish
  <2>2. /\ entry.ref = FirstRef(entry.verb, reduced[d])
        /\ IsFileEventEntry(entry) => entry.ts # NoTime
    BY <2>1 DEF IsFileEventEntry
  <2>3. Channel(published) /\ LogOf(published, reduced[d]) /\ ToSet(reduced[d]) \subseteq published
    <3>1. /\ Channel(published) /\ reduced[d] = keys[d] /\ LogOf(published, stored[d])
          /\ Canonical(ToSet(keys[d]), keys[d]) /\ ToSet(keys[d]) \subseteq ToSet(stored[d])
      BY DEF IInv, PublishedInv, DevicesInv, Replica
    <3>2. ToSet(keys[d]) \subseteq published
      BY <3>1, LogIsSeq
    <3> QED BY <3>1, <3>2, LogOfMore DEF Canonical
  <2>4. ParentOf(entry) # NoRef =>
          \E f \in published : f.hash = ParentOf(entry) /\ IsFileEventEntry(f)
    BY <2>2, <2>3, HeadIsLast
  <2> QED BY <2>1, <2>2, <2>4 DEF HeadsInv
<1> QED BY <1>1, <1>2 DEF Next, vars, Deliver, CatchUp

LEMMA FilesHaveFiles == Spec => []FilesOnFiles(published)
<1>1. Init => HeadsInv
  BY DEF Init, HeadsInv
<1> QED BY <1>1, NextHeadsInv, HeadsAreFiles, Inductive, PTL DEF Spec

\* A log up to a place.
LEMMA FrontIsLog ==
  ASSUME NEW E, NEW log, LogOf(E, log), NEW n \in 0 .. Len(log)
  PROVE  /\ LogOf(E, SubSeq(log, 1, n)) /\ Len(SubSeq(log, 1, n)) = n
         /\ \A j \in 1 .. n : SubSeq(log, 1, n)[j] = log[j]
         /\ ToSet(SubSeq(log, 1, n)) = {log[j] : j \in 1 .. n}
         /\ ToSet(SubSeq(log, 1, n)) \subseteq ToSet(log)
<1>1. /\ log \in Seq(E) /\ Len(log) \in Nat /\ ToSet(log) = {log[j] : j \in 1 .. Len(log)}
      /\ \A i, j \in 1 .. Len(log) : log[i] = log[j] => i = j
  BY LogIsSeq
<1>2. \A j \in 1 .. n : j \in 1 .. Len(log) /\ log[j] \in E
  BY <1>1
<1> DEFINE front == SubSeq(log, 1, n)
<1>3. front \in Seq(E) /\ Len(front) = n /\ \A j \in 1 .. n : front[j] = log[j]
  <2>1. n \in Int /\ 1 \in Int /\ n - 1 + 1 = n /\ n \in Nat
    BY <1>1
  <2> QED BY <1>1, <1>2, <2>1, SubSeqProperties
<1> HIDE DEF front
<1>4. DOMAIN front = 1 .. n
  BY <1>3, LenProperties
<1>5. IsInjective(front)
  BY <1>1, <1>2, <1>3, <1>4 DEF IsInjective
<1>6. ToSet(front) = {log[j] : j \in 1 .. n}
  BY <1>3, <1>4 DEF ToSet
<1>7. ToSet(front) \subseteq ToSet(log)
  BY <1>1, <1>2, <1>6
<1> QED BY <1>3, <1>5, <1>6, <1>7 DEF LogOf, front

\* A context loaded with an earlier one as seed (fileEmit.ts loadChannelEntries)
\* replays the FILES events that a load of the whole storage would, in its
\* order, whatever has arrived in between and before its parents.
THEOREM SeededLoads == Spec => []SeededLoadIsFull
<1>1. IInv /\ FilesOnFiles(published) => SeededLoadIsFull
  <2> SUFFICES ASSUME IInv, FilesOnFiles(published), NEW d \in Devices, NEW n \in 0 .. Len(stored[d])
               PROVE  Files(LoadChannelEntries(OrderEventLogEntries(SubSeq(stored[d], 1, n)), stored[d]))
                        = Files(OrderEventLogEntries(stored[d]))
    BY DEF SeededLoadIsFull
  <2>1. Channel(published) /\ LogOf(published, stored[d])
    BY DEF IInv, PublishedInv, DevicesInv, Replica
  <2>2. /\ LogOf(published, SubSeq(stored[d], 1, n))
        /\ ToSet(SubSeq(stored[d], 1, n)) \subseteq ToSet(stored[d])
    BY <2>1, FrontIsLog
  <2> QED BY <2>1, <2>2, SeededLoadGivesAll
<1> QED BY <1>1, Inductive, FilesHaveFiles, PTL

\* While parents arrive first the order of whole entries and that of the
\* projector's keys (fileLogEntries.ts, filesProjector.ts) have the FILES
\* events in the same order, whatever else is in the log and with or without
\* a time.
THEOREM BothOrders == Spec => []OrdersAgree
<1>1. IInv /\ FilesOnFiles(published) => OrdersAgree
  <2> SUFFICES ASSUME IInv, FilesOnFiles(published), ParentsArrivedFirst, NEW d \in Devices
               PROVE  Files(OrderEventLogEntries(stored[d])) = Files(OrderFileKeys(stored[d]))
    BY DEF OrdersAgree
  <2> DEFINE log == stored[d]
             T == FilesIn(ToSet(log))
  <2>1. Channel(published) /\ LogOf(published, log) /\ Arrived(log)
    BY ArrivedFirst DEF IInv, PublishedInv, DevicesInv, Replica
  <2> HIDE DEF log
  <2>2. ToSet(log) \subseteq published
    BY <2>1, LogIsSeq
  <2>3. Canonical(ToSet(log), OrderFileKeys(log))
    BY <2>1, OrderIsCanonical
  <2>4. ToSet(OrderFileKeys(log)) = ToSet(log) /\ Closed(ToSet(log))
    BY <2>1, <2>3, ArrivedIsOrdered
  <2>5. ToSet(OrderEventLogEntries(log)) = ToSet(log)
    BY <2>1, EntriesComplete
  <2>6. LogOf(published, OrderFileKeys(log)) /\ LogOf(published, OrderEventLogEntries(log))
    BY <2>1, <2>2, <2>3, EntriesAreLog, LogOfMore DEF Canonical
  <2>7. /\ Lists(OrderEventLogEntries(log), T, Files(OrderEventLogEntries(log)))
        /\ Lists(OrderFileKeys(log), T, Files(OrderFileKeys(log)))
    BY <2>4, <2>5, <2>6, FilesAreListed
  <2>8. WithParents(ToSet(log), T) /\ \A e \in ToSet(log) \cap T : e.ts # NoTime
    BY <2>2 DEF FilesOnFiles, FilesIn, WithParents
  <2>9. Closed(ToSet(log) \cap T)
    <3>1. ASSUME NEW e \in ToSet(log), IsFileEventEntry(e), NEW f \in ToSet(log), f.hash = ParentOf(e)
          PROVE  IsFileEventEntry(f)
      BY <2>2, <3>1 DEF FilesOnFiles
    <3> QED BY <2>4, <3>1 DEF Closed, FilesIn
  <2> HIDE DEF T
  <2> QED BY <2>1, <2>3, <2>7, <2>8, <2>9, OrdersAgreeOnPart DEF log
<1> QED BY <1>1, Inductive, FilesHaveFiles, PTL

-----------------------------------------------------------------------------
(* The timeline: its rows list the entries that have one *)

RowsIn(S) == {e \in S : HasRow(e)}

\* rows are the rows of the entries u, each with a place as its sequence.
ShowsOf(u, rows) ==
  /\ Len(rows) = Len(u) /\ DOMAIN rows = 1 .. Len(u)
  /\ \A i \in 1 .. Len(u) : \E k \in Nat : rows[i] = RowOf(u[i], k)

\* The rows s and the row of the n-th entry, if it has one.
MoreRows(log, n, s) ==
  IF HasRow(log[n]) THEN Append(s, RowOf(log[n], n - 1)) ELSE s

\* The rows of a log are those of a list of its entries that have one.
LEMMA RowsAreListed ==
  ASSUME NEW E, NEW log, LogOf(E, log), NEW S, ToSet(log) \subseteq S
  PROVE  \E u : Lists(log, RowsIn(S), u) /\ ShowsOf(u, BuildTimelineRows(log, TRUE))
<1> DEFINE N == Len(log)
           T == RowsIn(S)
           R == {RowOf(e, k) : e \in E, k \in Nat}
           X == Seq(R)
           x0 == <<>>
           next(n, s) == MoreRows(log, n, s)
           step == [n \in Nat |-> [s \in X |-> IF n \in 1 .. N THEN next(n, s) ELSE s]]
           Solves(g) == g = [n \in 0 .. N |-> IF n = 0 THEN <<>> ELSE next(n, g[n - 1])]
           r == CHOOSE g : Solves(g)
           Good(s, q) == s \in Seq(E) /\ q \in X /\ ShowsOf(s, q)
<1>1. N \in Nat /\ \A n \in 1 .. N : log[n] \in E /\ log[n] \in S
  BY LogIsSeq
<1>2. \A n \in 1 .. N : RowOf(log[n], n - 1) \in R /\ n - 1 \in Nat
  <2>1. \A n \in 1 .. N : n - 1 \in Nat
    BY <1>1
  <2> QED BY <1>1, <2>1
<1>3. \A n \in 1 .. N, s \in X : next(n, s) \in X
  <2> SUFFICES ASSUME NEW n \in 1 .. N, NEW s \in X PROVE Append(s, RowOf(log[n], n - 1)) \in X
    BY DEF MoreRows
  <2> HIDE DEF R
  <2> QED BY <1>2, AppendProperties
<1>4. x0 \in X /\ step \in [Nat -> [X -> X]]
  <2>1. x0 \in X
    OBVIOUS
  <2> HIDE DEF X, next, N
  <2>2. \A n \in Nat : [s \in X |-> IF n \in 1 .. N THEN next(n, s) ELSE s] \in [X -> X]
    BY <1>3
  <2> QED BY <2>1, <2>2
<1>5. PICK f \in [Nat -> X] : f[0] = x0 /\ \A n \in Nat : f[n + 1] = step[n + 1][f[n]]
  <2> HIDE DEF step, X, x0
  <2> QED BY ONLY <1>4, Iterates
<1>6. \A n \in Nat : n < N => f[n + 1] = next(n + 1, f[n])
  <2> SUFFICES ASSUME NEW n \in Nat, n < N PROVE f[n + 1] = next(n + 1, f[n])
    OBVIOUS
  <2>0. N \in Nat
    BY <1>1
  <2> HIDE DEF X, next, N
  <2>1. n + 1 \in 1 .. N /\ n + 1 \in Nat /\ f[n] \in X
    BY <2>0
  <2> QED BY <1>5, <2>1
<1>7. \E g : Solves(g)
  <2> DEFINE g == [n \in 0 .. N |-> f[n]]
  <2>0. N \in Nat
    BY <1>1
  <2> HIDE DEF X, next, N, step
  <2>1. ASSUME NEW n \in 0 .. N PROVE g[n] = IF n = 0 THEN <<>> ELSE next(n, g[n - 1])
    <3>1. CASE n = 0
      BY <1>5, <3>1
    <3>2. CASE n # 0
      <4>1. n - 1 \in Nat /\ n - 1 < N /\ (n - 1) + 1 = n /\ n - 1 \in 0 .. N
        BY <2>0, <3>2
      <4> QED BY <1>6, <3>2, <4>1
    <3> QED BY <3>1, <3>2
  <2>2. Solves(g)
    BY <2>1
  <2> HIDE DEF g, Solves
  <2> QED BY <2>2
<1>8. Solves(r)
  <2> HIDE DEF Solves
  <2> QED BY <1>7
<1>9. r[0] = <<>> /\ \A n \in Nat : n < N => r[n + 1] = next(n + 1, r[n])
  <2>0. N \in Nat
    BY <1>1
  <2> HIDE DEF next, r, N, X
  <2>1. r[0] = <<>>
    BY <1>8, <2>0
  <2>2. ASSUME NEW n \in Nat, n < N PROVE r[n + 1] = next(n + 1, r[n])
    <3>1. n + 1 \in 0 .. N /\ n + 1 # 0 /\ (n + 1) - 1 = n
      BY <2>0, <2>2
    <3> QED BY <1>8, <3>1
  <2> QED BY <2>1, <2>2
<1>10. BuildTimelineRows(log, TRUE) = r[N]
  BY DEF BuildTimelineRows, MoreRows
<1> HIDE DEF r
<1>11. PICK l : MakesList(E, log, T, l)
  BY ListSteps
<1>12. /\ l \in [Nat -> Seq(E)] /\ l[0] = <<>>
       /\ \A n \in Nat : n < N => l[n + 1] = More(log, T, n + 1, l[n])
  BY <1>11 DEF MakesList
<1>13. ASSUME NEW n \in Nat, n < N, NEW s, NEW q, Good(s, q)
       PROVE  Good(More(log, T, n + 1, s), next(n + 1, q))
  <2> DEFINE e == log[n + 1]
             row == RowOf(e, (n + 1) - 1)
  <2>0. N \in Nat
    BY <1>1
  <2>1. n + 1 \in 1 .. N
    BY ONLY <2>0, n \in Nat, n < N
  <2>2. e \in E /\ (e \in T <=> HasRow(e)) /\ row \in R /\ (n + 1) - 1 \in Nat
    BY <1>1, <1>2, <2>1 DEF RowsIn
  <2>3. CASE ~ HasRow(e)
    <3>1. More(log, T, n + 1, s) = s /\ next(n + 1, q) = q
      BY <2>2, <2>3 DEF More, MoreRows
    <3> HIDE DEF Good, T, next
    <3> QED BY <1>13, <3>1
  <2>4. CASE HasRow(e)
    <3>1. More(log, T, n + 1, s) = Append(s, e) /\ next(n + 1, q) = Append(q, row)
      BY <2>2, <2>4 DEF More, MoreRows
    <3>2. \E k \in Nat : row = RowOf(e, k)
      BY <2>2
    <3> HIDE DEF e, row, R
    <3>3. s \in Seq(E) /\ Len(s) \in Nat /\ q \in Seq(R) /\ Len(q) = Len(s) /\ ShowsOf(s, q)
      <4>1. s \in Seq(E) /\ q \in Seq(R) /\ ShowsOf(s, q)
        BY <1>13
      <4>2. Len(s) \in Nat
        BY <4>1, LenProperties
      <4> QED BY <4>1, <4>2 DEF ShowsOf
    <3>4. /\ Append(s, e) \in Seq(E) /\ Len(Append(s, e)) = Len(s) + 1
          /\ Append(s, e)[Len(s) + 1] = e /\ \A i \in 1 .. Len(s) : Append(s, e)[i] = s[i]
      BY <2>2, <3>3, AppendProperties
    <3>5. /\ Append(q, row) \in Seq(R) /\ Len(Append(q, row)) = Len(s) + 1
          /\ Append(q, row)[Len(s) + 1] = row /\ \A i \in 1 .. Len(s) : Append(q, row)[i] = q[i]
      <4>1. q \in Seq(R) /\ row \in R /\ Len(q) = Len(s)
        BY <2>2, <3>3
      <4> HIDE DEF X, N, next
      <4> QED BY ONLY <4>1, AppendProperties
    <3>6. DOMAIN Append(q, row) = 1 .. Len(s) + 1
      BY <3>5, LenProperties
    <3> DEFINE s1 == Append(s, e)
               q1 == Append(q, row)
    <3> HIDE DEF s1, q1
    <3>7. ASSUME NEW i \in 1 .. Len(s1) PROVE \E k \in Nat : q1[i] = RowOf(s1[i], k)
      <4>0. Len(s) \in Nat /\ i \in 1 .. Len(s) + 1
        BY <3>3, <3>4 DEF s1
      <4>9. \A m \in Nat : \A j \in 1 .. m + 1 : j \in 1 .. m \/ j = m + 1
        OBVIOUS
      <4>1. i \in 1 .. Len(s) \/ i = Len(s) + 1
        BY ONLY <4>0, <4>9
      <4>2. CASE i \in 1 .. Len(s)
        BY <3>3, <3>4, <3>5, <4>2 DEF ShowsOf, s1, q1
      <4>3. CASE i = Len(s) + 1
        BY <3>2, <3>4, <3>5, <4>3 DEF s1, q1
      <4> QED BY <4>1, <4>2, <4>3
    <3>8. /\ s1 \in Seq(E) /\ q1 \in X /\ Len(q1) = Len(s1) /\ DOMAIN q1 = 1 .. Len(s1)
      BY <3>4, <3>5, <3>6 DEF s1, q1
    <3>9. Good(s1, q1)
      BY <3>7, <3>8 DEF ShowsOf
    <3> HIDE DEF Good, next, T
    <3> QED BY <3>1, <3>9 DEF s1, q1
  <2> QED BY <2>3, <2>4
<1> DEFINE I == {n \in Nat : n <= N => Good(l[n], r[n])}
<1>14. 0 \in I
  <2>1. Good(<<>>, <<>>)
    <3>1. <<>> \in Seq(E) /\ <<>> \in Seq(R) /\ Len(<<>>) = 0 /\ DOMAIN <<>> = 1 .. 0 /\ 1 .. 0 = {}
      OBVIOUS
    <3> HIDE DEF R
    <3> QED BY <3>1 DEF ShowsOf
  <2> HIDE DEF Good, N
  <2> QED BY <1>9, <1>12, <2>1
<1>15. ASSUME NEW n \in I PROVE n + 1 \in I
  <2>1. n \in Nat /\ n + 1 \in Nat
    OBVIOUS
  <2>2. ASSUME n + 1 <= N PROVE Good(l[n + 1], r[n + 1])
    <3>0. N \in Nat
      BY <1>1
    <3> HIDE DEF Good, N, next, T
    <3>1. n <= N /\ n < N
      BY <2>1, <2>2, <3>0
    <3> QED BY <1>9, <1>12, <1>13, <2>1, <3>1
  <2> HIDE DEF Good, N
  <2> QED BY <2>1, <2>2
<1>16. Good(l[N], r[N])
  <2>0. N \in Nat
    BY <1>1
  <2>1. I \in SUBSET Nat
    <3> HIDE DEF Good, N
    <3> QED OBVIOUS
  <2>2. I = Nat
    <3> HIDE DEF I
    <3> QED BY <1>14, <1>15, <2>1, NatsByStep
  <2> HIDE DEF Good, N
  <2> QED BY <2>0, <2>2
<1>18. ShowsOf(l[N], r[N])
  BY <1>16
<1> HIDE DEF X, Good, I, next
<1> HIDE DEF N
<1>17. Lists(log, RowsIn(S), l[N])
  BY <1>11, MadeIsListed DEF N
<1>19. ShowsOf(l[N], BuildTimelineRows(log, TRUE))
  BY <1>10, <1>18
<1> HIDE DEF N
<1> QED BY <1>17, <1>19

\* What has arrived first is replayed in full.
LEMMA FullView ==
  ASSUME NEW E, Channel(E), NEW log, LogOf(E, log), Arrived(log)
  PROVE  /\ ViewOf(E, OrderFileKeys(log)) /\ LogOf(E, OrderFileKeys(log))
         /\ ToSet(OrderFileKeys(log)) = ToSet(log) /\ Closed(ToSet(log))
<1>1. Canonical(ToSet(log), OrderFileKeys(log))
  BY OrderIsCanonical
<1>2. ToSet(OrderFileKeys(log)) = ToSet(log) /\ Closed(ToSet(log))
  BY <1>1, ArrivedIsOrdered
<1>3. ToSet(log) \subseteq E
  BY LogIsSeq
<1> QED BY <1>1, <1>2, <1>3, LogOfMore DEF ViewOf, Canonical

\* The front of what has arrived first has.
LEMMA ArrivedFront ==
  ASSUME NEW E, NEW log, LogOf(E, log), Arrived(log), NEW n \in 0 .. Len(log)
  PROVE  Arrived(SubSeq(log, 1, n))
<1> DEFINE front == SubSeq(log, 1, n)
<1>1. Len(log) \in Nat
  BY LogIsSeq
<1>2. Len(front) = n /\ \A j \in 1 .. n : front[j] = log[j]
  BY FrontIsLog
<1> HIDE DEF front
<1>3. ASSUME NEW i \in 1 .. n, ParentOf(front[i]) # NoRef
      PROVE  \E j \in 1 .. i - 1 : front[j].hash = ParentOf(front[i])
  <2>1. i \in 1 .. Len(log) /\ \A j \in 1 .. i - 1 : j \in 1 .. n
    BY <1>1
  <2>2. PICK j \in 1 .. i - 1 : log[j].hash = ParentOf(log[i])
    BY <1>2, <1>3, <2>1 DEF Arrived
  <2> QED BY <1>2, <2>1, <2>2
<1> QED BY <1>2, <1>3 DEF Arrived, front

\* u is the list behind the rows that the listing and the delta of a replay show.
Timeline(E, log, replay, u) ==
  /\ ViewOf(E, u) /\ ToSet(u) = RowsIn(ToSet(log))
  /\ ShowsOf(u, BuildTimelineRows(replay, TRUE))
  /\ ShowsOf(u, BuildTimelineRows(replay, FALSE))

\* Both replays of a log show its rows in the canonical order.
LEMMA TimelinesAreViews ==
  ASSUME NEW E, Channel(E), FilesOnFiles(E), \A e \in E : HasRow(e) => e.ts # NoTime,
         NEW log, LogOf(E, log), Arrived(log),
         NEW replay \in {OrderFileKeys(log), OrderEventLogEntries(log)}
  PROVE  \E u : Timeline(E, log, replay, u)
<1> DEFINE S == ToSet(log)
           T == RowsIn(S)
           keys1 == OrderFileKeys(log)
           entries == OrderEventLogEntries(log)
           again == OrderEventLogEntries(replay)
<1>1. /\ LogOf(E, keys1) /\ ToSet(keys1) = S /\ Closed(S) /\ S \subseteq E
      /\ Canonical(S, keys1)
  BY FullView, LogIsSeq, OrderIsCanonical
<1>2. LogOf(E, entries) /\ ToSet(entries) = S
  BY <1>1, EntriesAreLog, EntriesComplete, LogOfMore
<1>3. LogOf(E, replay) /\ ToSet(replay) = S
  BY <1>1, <1>2
<1>4. LogOf(E, again) /\ ToSet(again) \subseteq S
  <2>1. LogOf(S, again)
    BY <1>3, EntriesAreLog
  <2> QED BY <1>1, <2>1, LogOfMore, LogIsSeq
<1>5. WithParents(S, T) /\ S \cap T = T /\ T \subseteq E /\ \A e \in T : e.ts # NoTime
  <2>1. ASSUME NEW e \in S, NEW f \in S, f.hash = ParentOf(e) PROVE IsFileEventEntry(f)
    <3>1. IsFileEventEntry(e)
      <4>1. ParentOf(e) # NoRef
        BY <1>1, <2>1, MarksNotNumbers DEF Channel
      <4> QED BY <4>1 DEF ParentOf, ObservedLogHeadRef
    <3> QED BY <1>1, <2>1, <3>1 DEF FilesOnFiles
  <2> QED BY <1>1, <2>1 DEF RowsIn, WithParents, HasRow, IsFileEventEntry
<1>6. Closed(T)
  <2> SUFFICES ASSUME NEW e \in T, ParentOf(e) # NoRef PROVE \E f \in T : f.hash = ParentOf(e)
    BY DEF Closed
  <2>1. PICK f \in S : f.hash = ParentOf(e)
    BY <1>1, <1>5 DEF Closed
  <2> QED BY <1>5, <2>1 DEF WithParents
<1> HIDE DEF S, keys1, entries, again
<1>7. PICK v : Lists(keys1, T, v) /\ ShowsOf(v, BuildTimelineRows(keys1, TRUE))
  BY <1>1, RowsAreListed
<1>8. PICK w : Lists(entries, T, w) /\ ShowsOf(w, BuildTimelineRows(entries, TRUE))
  BY <1>2, RowsAreListed
<1>9. PICK x : Lists(again, T, x) /\ ShowsOf(x, BuildTimelineRows(again, TRUE))
  BY <1>4, RowsAreListed
<1> HIDE DEF T
<1>10. w = v /\ Canonical(T, v)
  BY <1>1, <1>5, <1>6, <1>7, <1>8, OrdersAgreeOnPart DEF S, entries
<1>11. x = v
  <2>1. /\ LogOf(E, replay) /\ WithParents(ToSet(replay), T) /\ Closed(ToSet(replay) \cap T)
        /\ \A e \in ToSet(replay) \cap T : e.ts # NoTime
        /\ Canonical(ToSet(replay), keys1)
        /\ Lists(OrderEventLogEntries(replay), T, x) /\ Lists(keys1, T, v)
    BY <1>1, <1>3, <1>5, <1>6, <1>7, <1>9 DEF again
  <2> QED BY ONLY Channel(E), <2>1, OrdersAgreeOnPart
<1>12. ToSet(v) = T
  BY <1>1, <1>5, <1>7 DEF Lists
<1>13. ViewOf(E, v)
  BY <1>5, <1>6, <1>10, <1>12 DEF ViewOf
<1>14. ShowsOf(v, BuildTimelineRows(replay, TRUE))
  BY <1>7, <1>8, <1>10 DEF keys1, entries
<1>15. ShowsOf(v, BuildTimelineRows(replay, FALSE))
  <2>1. BuildTimelineRows(replay, FALSE) = BuildTimelineRows(again, TRUE)
    BY DEF BuildTimelineRows, again
  <2> QED BY <1>9, <1>11, <2>1
<1>16. Timeline(E, log, replay, v)
  BY <1>12, <1>13, <1>14, <1>15 DEF Timeline, S, T
<1> QED BY <1>16

\* A function on the first places is a sequence.
LEMMA Numbered ==
  ASSUME NEW v, NEW n \in Nat, DOMAIN v = 1 .. n, v = [i \in DOMAIN v |-> v[i]]
  PROVE  v \in Seq({v[i] : i \in 1 .. n}) /\ Len(v) = n
<1> DEFINE D == {v[i] : i \in 1 .. n}
<1>1. \A i \in 1 .. n : v[i] \in D
  OBVIOUS
<1>2. v \in [1 .. n -> D]
  BY <1>1
<1> HIDE DEF D
<1>3. v \in Seq(D) /\ DOMAIN v = 1 .. n
  BY <1>2, IsASeq
<1>4. Len(v) \in Nat /\ DOMAIN v = 1 .. Len(v)
  BY <1>3, LenProperties
<1>5. \A a, b \in Nat : 1 .. a = 1 .. b => a = b
  OBVIOUS
<1> QED BY <1>3, <1>4, <1>5 DEF D

\* The hashes of the entries behind a place.
HashesAfter(u, c) == {u[i].hash : i \in c + 1 .. Len(u)}

\* Verifying the rows of a list changes none of their hashes.
LEMMA VerifiedHashes ==
  ASSUME NEW u, NEW rows, ShowsOf(u, rows)
  PROVE  LET v == VerifyTimelineIdentities(rows)
         IN  /\ DOMAIN v = 1 .. Len(u) /\ v = [i \in DOMAIN v |-> v[i]]
             /\ \A i \in 1 .. Len(u) : v[i].hash = u[i].hash
             /\ EventsOf(v) = HashesAfter(u, 0)
<1> DEFINE v == VerifyTimelineIdentities(rows)
           n == Len(u)
<1>1. DOMAIN rows = 1 .. n /\ \A i \in 1 .. n : \E k \in Nat : rows[i] = RowOf(u[i], k)
  BY DEF ShowsOf
<1>2. ASSUME NEW i \in 1 .. n PROVE v[i].hash = u[i].hash
  <2>1. PICK k \in Nat : rows[i] = RowOf(u[i], k)
    BY <1>1
  <2>2. rows[i].hash = u[i].hash
    BY <2>1 DEF RowOf
  <2>3. CASE rows[i].record
    BY <1>1, <2>1, <2>2, <2>3 DEF VerifyTimelineIdentities, RowOf
  <2>4. CASE ~ rows[i].record
    BY <1>1, <2>2, <2>4 DEF VerifyTimelineIdentities
  <2> QED BY <2>3, <2>4
<1>3. DOMAIN v = 1 .. n /\ v = [i \in DOMAIN v |-> v[i]]
  BY <1>1 DEF VerifyTimelineIdentities
<1> HIDE DEF v, n
<1>4. EventsOf(v) = {u[i].hash : i \in 1 .. n}
  BY <1>2, <1>3 DEF EventsOf
<1> QED BY <1>2, <1>3, <1>4 DEF v, n, HashesAfter

\* What is sent after a cursor are the rows of the entries behind it; without
\* one, or with one that has no row, all of them.
LEMMA DeltaShows ==
  ASSUME NEW E, Channel(E), NEW u, LogOf(E, u), NEW rows, ShowsOf(u, rows), NEW cursor
  PROVE  LET delta == DeltaAfter(VerifyTimelineIdentities(rows), cursor)
         IN  /\ delta.nextCursor = IF Len(u) = 0 THEN NoCursor ELSE u[Len(u)].hash
             /\ (\A i \in 1 .. Len(u) : u[i].hash # cursor) =>
                  delta.events = VerifyTimelineIdentities(rows)
             /\ \A c \in 1 .. Len(u) : u[c].hash = cursor =>
                  /\ delta.accepted = cursor
                  /\ EventsOf(delta.events) = HashesAfter(u, c)
<1> DEFINE v == VerifyTimelineIdentities(rows)
           n == Len(u)
           delta == DeltaAfter(v, cursor)
<1>1. /\ n \in Nat /\ \A i \in 1 .. n : u[i] \in E
      /\ \A i, j \in 1 .. n : u[i].hash = u[j].hash => i = j
  <2>1. n \in Nat /\ u \in Seq(E) /\ \A i, j \in 1 .. n : u[i] = u[j] => i = j
    BY LogIsSeq
  <2>2. \A i \in 1 .. n : u[i] \in E
    BY <2>1
  <2> QED BY <2>1, <2>2 DEF Channel
<1>3. /\ DOMAIN v = 1 .. n /\ v = [i \in DOMAIN v |-> v[i]]
      /\ \A i \in 1 .. n : v[i].hash = u[i].hash
  BY VerifiedHashes
<1> HIDE DEF v, n
<1> DEFINE D == {v[i] : i \in 1 .. n}
<1>4. v \in Seq(D) /\ Len(v) = n
  BY <1>1, <1>3, Numbered
<1> DEFINE places == {i \in DOMAIN v : v[i].hash = cursor}
<1>5. delta = [accepted |-> IF places = {} THEN NoCursor ELSE cursor,
               nextCursor |-> IF v = <<>> THEN NoCursor ELSE Last(v).hash,
               reset |-> places = {},
               events |-> IF places = {} THEN v ELSE SubSeq(v, Min(places) + 1, Len(v))]
  BY DEF DeltaAfter
<1> HIDE DEF delta
<1>6. delta.nextCursor = IF n = 0 THEN NoCursor ELSE u[n].hash
  <2>1. CASE n = 0
    <3>1. v = <<>>
      BY <1>4, <2>1, EmptySeq
    <3> QED BY <1>5, <2>1, <3>1
  <2>2. CASE n # 0
    <3>1. v # <<>> /\ n \in 1 .. n /\ Last(v) = v[n]
      BY <1>1, <1>4, <2>2, EmptySeq DEF Last
    <3> QED BY <1>3, <1>5, <2>2, <3>1
  <2> QED BY <2>1, <2>2
<1>7. (\A i \in 1 .. n : u[i].hash # cursor) => delta.events = v
  <2> SUFFICES ASSUME \A i \in 1 .. n : u[i].hash # cursor PROVE delta.events = v
    OBVIOUS
  <2>1. places = {}
    BY <1>3
  <2> QED BY <1>5, <2>1
<1>8. ASSUME NEW c \in 1 .. n, u[c].hash = cursor
      PROVE  /\ delta.accepted = cursor
             /\ EventsOf(delta.events) = {u[i].hash : i \in c + 1 .. n}
  <2>1. places = {c} /\ places # {}
    BY <1>1, <1>3, <1>8
  <2>2. Min(places) = c
    <3>1. c \in Nat
      BY <1>1
    <3> HIDE DEF places
    <3> QED BY <2>1, <3>1 DEF Min
  <2> HIDE DEF places
  <2> DEFINE more == SubSeq(v, c + 1, n)
  <2>3. delta.accepted = cursor /\ delta.events = more
    BY <1>4, <1>5, <2>1, <2>2
  <2>4. /\ c + 1 \in Int /\ n \in Int /\ c \in Nat
        /\ \A i \in c + 1 .. n : i \in 1 .. n /\ v[i] \in D
    BY <1>1
  <2>5. /\ more \in Seq(D) /\ Len(more) = IF c + 1 <= n THEN n - (c + 1) + 1 ELSE 0
        /\ \A i \in 1 .. n - (c + 1) + 1 : more[i] = v[(c + 1) + i - 1]
    BY <2>4, SubSeqProperties
  <2>6. DOMAIN more = 1 .. Len(more) /\ Len(more) = n - c
    <3>1. n - (c + 1) + 1 = n - c /\ (~ (c + 1 <= n) => n - c = 0)
      BY <1>1
    <3> QED BY <2>5, <3>1, LenProperties
  <2>7. \A i \in 1 .. n - c : more[i] = v[c + i] /\ c + i \in c + 1 .. n
    <3>1. n - (c + 1) + 1 = n - c /\ \A i \in 1 .. n - c : (c + 1) + i - 1 = c + i /\ c + i \in c + 1 .. n
      BY <1>1, <2>4
    <3> QED BY <2>5, <3>1
  <2>8. \A i \in c + 1 .. n : i - c \in 1 .. n - c /\ c + (i - c) = i
    BY <1>1, <2>4
  <2> HIDE DEF more
  <2>9. EventsOf(more) = {v[i].hash : i \in c + 1 .. n}
    <3>1. EventsOf(more) = {more[i].hash : i \in 1 .. n - c}
      BY <2>6 DEF EventsOf
    <3> QED BY <2>7, <2>8, <3>1
  <2>10. {v[i].hash : i \in c + 1 .. n} = {u[i].hash : i \in c + 1 .. n}
    BY <1>3, <2>4
  <2> QED BY <2>3, <2>9, <2>10
<1> QED BY <1>6, <1>7, <1>8 DEF delta, v, n, HashesAfter

\* What a replay whose rows are those of u answers a cursor.
AnswersFrom(u, replay, cursor) ==
  /\ GetTimelineDelta(replay, cursor).nextCursor
       = IF Len(u) = 0 THEN NoCursor ELSE u[Len(u)].hash
  /\ (\A i \in 1 .. Len(u) : u[i].hash # cursor) =>
       /\ GetTimelineDelta(replay, cursor).events
            = VerifyTimelineIdentities(BuildTimelineRows(replay, FALSE))
       /\ EventsOf(GetTimelineDelta(replay, cursor).events) = HashesAfter(u, 0)
  /\ \A c \in 1 .. Len(u) : u[c].hash = cursor =>
       /\ GetTimelineDelta(replay, cursor).accepted = cursor
       /\ EventsOf(GetTimelineDelta(replay, cursor).events) = HashesAfter(u, c)

LEMMA DeltaOfReplay ==
  ASSUME NEW E, Channel(E), NEW u, LogOf(E, u), NEW replay,
         ShowsOf(u, BuildTimelineRows(replay, FALSE)), NEW cursor
  PROVE  AnswersFrom(u, replay, cursor)
<1> DEFINE rows == BuildTimelineRows(replay, FALSE)
<1>1. GetTimelineDelta(replay, cursor) = DeltaAfter(VerifyTimelineIdentities(rows), cursor)
  BY DEF GetTimelineDelta, DeltaRows
<1> HIDE DEF rows
<1>2. ShowsOf(u, rows)
  BY DEF rows
<1>3. EventsOf(VerifyTimelineIdentities(rows)) = HashesAfter(u, 0)
  BY <1>2, VerifiedHashes
<1> DEFINE delta == DeltaAfter(VerifyTimelineIdentities(rows), cursor)
<1>4. /\ delta.nextCursor = IF Len(u) = 0 THEN NoCursor ELSE u[Len(u)].hash
      /\ (\A i \in 1 .. Len(u) : u[i].hash # cursor) =>
           delta.events = VerifyTimelineIdentities(rows)
      /\ \A c \in 1 .. Len(u) : u[c].hash = cursor =>
           /\ delta.accepted = cursor
           /\ EventsOf(delta.events) = HashesAfter(u, c)
  BY <1>2, DeltaShows
<1> HIDE DEF delta
<1>5. (\A i \in 1 .. Len(u) : u[i].hash # cursor) =>
        /\ delta.events = VerifyTimelineIdentities(rows)
        /\ EventsOf(delta.events) = HashesAfter(u, 0)
  BY <1>3, <1>4
<1> QED BY <1>1, <1>4, <1>5 DEF delta, rows, AnswersFrom

\* The rows of a list of entries that have a time are fixed by it.
LEMMA SameRows ==
  ASSUME NEW u, \A i \in 1 .. Len(u) : u[i].ts # NoTime,
         NEW a, ShowsOf(u, a), NEW b, ShowsOf(u, b)
  PROVE  VerifyTimelineIdentities(a) = VerifyTimelineIdentities(b)
<1>1. DOMAIN a = DOMAIN b /\ DOMAIN a = 1 .. Len(u)
  BY DEF ShowsOf
<1>2. ASSUME NEW i \in 1 .. Len(u) PROVE a[i] = b[i]
  <2>1. PICK k \in Nat : a[i] = RowOf(u[i], k)
    BY DEF ShowsOf
  <2>2. PICK m \in Nat : b[i] = RowOf(u[i], m)
    BY DEF ShowsOf
  <2> QED BY <2>1, <2>2 DEF RowOf, ExtractTimestamp
<1> QED BY <1>1, <1>2 DEF VerifyTimelineIdentities

\* What the proofs about a timeline take of a device: its log, and the front
\* of it that had arrived earlier.
LEMMA LogOfDevice ==
  ASSUME IInv, ParentsArrivedFirst, NEW d \in Devices, NEW n \in 0 .. Len(stored[d])
  PROVE  /\ Channel(published) /\ LogOf(published, stored[d]) /\ Arrived(stored[d])
         /\ LogOf(published, SubSeq(stored[d], 1, n)) /\ Arrived(SubSeq(stored[d], 1, n))
         /\ ToSet(SubSeq(stored[d], 1, n)) \subseteq ToSet(stored[d])
<1>1. Channel(published) /\ LogOf(published, stored[d]) /\ Arrived(stored[d])
  BY ArrivedFirst DEF IInv, PublishedInv, DevicesInv, Replica
<1> QED BY <1>1, FrontIsLog, ArrivedFront

\* The replays of what a device has, and of what it had, are timelines.
LEMMA TimelineOfDevice ==
  ASSUME IInv, FilesOnFiles(published), ParentsArrivedFirst, RowsHaveTimes,
         NEW d \in Devices, NEW n \in 0 .. Len(stored[d]), NEW replay \in ReplaysAt(d, n)
  PROVE  \E u : Timeline(published, SubSeq(stored[d], 1, n), replay, u)
<1>1. /\ Channel(published) /\ LogOf(published, SubSeq(stored[d], 1, n))
      /\ Arrived(SubSeq(stored[d], 1, n))
  BY LogOfDevice
<1>2. \A e \in published : HasRow(e) => e.ts # NoTime
  BY DEF RowsHaveTimes
<1> QED BY <1>1, <1>2, TimelinesAreViews DEF ReplaysAt

\* A listing and the deltas of a timeline (fileService.ts getTimeline,
\* getTimelineDelta) show the same rows, whichever replay they are given.
THEOREM ListingsAgree == Spec => []ListingAndDeltaAgree
<1>1. IInv /\ FilesOnFiles(published) => ListingAndDeltaAgree
  <2> SUFFICES ASSUME IInv, FilesOnFiles(published), ParentsArrivedFirst, RowsHaveTimes,
                      NEW d \in Devices, NEW replay \in ReplaysAt(d, Len(stored[d]))
               PROVE  ToSet(GetTimeline(replay)) = ToSet(GetTimelineDelta(replay, NoCursor).events)
    BY DEF ListingAndDeltaAgree
  <2> DEFINE listed == BuildTimelineRows(replay, TRUE)
             sent == BuildTimelineRows(replay, FALSE)
             log == SubSeq(stored[d], 1, Len(stored[d]))
  <2>0. Len(stored[d]) \in 0 .. Len(stored[d])
    <3>1. Len(stored[d]) \in Nat
      BY LogIsSeq DEF IInv, DevicesInv, Replica
    <3> QED BY <3>1
  <2>1. PICK u : Timeline(published, log, replay, u)
    BY <2>0, TimelineOfDevice
  <2>2. /\ ViewOf(published, u) /\ ToSet(u) = RowsIn(ToSet(log))
        /\ ShowsOf(u, listed) /\ ShowsOf(u, sent)
    BY <2>1 DEF Timeline
  <2>3. Channel(published)
    BY DEF IInv, PublishedInv
  <2> HIDE DEF listed, sent, log
  <2>4. LogOf(published, u) /\ \A i \in 1 .. Len(u) : u[i] \in published /\ u[i] \in ToSet(u)
    <3>1. LogOf(ToSet(u), u) /\ ToSet(u) \subseteq published
      BY <2>2 DEF ViewOf, Canonical
    <3>2. ToSet(u) = {u[i] : i \in 1 .. Len(u)}
      BY <3>1, LogIsSeq
    <3> QED BY <3>1, <3>2, LogOfMore
  <2>5. \A i \in 1 .. Len(u) : u[i].hash # NoCursor /\ u[i].ts # NoTime
    <3>1. \A i \in 1 .. Len(u) : HasRow(u[i])
      BY <2>2, <2>4 DEF RowsIn
    <3> QED BY <2>3, <2>4, <3>1, NoCursorIsNoHash DEF Channel, RowsHaveTimes
  <2>6. GetTimelineDelta(replay, NoCursor).events = VerifyTimelineIdentities(sent)
    <3>1. ShowsOf(u, BuildTimelineRows(replay, FALSE)) /\ LogOf(published, u)
      BY <2>2, <2>4 DEF sent
    <3>2. \A i \in 1 .. Len(u) : u[i].hash # NoCursor
      BY <2>5
    <3>3. AnswersFrom(u, replay, NoCursor)
      BY <2>3, <3>1, DeltaOfReplay
    <3> QED BY <3>2, <3>3 DEF AnswersFrom, sent
  <2>7. GetTimeline(replay) = VerifyTimelineIdentities(listed)
    BY DEF GetTimeline, listed
  <2> QED BY <2>2, <2>5, <2>6, <2>7, SameRows
<1> QED BY <1>1, Inductive, FilesHaveFiles, PTL

\* Who asks for the rows after the last one it has is neither sent back to the
\* start nor sent a row again (fileService.ts getTimelineDelta), whatever has
\* arrived in between: the earlier timeline and the later one are views of one
\* channel and so have their common entries in one order.
THEOREM DeltasContinue == Spec => []DeltaContinues
<1>1. IInv /\ FilesOnFiles(published) => DeltaContinues
  <2> SUFFICES ASSUME IInv, FilesOnFiles(published), ParentsArrivedFirst, RowsHaveTimes,
                      NEW d \in Devices, NEW n \in DOMAIN stored[d],
                      NEW early \in ReplaysAt(d, n), NEW late \in ReplaysAt(d, Len(stored[d])),
                      GetTimelineDelta(early, NoCursor).nextCursor # NoCursor
               PROVE  LET first == GetTimelineDelta(early, NoCursor)
                          more  == GetTimelineDelta(late, first.nextCursor)
                      IN  /\ more.accepted = first.nextCursor
                          /\ EventsOf(first.events) \cap EventsOf(more.events) = {}
    BY DEF DeltaContinues
  <2> DEFINE N == Len(stored[d])
             log == SubSeq(stored[d], 1, N)
             front == SubSeq(stored[d], 1, n)
             first == GetTimelineDelta(early, NoCursor)
             more == GetTimelineDelta(late, first.nextCursor)
  <2>1. Channel(published) /\ LogOf(published, stored[d])
    BY DEF IInv, PublishedInv, DevicesInv, Replica
  <2>2. N \in 0 .. N /\ n \in 0 .. N
    <3>1. N \in Nat /\ DOMAIN stored[d] = 1 .. N
      BY <2>1, LogIsSeq
    <3> QED BY <3>1
  <2>3. PICK u : Timeline(published, front, early, u)
    BY <2>2, TimelineOfDevice
  <2>4. PICK w : Timeline(published, log, late, w)
    BY <2>2, TimelineOfDevice
  <2>5. /\ ViewOf(published, u) /\ ToSet(u) = RowsIn(ToSet(front))
        /\ ShowsOf(u, BuildTimelineRows(early, FALSE))
        /\ ViewOf(published, w) /\ ToSet(w) = RowsIn(ToSet(log))
        /\ ShowsOf(w, BuildTimelineRows(late, FALSE))
    BY <2>3, <2>4 DEF Timeline
  <2>6. ToSet(u) \subseteq ToSet(w)
    <3>1. ToSet(front) \subseteq ToSet(log)
      <4>1. /\ ToSet(front) = {stored[d][j] : j \in 1 .. n}
            /\ ToSet(log) = {stored[d][j] : j \in 1 .. N}
        BY <2>1, <2>2, FrontIsLog
      <4>2. N \in Nat /\ \A j \in 1 .. n : j \in 1 .. N
        BY <2>1, <2>2, LogIsSeq
      <4> QED BY <4>1, <4>2
    <3> QED BY <2>5, <3>1 DEF RowsIn
  <2> HIDE DEF N, log, front
  <2>7. /\ LogOf(published, u) /\ Len(u) \in Nat /\ ToSet(u) = {u[i] : i \in 1 .. Len(u)}
        /\ LogOf(published, w) /\ Len(w) \in Nat /\ ToSet(w) = {w[i] : i \in 1 .. Len(w)}
        /\ \A i, j \in 1 .. Len(w) : w[i] = w[j] => i = j
        /\ ToSet(u) \subseteq published /\ ToSet(w) \subseteq published
    BY <2>5, LogIsSeq, LogOfMore DEF ViewOf, Canonical
  <2>8. /\ first.nextCursor = IF Len(u) = 0 THEN NoCursor ELSE u[Len(u)].hash
        /\ EventsOf(first.events) = HashesAfter(u, 0)
    <3>1. \A i \in 1 .. Len(u) : u[i].hash # NoCursor
      BY <2>1, <2>7, NoCursorIsNoHash DEF Channel
    <3>2. LogOf(published, u) /\ ShowsOf(u, BuildTimelineRows(early, FALSE))
      BY <2>5, <2>7
    <3>3. AnswersFrom(u, early, NoCursor)
      BY <2>1, <3>2, DeltaOfReplay
    <3> QED BY <3>1, <3>3 DEF AnswersFrom
  <2>10. Len(u) # 0 /\ Len(u) \in 1 .. Len(u)
    BY <2>7, <2>8
  <2>11. PICK c \in 1 .. Len(w) : w[c] = u[Len(u)]
    BY <2>6, <2>7, <2>10
  <2>12. /\ more.accepted = first.nextCursor
         /\ EventsOf(more.events) = HashesAfter(w, c)
    <3>1. w[c].hash = first.nextCursor
      BY <2>8, <2>10, <2>11
    <3>2. LogOf(published, w) /\ ShowsOf(w, BuildTimelineRows(late, FALSE))
      BY <2>5, <2>7
    <3>3. AnswersFrom(w, late, first.nextCursor)
      BY <2>1, <3>2, DeltaOfReplay
    <3> QED BY <3>1, <3>3 DEF AnswersFrom
  <2> HIDE DEF first, more
  <2>13. ASSUME NEW a \in 1 .. Len(u), NEW i \in c + 1 .. Len(w), u[a].hash = w[i].hash
         PROVE  FALSE
    <3>1. i \in 1 .. Len(w) /\ c < i /\ ~ (i < c)
      BY <2>7
    <3>2. u[a] = w[i]
      BY <2>1, <2>7, <2>13, <3>1 DEF Channel
    <3>3. a # Len(u)
      BY <2>7, <2>11, <3>1, <3>2
    <3>4. a < Len(u)
      BY <2>7, <3>3
    <3> QED BY <2>1, <2>5, <2>10, <2>11, <3>1, <3>2, <3>4, ViewsAgree
  <2>14. EventsOf(first.events) \cap EventsOf(more.events) = {}
    BY <2>8, <2>12, <2>13 DEF HashesAfter
  <2> QED BY <2>12, <2>14 DEF first, more
<1> QED BY <1>1, Inductive, FilesHaveFiles, PTL

\* The replays of what a device had have all of it.
LEMMA ReplaysAreFull ==
  ASSUME IInv, ParentsArrivedFirst, NEW d \in Devices, NEW n \in 0 .. Len(stored[d]),
         NEW replay \in ReplaysAt(d, n)
  PROVE  LogOf(published, replay) /\ ToSet(replay) = ToSet(SubSeq(stored[d], 1, n))
<1> DEFINE log == SubSeq(stored[d], 1, n)
<1>1. Channel(published) /\ LogOf(published, log) /\ Arrived(log)
  BY LogOfDevice
<1>2. replay \in {OrderFileKeys(log), OrderEventLogEntries(log)}
  BY DEF ReplaysAt
<1> HIDE DEF log
<1>3. LogOf(published, OrderFileKeys(log)) /\ ToSet(OrderFileKeys(log)) = ToSet(log)
  BY <1>1, FullView
<1>4. LogOf(published, OrderEventLogEntries(log)) /\ ToSet(OrderEventLogEntries(log)) = ToSet(log)
  BY <1>1, EntriesAreLog, EntriesComplete, LogIsSeq, LogOfMore
<1> QED BY <1>2, <1>3, <1>4 DEF log

\* The FILES events of a load are a view of the channel.
LEMMA FilesAreView ==
  ASSUME NEW E, Channel(E), FilesOnFiles(E), NEW log, LogOf(E, log), Arrived(log),
         NEW replay, LogOf(E, replay), ToSet(replay) = ToSet(log)
  PROVE  LET files == Files(OrderEventLogEntries(replay))
         IN  ViewOf(E, files) /\ ToSet(files) = FilesIn(ToSet(log))
<1> DEFINE S == ToSet(log)
           T == FilesIn(S)
           files == Files(OrderEventLogEntries(replay))
<1>1. S \subseteq E /\ T \subseteq S /\ Closed(S)
  BY LogIsSeq, FullView DEF FilesIn
<1>2. Closed(T)
  <2> SUFFICES ASSUME NEW e \in T, ParentOf(e) # NoRef PROVE \E f \in T : f.hash = ParentOf(e)
    BY DEF Closed
  <2>1. PICK f \in S : f.hash = ParentOf(e)
    BY <1>1 DEF Closed
  <2>2. IsFileEventEntry(f)
    BY <1>1, <2>1 DEF FilesOnFiles, FilesIn
  <2> QED BY <2>1, <2>2 DEF FilesIn
<1>3. Greedy(T, ReadyOf(T), files)
  BY FilesInOrder
<1>4. Channel(T)
  BY <1>1, ChannelOfLess
<1> HIDE DEF S, T, files
<1>5. Canonical(T, files)
  BY <1>2, <1>3, <1>4, ReadyIsFree, CanonicalIsGreedy
<1>6. ToSet(files) = T
  BY <1>1, <1>5, ArrivedIsOrdered DEF S
<1>7. ViewOf(E, files)
  BY <1>1, <1>2, <1>5, <1>6 DEF ViewOf
<1> QED BY <1>6, <1>7 DEF files, T, S

\* Who asks for the rows after an event is sent every later event that was
\* written in knowledge of it (fileService.ts getTimelineDelta), whatever the
\* clocks of the writers said and whether or not the other rows have a time.
THEOREM DeltasBringSuccessors == Spec => []DeltaBringsSuccessors
<1>1. IInv /\ WInv /\ FilesOnFiles(published) => DeltaBringsSuccessors
  <2> SUFFICES ASSUME IInv, WInv, FilesOnFiles(published), ParentsArrivedFirst,
                      NEW d \in Devices, NEW replay \in ReplaysAt(d, Len(stored[d])),
                      NEW cursor \in ToSet(Files(stored[d])), NEW e \in ToSet(Files(stored[d])),
                      cursor.hash \in observed[e.hash]
               PROVE  e.hash \in EventsOf(GetTimelineDelta(replay, cursor.hash).events)
    BY DEF DeltaBringsSuccessors
  <2> DEFINE log == stored[d]
             S == ToSet(log)
             again == OrderEventLogEntries(replay)
             files == Files(again)
  <2>1. /\ Channel(published) /\ LogOf(published, log) /\ Arrived(log) /\ WritesHaveViews
    BY ArrivedFirst DEF IInv, WInv, PublishedInv, DevicesInv, Replica
  <2>2. LogOf(published, replay) /\ ToSet(replay) = S
    <3>1. Len(log) \in Nat /\ S = {log[j] : j \in 1 .. Len(log)}
      BY <2>1, LogIsSeq
    <3>2. Len(log) \in 0 .. Len(log)
      BY <3>1
    <3>3. ToSet(SubSeq(log, 1, Len(log))) = S
      BY <2>1, <3>1, <3>2, FrontIsLog
    <3> QED BY <3>2, <3>3, ReplaysAreFull
  <2>3. LogOf(published, again) /\ ToSet(again) \subseteq S
    <3>1. LogOf(S, again)
      BY <2>1, <2>2, EntriesAreLog
    <3> QED BY <2>1, <3>1, LogIsSeq, LogOfMore
  <2>4. cursor \in FilesIn(S) /\ e \in FilesIn(S)
    <3>1. Lists(log, FilesIn(S), Files(log))
      BY <2>1, FilesAreListed
    <3> QED BY <3>1 DEF Lists
  <2> HIDE DEF log, S, again
  <2>5. ViewOf(published, files) /\ ToSet(files) = FilesIn(S)
    BY <2>1, <2>2, FilesAreView DEF S, again
  <2>6. Lists(again, FilesIn(S), files)
    BY <2>3, FilesAreListed
  <2> HIDE DEF files
  <2>7. PICK i, j \in 1 .. Len(files) : i < j /\ files[i] = cursor /\ files[j] = e
    <3>1. IsFileEventEntry(e)
      BY <2>4 DEF FilesIn
    <3> QED BY <2>1, <2>4, <2>5, <3>1, SeenBefore
  <2>8. PICK a, b \in 1 .. Len(again) : a < b /\ again[a] = cursor /\ again[b] = e
    <3>1. cursor \in ToSet(again) /\ e \in ToSet(again)
      BY <2>4, <2>5, <2>6 DEF Lists
    <3>2. PICK a, b \in 1 .. Len(again) : again[a] = cursor /\ again[b] = e
      <4>1. ToSet(again) = {again[k] : k \in 1 .. Len(again)}
        BY <2>3, LogIsSeq
      <4> QED BY <3>1, <4>1
    <3>3. a < b
      BY <2>3, <2>6, <2>7, <3>2, ListsInOrder
    <3> QED BY <3>2, <3>3
  <2>9. PICK u : Lists(again, RowsIn(S), u) /\ ShowsOf(u, BuildTimelineRows(again, TRUE))
    BY <2>3, RowsAreListed
  <2>10. LogOf(published, u) /\ Len(u) \in Nat /\ ToSet(u) = {u[k] : k \in 1 .. Len(u)}
    <3>1. LogOf(ToSet(again) \cap RowsIn(S), u) /\ ToSet(again) \subseteq published
      BY <2>3, <2>9, LogIsSeq DEF Lists
    <3> QED BY <3>1, LogIsSeq, LogOfMore
  <2>11. PICK c, k \in 1 .. Len(u) : c < k /\ u[c] = cursor /\ u[k] = e
    <3>1. cursor \in ToSet(u) /\ e \in ToSet(u)
      <4>1. cursor \in RowsIn(S) /\ e \in RowsIn(S)
        BY <2>4 DEF RowsIn, FilesIn, HasRow, IsFileEventEntry
      <4>2. cursor \in ToSet(again) /\ e \in ToSet(again)
        <5>1. ToSet(again) = {again[i1] : i1 \in 1 .. Len(again)}
          BY <2>3, LogIsSeq
        <5> QED BY <2>8, <5>1
      <4> QED BY <2>9, <4>1, <4>2 DEF Lists
    <3>2. PICK c, k \in 1 .. Len(u) : u[c] = cursor /\ u[k] = e
      BY <2>10, <3>1
    <3>3. c < k
      BY <2>3, <2>8, <2>9, <3>2, ListsInOrder
    <3> QED BY <3>2, <3>3
  <2>12. AnswersFrom(u, replay, cursor.hash)
    <3>1. BuildTimelineRows(replay, FALSE) = BuildTimelineRows(again, TRUE)
      BY DEF BuildTimelineRows, again
    <3> QED BY <2>1, <2>9, <2>10, <3>1, DeltaOfReplay
  <2>13. EventsOf(GetTimelineDelta(replay, cursor.hash).events) = HashesAfter(u, c)
    BY <2>11, <2>12 DEF AnswersFrom
  <2>14. k \in c + 1 .. Len(u)
    BY <2>10, <2>11
  <2> QED BY <2>11, <2>13, <2>14 DEF HashesAfter
<1>2. Spec => []WInv
  BY InitWInv, NextWInv, Inductive, PTL DEF Spec
<1> QED BY <1>1, <1>2, Inductive, FilesHaveFiles, PTL

\* A view of the past ends at the event that was asked for.
LEMMA ViewEndsAtEvent ==
  ASSUME NEW E, Channel(E), NEW log, LogOf(E, log), NEW c \in 1 .. Len(log)
  PROVE  LET view == EntriesThrough(log, Named(log[c]))
         IN  /\ LogOf(E, view) /\ view # <<>> /\ Last(view) = log[c]
             /\ ToSet(view) = {log[j] : j \in 1 .. c}
<1>1. /\ Len(log) \in Nat /\ DOMAIN log = 1 .. Len(log) /\ c \in Nat /\ c # 0
      /\ \A i, j \in 1 .. Len(log) : log[i].hash = log[j].hash => i = j
  <2>1. /\ Len(log) \in Nat /\ log \in Seq(E) /\ DOMAIN log = 1 .. Len(log)
        /\ \A i, j \in 1 .. Len(log) : log[i] = log[j] => i = j
    BY LogIsSeq
  <2>2. \A i \in 1 .. Len(log) : log[i] \in E
    BY <2>1
  <2> QED BY <2>1, <2>2 DEF Channel
<1> DEFINE matches == {i \in DOMAIN log : log[i].hash \in Named(log[c]).hashes}
           front == SubSeq(log, 1, c)
<1>2. matches = {c}
  BY <1>1 DEF Named
<1>3. Cardinality(matches) = 1 /\ matches # {}
  BY <1>2, FS_Singleton
<1>4. Min(matches) = c
  <2> HIDE DEF matches
  <2> QED BY <1>1, <1>2 DEF Min
<1>5. FindEventIndex(log, Named(log[c])) = c
  <2>1. Named(log[c]).by # "number"
    BY DEF Named
  <2> QED BY <1>3, <1>4, <2>1 DEF FindEventIndex
<1>6. EntriesThrough(log, Named(log[c])) = front
  BY <1>1, <1>5 DEF EntriesThrough
<1>7. c \in 0 .. Len(log) /\ c \in 1 .. c
  BY <1>1
<1>8. /\ LogOf(E, front) /\ Len(front) = c /\ \A j \in 1 .. c : front[j] = log[j]
      /\ ToSet(front) = {log[j] : j \in 1 .. c}
  BY <1>7, FrontIsLog
<1>9. DOMAIN front = 1 .. c
  BY <1>8, LogIsSeq
<1> HIDE DEF front
<1>10. front # <<>> /\ Last(front) = log[c]
  BY <1>1, <1>7, <1>8, <1>9 DEF Last
<1> QED BY <1>6, <1>8, <1>10 DEF front

\* A view of the past (fileEmit.ts loadVolumeContextThrough, selecting an
\* event) ends with the event that was asked for, shows everything a FILES
\* event was written on, and when it is asked for again after more has arrived
\* still shows all it had shown.
THEOREM ViewsOfPastOnlyGrow == Spec => []ViewOfPastOnlyGrows
<1>1. IInv /\ WInv => ViewOfPastOnlyGrows
  <2> SUFFICES ASSUME IInv, WInv, ParentsArrivedFirst, NEW d \in Devices, NEW n \in DOMAIN stored[d],
                      NEW e \in ToSet(OrderFileKeys(SubSeq(stored[d], 1, n)))
               PROVE  LET early == OrderFileKeys(SubSeq(stored[d], 1, n))
                          late  == OrderFileKeys(stored[d])
                          shown == EntriesThrough(early, Named(e))
                          again == EntriesThrough(late, Named(e))
                      IN  /\ again # <<>> /\ Last(again) = e
                          /\ ToSet(shown) \subseteq ToSet(again)
                          /\ IsFileEventEntry(e) =>
                               observed[e.hash] \cap HashesOf(stored[d]) \subseteq HashesOf(again)
    BY DEF ViewOfPastOnlyGrows
  <2> DEFINE log == stored[d]
             front == SubSeq(log, 1, n)
             early == OrderFileKeys(front)
             late  == OrderFileKeys(log)
             shown == EntriesThrough(early, Named(e))
             again == EntriesThrough(late, Named(e))
  <2>1. /\ Channel(published) /\ LogOf(published, log) /\ Arrived(log) /\ WritesHaveViews
    BY ArrivedFirst DEF IInv, WInv, PublishedInv, DevicesInv, Replica
  <2>2. n \in 0 .. Len(log)
    <3>1. Len(log) \in Nat /\ DOMAIN log = 1 .. Len(log)
      BY <2>1, LogIsSeq
    <3> QED BY <3>1
  <2>3. LogOf(published, front) /\ Arrived(front) /\ ToSet(front) \subseteq ToSet(log)
    BY <2>2, LogOfDevice
  <2>4. /\ ViewOf(published, early) /\ LogOf(published, early) /\ ToSet(early) = ToSet(front)
        /\ ViewOf(published, late) /\ LogOf(published, late) /\ ToSet(late) = ToSet(log)
    BY <2>1, <2>3, FullView
  <2> HIDE DEF log, front
  <2>5. /\ ToSet(early) = {early[j] : j \in 1 .. Len(early)} /\ Len(early) \in Nat
        /\ ToSet(late) = {late[j] : j \in 1 .. Len(late)} /\ Len(late) \in Nat
        /\ HashesOf(log) = {f.hash : f \in ToSet(log)}
        /\ \A i, j \in 1 .. Len(late) : late[i] = late[j] => i = j
    BY <2>1, <2>4, LogIsSeq, HashesAreOf
  <2> HIDE DEF early, late
  <2>6. PICK c \in 1 .. Len(early) : early[c] = e
    BY <2>5 DEF early, front, log
  <2>7. e \in ToSet(late)
    BY <2>3, <2>4, <2>5, <2>6
  <2>8. PICK k \in 1 .. Len(late) : late[k] = e
    BY <2>5, <2>7
  <2>9. ToSet(shown) = {early[j] : j \in 1 .. c}
    BY <2>1, <2>4, <2>6, ViewEndsAtEvent
  <2>10. /\ LogOf(published, again) /\ again # <<>> /\ Last(again) = e
         /\ ToSet(again) = {late[j] : j \in 1 .. k}
    BY <2>1, <2>4, <2>8, ViewEndsAtEvent
  <2>11. /\ again # <<>> /\ Last(again) = e
         /\ ToSet(again) = {late[j] : j \in 1 .. k}
         /\ HashesOf(again) = {f.hash : f \in ToSet(again)}
    BY <2>10, HashesAreOf
  <2> HIDE DEF shown, again
  <2>12. ASSUME NEW a \in 1 .. c PROVE early[a] \in ToSet(again)
    <3>1. a \in 1 .. Len(early) /\ (a = c \/ a < c)
      BY <2>5
    <3>2. PICK b \in 1 .. Len(late) : late[b] = early[a]
      BY <2>3, <2>4, <2>5, <3>1
    <3>3. CASE a = c
      BY <2>5, <2>6, <2>8, <2>11, <3>2, <3>3
    <3>4. CASE a < c
      <4>1. b < k
        BY <2>1, <2>4, <2>6, <2>8, <3>1, <3>2, <3>4, ViewsAgree
      <4>2. b \in 1 .. k
        BY <2>5, <4>1
      <4> QED BY <2>11, <3>2, <4>2
    <3> QED BY <3>1, <3>3, <3>4
  <2>13. ASSUME IsFileEventEntry(e), NEW h \in observed[e.hash] \cap HashesOf(log)
         PROVE  h \in HashesOf(again)
    <3>1. PICK f \in ToSet(late) : f.hash = h
      BY <2>4, <2>5
    <3>2. PICK i, j \in 1 .. Len(late) : i < j /\ late[i] = f /\ late[j] = e
      BY <2>1, <2>4, <2>7, <2>13, <3>1, SeenBefore
    <3>3. i \in 1 .. k
      BY <2>5, <2>8, <3>2
    <3> QED BY <2>11, <3>1, <3>2, <3>3
  <2>14. ToSet(shown) \subseteq ToSet(again)
    BY <2>9, <2>12
  <2> QED BY <2>11, <2>13, <2>14 DEF shown, again, early, late, front, log
<1>2. Spec => []WInv
  BY InitWInv, NextWInv, Inductive, PTL DEF Spec
<1> QED BY <1>1, <1>2, Inductive, PTL

=============================================================================
