---------------------------- MODULE ReplayOrder ----------------------------
(***************************************************************************)
(* The canonical replay order (fileLogEntries.ts) and the way the          *)
(* projector merges new events into it (filesProjector.ts).  A log entry   *)
(* is a record [hash, verb, ref, ts]:                                      *)
(*   hash  the event hash; hashes are compared, so they are numbers, in an *)
(*         order that has nothing to do with the order of creation         *)
(*   verb  a FILES verb, or one of another application                     *)
(*   ref   the first visible block ref: a hash, OwnContent (the content a  *)
(*         CREATE_FILE introduces itself) or NoRef                         *)
(*   ts    the time the payload carries, NoTime if it carries none         *)
(* A log is the sequence of its entries in the order they arrived in.      *)
(***************************************************************************)
EXTENDS Integers, SequencesExt

CONSTANTS NoRef, OwnContent, NoTime

ASSUME MarksNotNumbers == NoRef \notin Nat /\ OwnContent \notin Nat /\ NoTime \notin Nat

FileVerbs == {"CREATE_FILE", "MKDIR", "DELETE", "RENAME"}

IsFileEventEntry(entry) == entry.verb \in FileVerbs

HashesOf(log) == {log[i].hash : i \in DOMAIN log}

\* blockRefs[0] of a FILES event.
ObservedLogHeadRef(entry) == IF IsFileEventEntry(entry) THEN entry.ref ELSE NoRef

IsPayloadDeclaredContentRef(entry) ==
  entry.verb = "CREATE_FILE" /\ entry.ref = OwnContent

ExtractTimestamp(entry, fallback) ==
  IF entry.ts = NoTime THEN fallback ELSE entry.ts

\* The observed-log-head parent of an order key.
ParentOf(entry) ==
  IF IsPayloadDeclaredContentRef(entry) THEN NoRef ELSE ObservedLogHeadRef(entry)

-----------------------------------------------------------------------------
(* Both orders are Kahn's sort: of the entries nothing holds back any more, *)
(* the least by (time, hash, place in the input) is next.  What they hold   *)
(* back differs, and the time they give an entry without one.               *)

\* Mutant: entries of the same time stay in the order of the input.
PrecedesByPlace(log, time, i, j) ==
  time[i] < time[j] \/ (time[i] = time[j] /\ i < j)

Precedes(log, time, i, j) ==
  \/ time[i] < time[j]
  \/ time[i] = time[j] /\ log[i].hash < log[j].hash
  \/ time[i] = time[j] /\ log[i].hash = log[j].hash /\ i < j

\* The entry that is next, by its place.
NextOf(log, time, open) ==
  CHOOSE i \in open : \A j \in open \ {i} : Precedes(log, time, i, j)

\* n |-> the places of the first n entries emitted, or of all when no more can
\* be; open[emitted] are the entries that may follow when those are emitted.
Emission(log, time, open) ==
  LET emit[n \in 0 .. Len(log)] ==
        IF n = 0 THEN <<>>
        ELSE LET before == emit[n - 1]
                 next   == open[ToSet(before)]
             IN  IF next = {} THEN before ELSE Append(before, NextOf(log, time, next))
  IN  emit

KahnOrder(log, time, open) ==
  LET order == Emission(log, time, open)[Len(log)]
  IN  [n \in DOMAIN order |-> log[order[n]]]

\* Order of the projector's keys: a parent that is not there holds nothing
\* back (materialize on arrival).
OrderFileKeys(log) ==
  KahnOrder(log, [i \in DOMAIN log |-> ExtractTimestamp(log[i], 0)],
    [emitted \in SUBSET DOMAIN log |->
       {i \in DOMAIN log \ emitted :
          \A j \in DOMAIN log \ emitted : log[j].hash # ParentOf(log[i])}])

\* Mutant: a CREATE_FILE that begins with its own content waits for it too.
OrderWithContentAsParent(log) ==
  KahnOrder(log, [i \in DOMAIN log |-> ExtractTimestamp(log[i], i - 1)],
    [emitted \in SUBSET DOMAIN log |->
       {i \in DOMAIN log \ emitted :
          \/ ObservedLogHeadRef(log[i]) = NoRef
          \/ \E j \in emitted : log[j].hash = ObservedLogHeadRef(log[i])}])

\* Order of whole entries: a first ref that names neither an entry nor the
\* event's own content is never emitted, and so holds the event back for good.
OrderEventLogEntries(log) ==
  KahnOrder(log, [i \in DOMAIN log |-> ExtractTimestamp(log[i], i - 1)],
    [emitted \in SUBSET DOMAIN log |->
       {i \in DOMAIN log \ emitted :
          \/ ObservedLogHeadRef(log[i]) = NoRef
          \/ \E j \in emitted : log[j].hash = ObservedLogHeadRef(log[i])
          \/ /\ IsPayloadDeclaredContentRef(log[i])
             /\ ObservedLogHeadRef(log[i]) \notin HashesOf(log)}])

\* Mutant: the scan for the head starts at the wrong end.
ObservedLogHeadFromFront(ordered) ==
  LET places == {i \in DOMAIN ordered : IsFileEventEntry(ordered[i])}
  IN  IF places = {} THEN NoRef ELSE ordered[Min(places)].hash

\* The last FILES event of an ordered log: what the next write observes.
ObservedLogHeadFromOrdered(ordered) ==
  LET places == {i \in DOMAIN ordered : IsFileEventEntry(ordered[i])}
  IN  IF places = {} THEN NoRef ELSE ordered[Max(places)].hash

\* Mutant: the head of the context is not written into the event.
FirstRefWithoutHead(verb, ordered) == IF verb = "CREATE_FILE" THEN OwnContent ELSE NoRef

\* blockRefs[0] of an event written on a replayed log: its head; the first
\* FILES event of a channel has none, and then a CREATE_FILE begins with its
\* own content.
FirstRef(verb, ordered) ==
  LET head == ObservedLogHeadFromOrdered(ordered)
  IN  IF verb \notin FileVerbs THEN NoRef
      ELSE IF head # NoRef THEN head
      ELSE IF verb = "CREATE_FILE" THEN OwnContent ELSE NoRef

LatestTime(ordered) == Max({0} \cup {ordered[i].ts : i \in DOMAIN ordered})

\* A time later than all that is in a log.
TimeAfter(now, ordered) == Max({now, LatestTime(ordered) + 1})

\* A rename is later than all it has seen, other events carry the clock.
EventTime(verb, now, ordered) ==
  IF verb = "RENAME" THEN TimeAfter(now, ordered) ELSE now

\* The FILES events of a log, in its order.
Files(log) ==
  LET files[n \in 0 .. Len(log)] ==
        IF n = 0 THEN <<>>
        ELSE IF IsFileEventEntry(log[n]) THEN Append(files[n - 1], log[n]) ELSE files[n - 1]
  IN  files[Len(log)]

FileHashes(log) == {e.hash : e \in {f \in ToSet(log) : IsFileEventEntry(f)}}

Before(log, g, h) ==
  \E i, j \in DOMAIN log : i < j /\ log[i].hash = g /\ log[j].hash = h

-----------------------------------------------------------------------------
(* Merging *)

HasOrderedPrefix(previous, next) == IsPrefix(previous, next)

\* Mutant: known entries are not left out.
UnknownAndKnown(log, more) == more

\* The entries of `more` that `log` does not have, in their order.
Unknown(log, more) ==
  LET known == HashesOf(log)
      new[n \in 0 .. Len(more)] ==
        IF n = 0 THEN <<>>
        ELSE IF more[n].hash \in known THEN new[n - 1] ELSE Append(new[n - 1], more[n])
  IN  new[Len(more)]

\* Mutant: the first entry that moved is kept.
ReorderPastMoved(prev, next) ==
  LET merged == OrderFileKeys(prev \o Unknown(prev, next))
      moved == {i \in DOMAIN merged : i > Len(prev) \/ merged[i].hash # prev[i].hash}
  IN  [keys |-> merged,
       insertAt |-> IF moved = {} THEN Len(merged) ELSE Min({Min(moved), Len(prev)})]

\* The projector's reorder: the merged order, and how many entries at its
\* front are the old ones, so that their replay can be kept.
Reorder(prev, next) ==
  LET merged == OrderFileKeys(prev \o Unknown(prev, next))
      moved == {i \in DOMAIN merged : i > Len(prev) \/ merged[i].hash # prev[i].hash}
  IN  [keys |-> merged,
       insertAt |-> IF moved = {} THEN Len(merged) ELSE Min(moved) - 1]

\* Mutant: new entries are put in order among themselves and go to the end.
LoadAtEnd(seed, log) == seed \o OrderEventLogEntries(Unknown(seed, log))

\* loadChannelEntries: entries the seed has are reused while the order only
\* grows at its end, otherwise everything is read again.
LoadChannelEntries(seed, log) ==
  LET new == Unknown(seed, log)
      merged == OrderEventLogEntries(seed \o new)
  IN  IF new = <<>> THEN seed
      ELSE IF HasOrderedPrefix(seed, merged) THEN merged
      ELSE OrderEventLogEntries(log)

=============================================================================
