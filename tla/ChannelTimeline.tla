--------------------------- MODULE ChannelTimeline ---------------------------
(***************************************************************************)
(* What a reader of the timeline is told while the channel of              *)
(* ChannelReplay grows.  A reader asks at any time; the log it is answered *)
(* from is the replay of what had arrived by then.                         *)
(***************************************************************************)
EXTENDS ChannelReplay, Timeline

\* The replays of what device d had stored after its first n events: that of
\* its projection, and that of a load.
ReplaysAt(d, n) ==
  LET log == SubSeq(stored[d], 1, n)
  IN  {OrderFileKeys(log), OrderEventLogEntries(log)}

\* The selection of an event by its hash.
Named(entry) == [by |-> "hash", hashes |-> {entry.hash}]

EventsOf(rows) == {rows[i].hash : i \in DOMAIN rows}

\* So far every event that has a row says when it was published.  A chat message
\* or a declared identity may leave it out: it is put where its place in the
\* input, taken for a time, puts it, and that changes with what arrives.
RowsHaveTimes == \A e \in published : HasRow(e) => e.ts # NoTime

-----------------------------------------------------------------------------
(* Properties *)

\* Who asks for the rows after the last one it has is never sent back to the
\* start, and is never sent a row again, whatever arrived in between and
\* wherever it was put: a late event moves no earlier row past the cursor (an
\* event without a time may be moved, RowsHaveTimes).
DeltaContinues ==
  ParentsArrivedFirst /\ RowsHaveTimes =>
    \A d \in Devices : \A n \in DOMAIN stored[d] :
      \A early \in ReplaysAt(d, n), late \in ReplaysAt(d, Len(stored[d])) :
        LET first == GetTimelineDelta(early, NoCursor)
            more  == GetTimelineDelta(late, first.nextCursor)
        IN  first.nextCursor # NoCursor =>
              /\ more.accepted = first.nextCursor
              /\ EventsOf(first.events) \cap EventsOf(more.events) = {}

\* Who asks for the rows after an event is sent every later event that was
\* written in knowledge of it, whatever the clocks of the writers said; a
\* concurrent one may have been put before the cursor and is not sent.
DeltaBringsSuccessors ==
  ParentsArrivedFirst =>
    \A d \in Devices : \A replay \in ReplaysAt(d, Len(stored[d])) :
      \A cursor, e \in ToSet(Files(stored[d])) :
        cursor.hash \in observed[e.hash] =>
          e.hash \in EventsOf(GetTimelineDelta(replay, cursor.hash).events)

\* A listing and the deltas of a timeline show of an event the same: its time,
\* whether its record could be read, and a name only when it is authentic.  (The
\* time of an event without one is its place, which the delta's second sort
\* changes.)
ListingAndDeltaAgree ==
  ParentsArrivedFirst /\ RowsHaveTimes =>
    \A d \in Devices : \A replay \in ReplaysAt(d, Len(stored[d])) :
      ToSet(GetTimeline(replay)) = ToSet(GetTimelineDelta(replay, NoCursor).events)

\* A view of the past ends with the event that was asked for and shows
\* everything a FILES event was written on; when it is asked for again after more
\* has arrived, it still shows all it had shown.
ViewOfPastOnlyGrows ==
  ParentsArrivedFirst =>
    \A d \in Devices : \A n \in DOMAIN stored[d] :
      LET early == OrderFileKeys(SubSeq(stored[d], 1, n))
          late  == OrderFileKeys(stored[d])
      IN  \A e \in ToSet(early) :
            LET shown == EntriesThrough(early, Named(e))
                again == EntriesThrough(late, Named(e))
            IN  /\ again # <<>> /\ Last(again) = e
                /\ ToSet(shown) \subseteq ToSet(again)
                /\ IsFileEventEntry(e) =>
                     observed[e.hash] \cap HashesOf(stored[d]) \subseteq HashesOf(again)

=============================================================================
