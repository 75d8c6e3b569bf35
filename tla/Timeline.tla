------------------------------ MODULE Timeline ------------------------------
(***************************************************************************)
(* The timeline of a channel (fileService.ts) and the selection of an      *)
(* event in it (fileEmit.ts), as operators over a replayed log.  A row is  *)
(* what a caller is shown of an entry; what is only copied from the        *)
(* payload is left out, and so is the mark of a rejected event, which is   *)
(* VolumeReplay's subject.                                                 *)
(***************************************************************************)
EXTENDS ReplayOrder

CONSTANTS
  Garbled,    \* hashes of the identity events whose record does not parse
  Forged,     \* hashes of those whose record the profile key did not sign
  NoCursor    \* no event: a cursor that is null, missing or blank

ASSUME NoCursorIsNoHash == NoCursor \notin Nat

\* Events of other applications; the last four are application records, told
\* apart by the protocol of their record.
IdentityVerbs == {"DECLARE_IDENTITY", "IDENTITY_RECORD", "IDENTITY_SNAPSHOT"}
RecordVerbs == {"IDENTITY_RECORD", "IDENTITY_SNAPSHOT", "CHAT_RECORD", "OTHER_RECORD"}

\* An application record that does not say when it was published has no row.
HasRow(entry) ==
  \/ entry.verb \in FileVerbs \cup {"DECLARE_IDENTITY", "CHAT_MESSAGE"}
  \/ entry.verb \in RecordVerbs /\ entry.ts # NoTime

\* The row of the entry that has `sequence` entries before it; it carries the
\* record, and shows the name in it, if the record parses.
RowOf(entry, sequence) ==
  LET parsed == entry.verb \in IdentityVerbs /\ entry.hash \notin Garbled
  IN  [hash |-> entry.hash, type |-> entry.verb,
       timestamp |-> ExtractTimestamp(entry, sequence),
       record |-> parsed, named |-> parsed, verified |-> FALSE]

BuildTimelineRows(entries, alreadyOrdered) ==
  LET ordered == IF alreadyOrdered THEN entries ELSE OrderEventLogEntries(entries)
      rows[n \in 0 .. Len(ordered)] ==
        IF n = 0 THEN <<>>
        ELSE IF HasRow(ordered[n]) THEN Append(rows[n - 1], RowOf(ordered[n], n - 1))
        ELSE rows[n - 1]
  IN  rows[Len(ordered)]

\* A name stays only if the record was signed by the profile it names.
VerifyTimelineIdentities(rows) ==
  [i \in DOMAIN rows |->
     IF rows[i].record
     THEN [rows[i] EXCEPT !.verified = rows[i].hash \notin Forged,
                          !.named = rows[i].hash \notin Forged]
     ELSE rows[i]]

GetTimeline(entries) == VerifyTimelineIdentities(BuildTimelineRows(entries, TRUE))

\* Mutant: a delta is not verified, its caller has the names already.
DeltaRowsUnverified(entries) == BuildTimelineRows(entries, FALSE)

\* A delta puts the entries in order again before it selects among them.
DeltaRows(entries) == VerifyTimelineIdentities(BuildTimelineRows(entries, FALSE))

\* Mutant: the cursor is taken for the place to start at.
DeltaFromCursor(rows, cursor) ==
  LET places == {i \in DOMAIN rows : rows[i].hash = cursor}
      reset  == places = {}
  IN  [accepted |-> IF reset THEN NoCursor ELSE cursor,
       nextCursor |-> IF rows = <<>> THEN NoCursor ELSE Last(rows).hash,
       reset |-> reset,
       events |-> IF reset THEN rows ELSE SubSeq(rows, Min(places), Len(rows))]

\* The rows after the cursor; all of them when there is none, or none of that hash.
DeltaAfter(rows, cursor) ==
  LET places == {i \in DOMAIN rows : rows[i].hash = cursor}
      reset  == places = {}
  IN  [accepted |-> IF reset THEN NoCursor ELSE cursor,
       nextCursor |-> IF rows = <<>> THEN NoCursor ELSE Last(rows).hash,
       reset |-> reset,
       events |-> IF reset THEN rows ELSE SubSeq(rows, Min(places) + 1, Len(rows))]

GetTimelineDelta(entries, cursor) == DeltaAfter(DeltaRows(entries), cursor)

-----------------------------------------------------------------------------
(* Views of the past *)

NotFound == -1
Ambiguous == -2

\* Where in a log the selected event is.  A selector is a number counted from
\* 1, or the first part of a hash: then `hashes` are those that begin with it.
FindEventIndex(entries, selector) ==
  LET matches == IF selector.by = "number" THEN {selector.number} \cap DOMAIN entries
                 ELSE {i \in DOMAIN entries : entries[i].hash \in selector.hashes}
  IN  CASE matches = {} -> NotFound
        [] Cardinality(matches) = 1 -> Min(matches)
        [] OTHER -> Ambiguous

\* Mutant: the view ends before the event it was asked for.
EntriesBefore(entries, selector) ==
  LET place == FindEventIndex(entries, selector)
  IN  IF place < 0 THEN <<>> ELSE SubSeq(entries, 1, place - 1)

\* The log up to and with the selected event; nothing if the call fails.
EntriesThrough(entries, selector) ==
  LET place == FindEventIndex(entries, selector)
  IN  IF place < 0 THEN <<>> ELSE SubSeq(entries, 1, place)

=============================================================================
