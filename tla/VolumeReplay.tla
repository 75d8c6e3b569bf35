---------------------------- MODULE VolumeReplay ----------------------------
(***************************************************************************)
(* A log growing by one event at a time and two replays of it.  `volume`   *)
(* is what materialize makes of the whole log; `cached` is what a cache    *)
(* that extends a snapshot with materializeIncremental holds, and may      *)
(* start from its snapshot again before any event (Resume).  The verbs of  *)
(* the log are the actions.  The events come from EventPaths.              *)
(***************************************************************************)
EXTENDS FileMaterializer

CONSTANTS
  EventPaths,        \* the paths events are about
  MaxEvents,         \* bound: events in the log
  FileOntoAncestor   \* may a log rename a live file onto a directory it is in?

ASSUME EventPathsArePaths == EventPaths \subseteq Paths
ASSUME MaxEventsIsNat == MaxEvents \in Nat
ASSUME FileOntoAncestorIsBoolean == FileOntoAncestor \in BOOLEAN

VARIABLES
  log,      \* the events, in replay order; an event's tiebreak is its place
  volume, rows,          \* the log replayed from the empty volume
  cached, cachedRows     \* the log replayed on snapshots of itself

vars == <<log, volume, rows, cached, cachedRows>>

Init ==
  /\ log = <<>>
  /\ volume = EmptyVolume
  /\ rows = NoRows
  /\ cached = EmptyVolume
  /\ cachedRows = NoRows

Replay(event) ==
  /\ Len(log) < MaxEvents
  /\ log' = Append(log, event)
  /\ volume' = Apply(volume, Len(log) + 1, event)
  /\ rows' = Record(rows, volume, Len(log) + 1, event)
  /\ cached' = Apply(cached, Len(log) + 1, event)
  /\ cachedRows' = Record(cachedRows, cached, Len(log) + 1, event)

CreateFile(path, blob) ==
  Replay([kind |-> "CREATE_FILE", path |-> path, blob |-> blob])

Mkdir(path) == Replay([kind |-> "MKDIR", path |-> path])

Delete(path) == Replay([kind |-> "DELETE", path |-> path])

Rename(from, to) ==
  /\ \/ FileOntoAncestor
     \/ from \notin DOMAIN volume.files
     \/ ~IsStrictDescendant(from, to)
  /\ Replay([kind |-> "RENAME", path |-> from, to |-> to])

OtherVerb(verb) == Replay([kind |-> "OTHER", verb |-> verb])

Resume ==
  /\ cached' = ResumeFrom(cached)
  /\ cachedRows' = ResumeRows(cachedRows)
  /\ UNCHANGED <<log, volume, rows>>

Next ==
  \/ \E path \in EventPaths :
       \/ \E blob \in Blobs : CreateFile(path, blob)
       \/ Mkdir(path)
       \/ Delete(path)
       \/ \E to \in EventPaths : Rename(path, to)
  \/ \E verb \in NonFileVerbs \cup UnknownVerbs : OtherVerb(verb)
  \/ Resume

Spec == Init /\ [][Next]_vars

-----------------------------------------------------------------------------
(* Properties *)

MapsInto(map, keys, values) ==
  /\ DOMAIN map \subseteq keys
  /\ map \in [DOMAIN map -> values]

IsVolume(vol) ==
  /\ vol \in [files : {vol.files}, dirs : {vol.dirs},
              fileOrigins : {vol.fileOrigins}, entryHeads : {vol.entryHeads}]
  /\ MapsInto(vol.files, Paths, [path : Paths, blob : Blobs])
  /\ MapsInto(vol.dirs, Paths, [explicit : BOOLEAN, fileCount : Nat])
  /\ MapsInto(vol.fileOrigins, Paths, DOMAIN log)
  /\ MapsInto(vol.entryHeads, Paths, DOMAIN log)

Rows ==
  [shadows : Seq([tiebreak : DOMAIN log,
                  reject : {"source-missing", "rename-into-self", "unknown"}]),
   warned : SUBSET UnknownVerbs]

\* The shape of the state: every live file has content from the log, and no
\* count is ever below zero.
TypeOK ==
  /\ log \in Seq(Events)
  /\ IsVolume(volume)
  /\ rows \in Rows
  /\ IsVolume(cached)
  /\ cachedRows \in Rows

FilesBelow(vol, dir) == {p \in DOMAIN vol.files : IsStrictDescendant(p, dir)}

\* "fileCount is the number of live files in the subtree rooted here": the
\* counts that create, remove and move keep up by hand, with one decrement or
\* increment per ancestor and two early exits, do not drift from the files in
\* a log that renames no file onto a directory it is in (FileOntoAncestor).
FileCountExact ==
  \A d \in DOMAIN volume.dirs :
    volume.dirs[d].fileCount = Cardinality(FilesBelow(volume, d))

\* A directory with a live file in it is never dropped from the tree, however
\* the file came there: a listing that walks the directories finds every file.
FileAncestorsLive ==
  \A p \in DOMAIN volume.files : AncestorPaths(p) \subseteq DOMAIN volume.dirs

\* fileOrigins names, for each live file and for nothing else, the CREATE_FILE
\* whose content the path now holds, through overwrites and moves of the file
\* or of a directory it is in: the key taken from that event opens the blob.
OriginsExact ==
  /\ DOMAIN volume.fileOrigins = DOMAIN volume.files
  /\ \A p \in DOMAIN volume.files :
       LET origin == log[volume.fileOrigins[p]]
       IN  /\ origin.kind = "CREATE_FILE"
           /\ origin.blob = volume.files[p].blob

\* No event leaves the same written content live at two paths: a rename
\* neither copies a file nor merges two into one entry.
OriginsUnique ==
  \A p, q \in DOMAIN volume.fileOrigins :
    volume.fileOrigins[p] = volume.fileOrigins[q] => p = q

\* A live file's metadata names the path it is filed under; the move of a
\* directory computes the new place of a file from that field.
MetadataNamesPath ==
  \A p \in DOMAIN volume.files : volume.files[p].path = p

\* No live file lies below another one, whichever of the two came last and
\* whether it was created or moved there.
NoFileUnderFile ==
  \A p, q \in DOMAIN volume.files : ~IsStrictDescendant(p, q)

\* A cache that replays event by event on its own snapshots ends up with the
\* maps of a replay of the whole log, the counts it has to rebuild included.
IncrementalEqualsFull == cached = volume

\* A rejected rename leaves no partial effect: whenever an event is recorded
\* as a shadow, no live entry and no head has changed.
RejectedHasNoEffect ==
  [][rows'.shadows # rows.shadows => volume' = volume]_vars

-----------------------------------------------------------------------------
(* The origins and the file tree *)

Tree == INSTANCE FileTree WITH
          tree <- volume.fileOrigins,
          Places <- EventPaths,
          Contents <- 1 .. MaxEvents

IsLive(vol, path) == path \in DOMAIN vol.files \cup DOMAIN vol.dirs

\* What an event promises to do to the tree.
KeepsPromise(event, id) ==
  \/ event.kind = "CREATE_FILE" /\ Tree!Write(event.path, id)
  \/ event.kind = "MKDIR" /\ Tree!MakeDir(event.path)
  \/ event.kind = "DELETE" /\ Tree!Remove(event.path)
  \/ /\ event.kind = "RENAME"
     /\ IF \/ event.path = event.to
           \/ ~IsLive(volume, event.path)
           \/ /\ event.path \notin DOMAIN volume.files
              /\ IsStrictDescendant(event.to, event.path)
        THEN UNCHANGED volume.fileOrigins
        ELSE Tree!Move(event.path, event.to)
  \/ event.kind = "OTHER" /\ UNCHANGED volume.fileOrigins

\* The two events that do not: an MKDIR on a directory with files in it
\* (MkdirPromotes), and a RENAME of one onto a directory it is in, which
\* applyRename removes with the source before it looks for what to move.
BreaksPromise(event) ==
  \/ event.kind = "MKDIR" /\ FilesBelow(volume, event.path) # {}
  \/ /\ event.kind = "RENAME"
     /\ IsStrictDescendant(event.path, event.to)
     /\ FilesBelow(volume, event.path) # {}

\* With all its bookkeeping of counts, implicit directories and rejections,
\* the materializer does to the contents of a volume what fileEvents.ts and
\* file-events v0.5 promise of each event: latest wins, whole subtrees move
\* and go, and nothing else is touched, also after an event that broke its
\* promise.  Those two kinds of events are excepted, and nothing else.
ImplementsFileTree ==
  /\ Tree!Init
  /\ [][IF log' = log THEN UNCHANGED volume.fileOrigins
        ELSE LET event == log'[Len(log')]
             IN  BreaksPromise(event) \/ KeepsPromise(event, Len(log'))]_vars

-----------------------------------------------------------------------------
(* What the comments say and the code does not do *)

\* fileOrigins has an entry for each live file and the entry survives RENAME.
LiveFilesHaveOrigins == DOMAIN volume.files \subseteq DOMAIN volume.fileOrigins

\* An MKDIR on an implicit directory promotes it: the files in it stay.
MkdirPromotes ==
  [][Len(log') > Len(log) /\ log'[Len(log')].kind = "MKDIR" =>
       LET dir == log'[Len(log')].path
       IN  dir \in DOMAIN volume.dirs /\ ~volume.dirs[dir].explicit =>
             FilesBelow(volume, dir) \subseteq DOMAIN volume'.files]_vars

=============================================================================
