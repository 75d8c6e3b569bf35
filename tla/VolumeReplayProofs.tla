------------------------- MODULE VolumeReplayProofs -------------------------
(***************************************************************************)
(* What a replay keeps true, for all paths, contents and logs, as long as  *)
(* no live file is renamed onto a directory it is in.  The invariant is    *)
(* that the volume is sound for the contents the log has written so far    *)
(* and that the replay on snapshots is at the same volume.  Then that the  *)
(* replay implements the file tree.                                        *)
(***************************************************************************)
EXTENDS VolumeReplay, FileMaterializerProofs

\* The events that write content, with what they write.
Written(events) ==
  {<<i, events[i].blob>> : i \in {i \in DOMAIN events : events[i].kind = "CREATE_FILE"}}

-----------------------------------------------------------------------------
(* Growing the log *)

LEMMA AppendWritten ==
  ASSUME NEW events \in Seq(Events), NEW event \in Events
  PROVE  LET longer == Append(events, event)
         IN  /\ longer \in Seq(Events)
             /\ DOMAIN events \subseteq DOMAIN longer
             /\ Len(events) + 1 \in DOMAIN longer
             /\ Written(events) \subseteq Written(longer)
             /\ event.kind = "CREATE_FILE"
                  => <<Len(events) + 1, event.blob>> \in Written(longer)
             /\ \A w \in Written(events) : w[1] # Len(events) + 1
<1> DEFINE longer == Append(events, event)
<1>1. /\ longer \in Seq(Events) /\ Len(events) \in Nat
      /\ DOMAIN events = 1 .. Len(events) /\ DOMAIN longer = 1 .. Len(events) + 1
      /\ \A i \in DOMAIN events : longer[i] = events[i]
      /\ longer[Len(events) + 1] = event
  OBVIOUS
<1> HIDE DEF longer
<1>2. Written(events) \subseteq Written(longer)
  BY <1>1 DEF Written
<1>3. event.kind = "CREATE_FILE" => <<Len(events) + 1, event.blob>> \in Written(longer)
  BY <1>1 DEF Written
<1>4. \A w \in Written(events) : w[1] # Len(events) + 1
  BY <1>1 DEF Written
<1> QED
  BY <1>1, <1>2, <1>3, <1>4 DEF longer

LEMMA HeadsInto ==
  ASSUME NEW v, NEW vol, NEW paths \in SUBSET Paths, NEW ids, NEW more, NEW id \in more,
         ids \subseteq more, MapsInto(vol.entryHeads, Paths, ids),
         v = vol \/ Heads(v, vol, paths, id)
  PROVE  MapsInto(v.entryHeads, Paths, more)
<1>1. CASE v = vol
  BY <1>1 DEF MapsInto
<1>2. CASE Heads(v, vol, paths, id)
  BY <1>2 DEF Heads, PutAll, MapsInto
<1> QED
  BY <1>1, <1>2

\* What is left to show of an event once its operator is known to be sound.
LEMMA Settled ==
  ASSUME NEW vol, NEW v, NEW events \in Seq(Events), NEW event \in Events,
         NEW written, Sound(v, written), written \subseteq Written(Append(events, event)),
         NEW paths \in SUBSET Paths, v = vol \/ Heads(v, vol, paths, Len(events) + 1),
         MapsInto(vol.entryHeads, Paths, DOMAIN events)
  PROVE  /\ Sound(v, Written(Append(events, event)))
         /\ MapsInto(v.entryHeads, Paths, DOMAIN Append(events, event))
<1> DEFINE longer == Append(events, event)
           id == Len(events) + 1
<1>1. DOMAIN events \subseteq DOMAIN longer /\ id \in DOMAIN longer
  BY AppendWritten
<1>2. Sound(v, Written(longer))
  BY SoundMonotonic
<1> HIDE DEF longer, id
<1>3. v = vol \/ Heads(v, vol, paths, id)
  BY DEF id
<1>4. MapsInto(v.entryHeads, Paths, DOMAIN longer)
  BY <1>1, <1>3, HeadsInto
<1> QED
  BY <1>2, <1>4 DEF longer

\* The replay of one event, its rename guarded as in the specification.
LEMMA ApplySound ==
  ASSUME NEW vol, NEW events \in Seq(Events), NEW event \in Events,
         Sound(vol, Written(events)), MapsInto(vol.entryHeads, Paths, DOMAIN events),
         event.kind = "RENAME" /\ event.path \in DOMAIN vol.files
           => ~IsStrictDescendant(event.path, event.to)
  PROVE  LET v == Apply(vol, Len(events) + 1, event)
             longer == Append(events, event)
         IN  Sound(v, Written(longer)) /\ MapsInto(v.entryHeads, Paths, DOMAIN longer)
<1> DEFINE id == Len(events) + 1
           longer == Append(events, event)
           v == Apply(vol, id, event)
           Done == Sound(v, Written(longer)) /\ MapsInto(v.entryHeads, Paths, DOMAIN longer)
<1> SUFFICES Done
  OBVIOUS
<1>1. /\ Written(events) \subseteq Written(longer)
      /\ event.kind = "CREATE_FILE" => <<id, event.blob>> \in Written(longer)
      /\ \A w \in Written(events) : w[1] # id
  BY AppendWritten
<1>2. ASSUME NEW written, NEW paths \in SUBSET Paths, Sound(v, written),
             written \subseteq Written(longer), v = vol \/ Heads(v, vol, paths, id)
      PROVE  Done
  BY <1>2, Settled
<1> HIDE DEF id, longer, v, Done
<1>3. CASE event.kind = "CREATE_FILE"
  <2>1. event.path \in Paths /\ event.blob \in Blobs /\ v = ApplyCreateFile(vol, id, event.path, event.blob)
    BY <1>3 DEF Events, Apply, v
  <2>2. /\ Sound(v, Written(events) \cup {<<id, event.blob>>})
        /\ Heads(v, vol, {event.path}, id)
    BY <1>1, <2>1, CreateFileSound
  <2>3. Written(events) \cup {<<id, event.blob>>} \subseteq Written(longer)
    BY <1>1, <1>3
  <2>4. {event.path} \in SUBSET Paths
    BY <2>1
  <2> QED
    BY <1>2, <2>2, <2>3, <2>4
<1>4. CASE event.kind = "MKDIR"
  <2>1. event.path \in Paths /\ v = ApplyMkdir(vol, id, event.path)
    BY <1>4 DEF Events, Apply, v
  <2>2. Sound(v, Written(events)) /\ Heads(v, vol, {event.path}, id)
    BY <2>1, MkdirSound
  <2>3. {event.path} \in SUBSET Paths
    BY <2>1
  <2> QED
    BY <1>1, <1>2, <2>2, <2>3
<1>5. CASE event.kind = "DELETE"
  <2>1. event.path \in Paths /\ v = ApplyDelete(vol, id, event.path)
    BY <1>5 DEF Events, Apply, v
  <2>2. Sound(v, Written(events)) /\ Heads(v, vol, {event.path}, id)
    BY <2>1, DeleteSound
  <2>3. {event.path} \in SUBSET Paths
    BY <2>1
  <2> QED
    BY <1>1, <1>2, <2>2, <2>3
<1>6. CASE event.kind = "RENAME"
  <2>1. event.path \in Paths /\ event.to \in Paths /\ v = ApplyRename(vol, id, event.path, event.to)
    BY <1>6 DEF Events, Apply, v
  <2>2. Sound(v, Written(events)) /\ (v = vol \/ Heads(v, vol, {event.path, event.to}, id))
    BY <1>6, <2>1, RenameSound
  <2>3. {event.path, event.to} \in SUBSET Paths
    BY <2>1
  <2> QED
    BY <1>1, <1>2, <2>2, <2>3
<1>7. CASE event.kind = "OTHER"
  <2>1. v = vol
    BY <1>7 DEF Apply, v
  <2>2. {} \in SUBSET Paths
    OBVIOUS
  <2> QED
    BY <1>1, <1>2, <2>1, <2>2
<1> QED
  BY <1>3, <1>4, <1>5, <1>6, <1>7 DEF Events

-----------------------------------------------------------------------------
(* Rows *)

\* The rows of a replay, spelled out for a log.
RowsOf(events, r) ==
  r \in [shadows : Seq([tiebreak : DOMAIN events,
                        reject : {"source-missing", "rename-into-self", "unknown"}]),
         warned : SUBSET UnknownVerbs]

LEMMA RecordRows ==
  ASSUME NEW vol, NEW events \in Seq(Events), NEW event \in Events,
         NEW r, RowsOf(events, r)
  PROVE  RowsOf(Append(events, event), Record(r, vol, Len(events) + 1, event))
<1> DEFINE id == Len(events) + 1
           longer == Append(events, event)
           Rejects == {"source-missing", "rename-into-self", "unknown"}
           reject ==
             CASE event.kind = "RENAME" /\ event.path # event.to ->
                    RenameReject(vol, event.path, event.to)
               [] event.kind = "OTHER" /\ event.verb \notin NonFileVerbs \cup r.warned ->
                    "unknown"
               [] OTHER -> "none"
           row == [tiebreak |-> id, reject |-> reject]
           grown == [shadows |-> Append(r.shadows, row),
                     warned |-> IF reject = "unknown" THEN r.warned \cup {event.verb}
                                ELSE r.warned]
<1>1. DOMAIN events \subseteq DOMAIN longer /\ id \in DOMAIN longer
  BY AppendWritten
<1>2. RenameReject(vol, event.path, event.to) \in {"none", "source-missing", "rename-into-self"}
  BY DEF RenameReject
<1>3. reject \in Rejects \cup {"none"}
  BY <1>2
<1>4. reject = "unknown" => event.verb \in UnknownVerbs
  BY <1>2 DEF Events
<1>5. Record(r, vol, id, event) = IF reject = "none" THEN r ELSE grown
  BY DEF Record
<1> HIDE DEF reject, id, longer
<1>6. r.shadows \in Seq([tiebreak : DOMAIN longer, reject : Rejects])
  <2> DEFINE Old == [tiebreak : DOMAIN events, reject : Rejects]
             New == [tiebreak : DOMAIN longer, reject : Rejects]
  <2>1. Old \subseteq New
    BY <1>1
  <2>2. r.shadows \in Seq(Old)
    BY DEF RowsOf
  <2> HIDE DEF Old, New
  <2>3. r.shadows \in Seq(New)
    BY <2>1, <2>2
  <2> QED
    BY <2>3 DEF New
<1>7. CASE reject = "none"
  BY <1>5, <1>6, <1>7 DEF RowsOf, id, longer
<1>8. CASE reject # "none"
  <2>1. row \in [tiebreak : DOMAIN longer, reject : Rejects]
    BY <1>1, <1>3, <1>8
  <2>2. Append(r.shadows, row) \in Seq([tiebreak : DOMAIN longer, reject : Rejects])
    BY <1>6, <2>1
  <2>3. grown.warned \subseteq UnknownVerbs
    BY <1>4 DEF RowsOf
  <2>4. RowsOf(longer, grown)
    BY <2>2, <2>3 DEF RowsOf
  <2> QED
    BY <1>5, <1>8, <2>4 DEF id, longer
<1> QED
  BY <1>7, <1>8

LEMMA ResumeRowsOf ==
  ASSUME NEW events, NEW r, RowsOf(events, r)
  PROVE  RowsOf(events, ResumeRows(r))
BY DEF RowsOf, ResumeRows

-----------------------------------------------------------------------------
(* The invariant *)

IInv ==
  /\ log \in Seq(Events)
  /\ Sound(volume, Written(log))
  /\ MapsInto(volume.entryHeads, Paths, DOMAIN log)
  /\ RowsOf(log, rows)
  /\ RowsOf(log, cachedRows)
  /\ cached = volume

LEMMA InitIInv == Init => IInv
<1> SUFFICES ASSUME Init PROVE IInv
  OBVIOUS
<1>1. /\ log = <<>> /\ volume = EmptyVolume /\ cached = EmptyVolume
      /\ rows = NoRows /\ cachedRows = NoRows
  BY DEF Init
<1>2. Sound(EmptyVolume, Written(<<>>))
  BY EmptySound
<1>3. MapsInto(EmptyVolume.entryHeads, Paths, DOMAIN <<>>)
  BY DEF MapsInto, EmptyVolume
<1>4. RowsOf(<<>>, NoRows)
  BY DEF RowsOf, NoRows
<1>5. <<>> \in Seq(Events)
  OBVIOUS
<1> QED
  BY <1>1, <1>2, <1>3, <1>4, <1>5 DEF IInv

LEMMA ReplayIInv ==
  ASSUME IInv, NEW event \in Events, Replay(event),
         event.kind = "RENAME" /\ event.path \in DOMAIN volume.files
           => ~IsStrictDescendant(event.path, event.to)
  PROVE  IInv'
<1>1. log' \in Seq(Events)
  BY AppendWritten DEF IInv, Replay
<1>2. Sound(volume', Written(log')) /\ MapsInto(volume'.entryHeads, Paths, DOMAIN log')
  BY ApplySound DEF IInv, Replay
<1>3. RowsOf(log', rows') /\ RowsOf(log', cachedRows')
  BY RecordRows DEF IInv, Replay
<1>4. cached' = volume'
  BY DEF IInv, Replay
<1>5. Written(log)' = Written(log')
  BY DEF Written
<1>6. Sound(volume, Written(log))'
  BY <1>2, <1>5 DEF Sound, IsVolumeRecord, FilesSound, Fit, IsDirTable, IsFileSet,
                    Counted, Covered, Below
<1> QED
  BY <1>1, <1>2, <1>3, <1>4, <1>6 DEF IInv, MapsInto, RowsOf

LEMMA NextIInv ==
  ASSUME ~FileOntoAncestor
  PROVE  IInv /\ [Next]_vars => IInv'
<1> SUFFICES ASSUME IInv, [Next]_vars PROVE IInv'
  OBVIOUS
<1>1. ASSUME NEW path \in EventPaths, NEW blob \in Blobs, CreateFile(path, blob)
      PROVE  IInv'
  <2>1. [kind |-> "CREATE_FILE", path |-> path, blob |-> blob] \in Events
    BY EventPathsArePaths DEF Events
  <2> QED
    BY <1>1, <2>1, ReplayIInv DEF CreateFile
<1>2. ASSUME NEW path \in EventPaths, Mkdir(path)
      PROVE  IInv'
  <2>1. [kind |-> "MKDIR", path |-> path] \in Events
    BY EventPathsArePaths DEF Events
  <2> QED
    BY <1>2, <2>1, ReplayIInv DEF Mkdir
<1>3. ASSUME NEW path \in EventPaths, Delete(path)
      PROVE  IInv'
  <2>1. [kind |-> "DELETE", path |-> path] \in Events
    BY EventPathsArePaths DEF Events
  <2> QED
    BY <1>3, <2>1, ReplayIInv DEF Delete
<1>4. ASSUME NEW path \in EventPaths, NEW to \in EventPaths, Rename(path, to)
      PROVE  IInv'
  <2>1. [kind |-> "RENAME", path |-> path, to |-> to] \in Events
    BY EventPathsArePaths DEF Events
  <2>2. path \in DOMAIN volume.files => ~IsStrictDescendant(path, to)
    BY <1>4 DEF Rename
  <2> QED
    BY <1>4, <2>1, <2>2, ReplayIInv DEF Rename
<1>5. ASSUME NEW verb \in NonFileVerbs \cup UnknownVerbs, OtherVerb(verb)
      PROVE  IInv'
  <2>1. [kind |-> "OTHER", verb |-> verb] \in Events
    BY DEF Events
  <2> QED
    BY <1>5, <2>1, ReplayIInv DEF OtherVerb
<1>6. CASE Resume
  <2>1. /\ log' = log /\ volume' = volume /\ rows' = rows
        /\ cached' = ResumeFrom(cached) /\ cachedRows' = ResumeRows(cachedRows)
    BY <1>6 DEF Resume
  <2>2. ResumeFrom(cached) = cached
    BY ResumeIsIdentity DEF IInv
  <2>3. RowsOf(log, ResumeRows(cachedRows))
    BY ResumeRowsOf DEF IInv
  <2> QED
    BY <2>1, <2>2, <2>3 DEF IInv, RowsOf, Written, MapsInto
<1>7. CASE UNCHANGED vars
  BY <1>7 DEF vars, IInv, Written, RowsOf, MapsInto
<1> QED
  BY <1>1, <1>2, <1>3, <1>4, <1>5, <1>6, <1>7 DEF Next

-----------------------------------------------------------------------------
(* Theorems *)

\* Every replay keeps its volume sound and its snapshots exact, provided no
\* live file is renamed onto a directory it is in: with such a rename the
\* materializer does lose the file, so the assumption cannot be dropped.
THEOREM ReplayIsSound ==
  ASSUME ~FileOntoAncestor
  PROVE  Spec => []IInv
<1>1. Init => IInv
  BY InitIInv
<1>2. IInv /\ [Next]_vars => IInv'
  BY NextIInv
<1> QED
  BY <1>1, <1>2, PTL DEF Spec

\* The maps the materializer builds always have their shape: a live file has
\* content the log wrote and no directory count goes below zero.
THEOREM TypeCorrect ==
  ASSUME ~FileOntoAncestor
  PROVE  Spec => []TypeOK
<1>1. IInv => TypeOK
  <2> SUFFICES ASSUME IInv PROVE TypeOK
    OBVIOUS
  <2>1. IsVolume(volume)
    <3>1. MapsInto(volume.files, Paths, [path : Paths, blob : Blobs])
      <4>1. BlobsOf(Written(log)) \subseteq Blobs
        BY DEF BlobsOf, Written, IInv, Events
      <4> QED
        BY <4>1 DEF IInv, Sound, FilesSound, Fit, IsFileSet, MapsInto
    <3>2. MapsInto(volume.dirs, Paths, [explicit : BOOLEAN, fileCount : Nat])
      BY DEF IInv, Sound, Fit, IsDirTable, MapsInto
    <3>3. DOMAIN volume.fileOrigins \subseteq Paths
      BY DEF IInv, Sound, FilesSound, Fit, IsFileSet
    <3>4. ASSUME NEW p \in DOMAIN volume.fileOrigins
          PROVE  volume.fileOrigins[p] \in DOMAIN log
      BY <3>4 DEF IInv, Sound, FilesSound, Written
    <3>5. MapsInto(volume.fileOrigins, Paths, DOMAIN log)
      BY <3>3, <3>4 DEF MapsInto, IInv, Sound, FilesSound
    <3> QED
      BY <3>1, <3>2, <3>5 DEF IsVolume, IInv, Sound, IsVolumeRecord
  <2>2. rows \in Rows /\ cachedRows \in Rows
    BY DEF IInv, RowsOf, Rows
  <2> QED
    BY <2>1, <2>2 DEF TypeOK, IInv
<1> QED
  BY <1>1, ReplayIsSound, PTL

\* The count of a directory is the number of live files below it after any
\* log: create, remove and move never let it drift.
THEOREM CountsAreExact ==
  ASSUME ~FileOntoAncestor
  PROVE  Spec => []FileCountExact
<1>1. IInv => FileCountExact
  BY DEF IInv, Sound, Fit, Counted, Below, FileCountExact, FilesBelow
<1> QED
  BY <1>1, ReplayIsSound, PTL

\* Every live file can be reached through live directories.
THEOREM FilesAreReachable ==
  ASSUME ~FileOntoAncestor
  PROVE  Spec => []FileAncestorsLive
<1>1. IInv => FileAncestorsLive
  BY DEF IInv, Sound, Fit, Covered, FileAncestorsLive
<1> QED
  BY <1>1, ReplayIsSound, PTL

\* fileOrigins names exactly the event each live file's content came from,
\* through any sequence of overwrites and moves.
THEOREM OriginsAreExact ==
  ASSUME ~FileOntoAncestor
  PROVE  Spec => []OriginsExact
<1>1. IInv => OriginsExact
  <2> SUFFICES ASSUME IInv PROVE OriginsExact
    OBVIOUS
  <2>1. DOMAIN volume.fileOrigins = DOMAIN volume.files
    BY DEF IInv, Sound, FilesSound
  <2>2. ASSUME NEW p \in DOMAIN volume.files
        PROVE  /\ log[volume.fileOrigins[p]].kind = "CREATE_FILE"
               /\ log[volume.fileOrigins[p]].blob = volume.files[p].blob
    BY <2>2 DEF IInv, Sound, FilesSound, Written
  <2> QED
    BY <2>1, <2>2 DEF OriginsExact
<1> QED
  BY <1>1, ReplayIsSound, PTL

\* No content an event wrote is ever live at two paths.
THEOREM OriginsAreUnique ==
  ASSUME ~FileOntoAncestor
  PROVE  Spec => []OriginsUnique
<1>1. IInv => OriginsUnique
  BY DEF IInv, Sound, FilesSound, OriginsUnique
<1> QED
  BY <1>1, ReplayIsSound, PTL

\* The path in a live file's metadata is the path it is filed under.
THEOREM MetadataIsInPlace ==
  ASSUME ~FileOntoAncestor
  PROVE  Spec => []MetadataNamesPath
<1>1. IInv => MetadataNamesPath
  BY DEF IInv, Sound, FilesSound, MetadataNamesPath
<1> QED
  BY <1>1, ReplayIsSound, PTL

\* No live file ever lies below another live file.
THEOREM FilesAreLeaves ==
  ASSUME ~FileOntoAncestor
  PROVE  Spec => []NoFileUnderFile
<1>1. IInv => NoFileUnderFile
  BY DEF IInv, Sound, FilesSound, NoFileUnderFile
<1> QED
  BY <1>1, ReplayIsSound, PTL

\* Extending a snapshot, taken and resumed from at any points of the log,
\* leads to the volume a replay of the whole log builds.
THEOREM SnapshotsAreExact ==
  ASSUME ~FileOntoAncestor
  PROVE  Spec => []IncrementalEqualsFull
<1>1. IInv => IncrementalEqualsFull
  BY DEF IInv, IncrementalEqualsFull
<1> QED
  BY <1>1, ReplayIsSound, PTL

\* An event that is recorded as a shadow changes nothing in the volume.
THEOREM RejectionsAreClean == Spec => RejectedHasNoEffect
<1> DEFINE Clean == rows'.shadows # rows.shadows => volume' = volume
<1>1. ASSUME NEW event, Replay(event) PROVE Clean
  <2>1. CASE event.kind = "RENAME"
    <3>1. CASE event.path = event.to \/ RenameReject(volume, event.path, event.to) # "none"
      BY <1>1, <2>1, <3>1 DEF Replay, Apply, ApplyRename
    <3>2. CASE event.path # event.to /\ RenameReject(volume, event.path, event.to) = "none"
      BY <1>1, <2>1, <3>2 DEF Replay, Record
    <3> QED
      BY <3>1, <3>2
  <2>2. CASE event.kind \in {"CREATE_FILE", "MKDIR", "DELETE"}
    BY <1>1, <2>2 DEF Replay, Record
  <2>3. CASE event.kind \notin {"CREATE_FILE", "MKDIR", "DELETE", "RENAME"}
    BY <1>1, <2>3 DEF Replay, Apply
  <2> QED
    BY <2>1, <2>2, <2>3
<1>2. [Next]_vars => [Clean]_vars
  BY <1>1 DEF Next, vars, Resume, CreateFile, Mkdir, Delete, Rename, OtherVerb
<1>3. Spec => [][Clean]_vars
  BY <1>2, PTL DEF Spec
<1> QED
  BY <1>3 DEF RejectedHasNoEffect

-----------------------------------------------------------------------------
(* What each event of a replay does to the origins is what the verb      *)
(* promises of the file tree.                                            *)

Sub(map, path) == {p \in DOMAIN map : IsSelfOrDescendant(p, path)}

\* A map with all at or below `from` put at and below `to`.
Relocated(map, from, to) ==
  LET moving == Sub(map, from)
      target(p) == RewritePrefix(p, from, to)
  IN  PutAll(Without(map, moving),
             [q \in {target(p) : p \in moving} |->
                map[CHOOSE p \in moving : target(p) = q]])

-----------------------------------------------------------------------------
(* What each verb does to the origins *)

LEMMA OriginsOfSound ==
  ASSUME NEW vol, NEW written, Sound(vol, written)
  PROVE  /\ DOMAIN vol.fileOrigins = DOMAIN vol.files
         /\ vol.fileOrigins = [p \in DOMAIN vol.files |-> vol.fileOrigins[p]]
         /\ DOMAIN vol.files \subseteq Paths
         /\ \A p, q \in DOMAIN vol.files : ~IsStrictDescendant(p, q)
         /\ \A path \in Paths : Sub(vol.fileOrigins, path) = DOMAIN vol.files \cap Under(path)
BY DEF Sound, FilesSound, Fit, IsFileSet, Sub, Under

\* The origins left when files go.
LEMMA LeftOrigins ==
  ASSUME NEW vol, NEW v, NEW written, Sound(vol, written), Sound(v, written), NEW gone,
         DOMAIN v.files = DOMAIN vol.files \ gone,
         \A p \in DOMAIN v.files : v.fileOrigins[p] = vol.fileOrigins[p]
  PROVE  v.fileOrigins = Without(vol.fileOrigins, gone)
<1>1. /\ v.fileOrigins = [p \in DOMAIN v.files |-> v.fileOrigins[p]]
      /\ DOMAIN vol.fileOrigins = DOMAIN vol.files
  BY OriginsOfSound
<1> QED
  BY <1>1 DEF Without

LEMMA SetHeadsOrigins ==
  ASSUME NEW vol, IsVolumeRecord(vol), NEW paths, NEW id
  PROVE  SetHeads(vol, paths, id).fileOrigins = vol.fileOrigins
BY DEF SetHeads, IsVolumeRecord

LEMMA PlacedOrigins ==
  ASSUME NEW vol, IsVolumeRecord(vol), NEW path, NEW blob, NEW id, NEW dirs
  PROVE  LET v == Placed(vol, path, blob, id, dirs)
         IN  IsVolumeRecord(v) /\ v.fileOrigins = Put(vol.fileOrigins, path, id)
BY DEF Placed, IsVolumeRecord

LEMMA WithDirsOrigins ==
  ASSUME NEW vol, IsVolumeRecord(vol), NEW dirs
  PROVE  LET v == WithDirs(vol, dirs)
         IN  IsVolumeRecord(v) /\ v.fileOrigins = vol.fileOrigins
BY DEF WithDirs, IsVolumeRecord

LEMMA CreateFileOrigins ==
  ASSUME NEW vol, NEW written, Sound(vol, written), NEW path \in Paths, NEW blob, NEW id
  PROVE  ApplyCreateFile(vol, id, path, blob).fileOrigins
           = Put(Without(vol.fileOrigins, AncestorPaths(path) \cup Sub(vol.fileOrigins, path)),
                 path, id)
<1> DEFINE F == DOMAIN vol.files
           cleared == ClearedFor(vol, AncestorPaths(path), path)
           dirs == IF path \in DOMAIN cleared.files THEN cleared.dirs
                   ELSE CountInAncestors(cleared.dirs, path, 1)
           v == ApplyCreateFile(vol, id, path, blob)
           wanted == Put(Without(vol.fileOrigins,
                                 AncestorPaths(path) \cup Sub(vol.fileOrigins, path)), path, id)
<1>1. /\ Sound(cleared, written)
      /\ DOMAIN cleared.files \subseteq F \ AncestorPaths(path)
      /\ F \ (AncestorPaths(path) \cup Under(path)) \subseteq DOMAIN cleared.files
      /\ \A p \in DOMAIN cleared.files : /\ cleared.fileOrigins[p] = vol.fileOrigins[p]
                                         /\ ~IsStrictDescendant(p, path)
  BY ClearedForSound
<1>2. v.fileOrigins = Put(cleared.fileOrigins, path, id)
  <2>1. v = SetHeads(Placed(cleared, path, blob, id, dirs), {path}, id)
    BY DEF ApplyCreateFile, Placed, ClearedFor
  <2> HIDE DEF v, cleared, dirs
  <2> QED
    BY <1>1, <2>1, PlacedOrigins, SetHeadsOrigins DEF Sound
<1> HIDE DEF cleared, v
<1>3. /\ DOMAIN cleared.fileOrigins = DOMAIN cleared.files
      /\ DOMAIN vol.fileOrigins = F
      /\ Sub(vol.fileOrigins, path) = F \cap Under(path)
      /\ path \in Under(path)
  BY <1>1, OriginsOfSound DEF Under, IsSelfOrDescendant
<1>4. DOMAIN cleared.files \ {path} = F \ (AncestorPaths(path) \cup Under(path))
  BY <1>1, <1>3 DEF Under, IsSelfOrDescendant
<1>5. DOMAIN Put(cleared.fileOrigins, path, id) = DOMAIN wanted
  BY <1>3, <1>4 DEF Put, Without
<1>6. \A p \in DOMAIN wanted : Put(cleared.fileOrigins, path, id)[p] = wanted[p]
  BY <1>1, <1>3, <1>4 DEF Put, Without
<1>7. /\ Put(cleared.fileOrigins, path, id)
           = [p \in DOMAIN Put(cleared.fileOrigins, path, id) |->
                Put(cleared.fileOrigins, path, id)[p]]
      /\ wanted = [p \in DOMAIN wanted |-> wanted[p]]
  BY DEF Put
<1> HIDE DEF wanted
<1>8. v.fileOrigins = wanted
  BY <1>2, <1>5, <1>6, <1>7
<1> QED
  BY <1>8 DEF v, wanted

LEMMA MkdirOrigins ==
  ASSUME NEW vol, NEW written, Sound(vol, written), NEW path \in Paths, NEW id
  PROVE  ApplyMkdir(vol, id, path).fileOrigins
           = Without(vol.fileOrigins, AncestorPaths(path) \cup Sub(vol.fileOrigins, path))
<1> DEFINE F == DOMAIN vol.files
           cleared == ClearedFor(vol, PathChain(path), path)
           old == cleared.dirs
           dirs == [d \in DOMAIN old \cup PathChain(path) |->
                      IF d = path THEN [explicit |-> TRUE, fileCount |-> 0]
                      ELSE IF d \in DOMAIN old THEN old[d]
                      ELSE [explicit |-> FALSE, fileCount |-> 0]]
           gone == AncestorPaths(path) \cup Sub(vol.fileOrigins, path)
<1>1. /\ Sound(cleared, written)
      /\ DOMAIN cleared.files = F \ (PathChain(path) \cup Under(path))
      /\ \A p \in DOMAIN cleared.files : cleared.fileOrigins[p] = vol.fileOrigins[p]
  BY ClearedForSound DEF PathChain
<1>2. ApplyMkdir(vol, id, path).fileOrigins = cleared.fileOrigins
  <2>1. ApplyMkdir(vol, id, path) = SetHeads(WithDirs(cleared, dirs), {path}, id)
    BY DEF ApplyMkdir, ClearedFor, WithDirs
  <2> HIDE DEF cleared, dirs
  <2> QED
    BY <1>1, <2>1, WithDirsOrigins, SetHeadsOrigins DEF Sound
<1> HIDE DEF cleared
<1>3. F \ (PathChain(path) \cup Under(path)) = F \ gone
  <2>1. Sub(vol.fileOrigins, path) = F \cap Under(path) /\ path \in Under(path)
    BY OriginsOfSound DEF Under, IsSelfOrDescendant
  <2> QED
    BY <2>1 DEF PathChain
<1> HIDE DEF gone
<1>4. cleared.fileOrigins = Without(vol.fileOrigins, gone)
  BY <1>1, <1>3, LeftOrigins
<1> QED
  BY <1>2, <1>4 DEF gone

LEMMA DeleteOrigins ==
  ASSUME NEW vol, NEW written, Sound(vol, written), NEW path \in Paths, NEW id
  PROVE  ApplyDelete(vol, id, path).fileOrigins
           = Without(vol.fileOrigins, Sub(vol.fileOrigins, path))
<1> DEFINE F == DOMAIN vol.files
           u == IF path \in F THEN RemoveFiles(vol, {path}) ELSE RemoveDirIfPresent(vol, path)
           gone == Sub(vol.fileOrigins, path)
<1>1. gone = F \cap Under(path)
  BY OriginsOfSound
<1>2. /\ Sound(u, written)
      /\ DOMAIN u.files = F \ gone
      /\ \A p \in DOMAIN u.files : u.fileOrigins[p] = vol.fileOrigins[p]
  <2>1. CASE path \in F
    <3>1. F \cap Under(path) = {path}
      BY <2>1, OriginsOfSound DEF Under, IsSelfOrDescendant
    <3> QED
      BY <1>1, <2>1, <3>1, RemoveFilesSound DEF Keeps
  <2>2. CASE path \notin F
    BY <1>1, <2>2, RemoveDirIfPresentSound DEF Keeps
  <2> QED
    BY <2>1, <2>2
<1>3. ApplyDelete(vol, id, path).fileOrigins = u.fileOrigins
  <2>1. ApplyDelete(vol, id, path) = SetHeads(u, {path}, id)
    BY DEF ApplyDelete
  <2> HIDE DEF u
  <2> QED
    BY <1>2, <2>1, SetHeadsOrigins DEF Sound
<1> HIDE DEF u, gone
<1>4. u.fileOrigins = Without(vol.fileOrigins, gone)
  BY <1>2, LeftOrigins
<1> QED
  BY <1>3, <1>4 DEF gone

-----------------------------------------------------------------------------
(* RENAME *)

LEMMA RewriteSelf ==
  ASSUME NEW from \in Paths, NEW to \in Paths
  PROVE  RewritePrefix(from, from, to) = to
<1> DEFINE q == RewritePrefix(from, from, to)
<1>1. from \in Under(from)
  BY DEF Under, IsSelfOrDescendant
<1>2. /\ q \in Under(to) /\ Len(q) = Len(to) + (Len(from) - Len(from))
      /\ \A i \in 1 .. Len(to) : q[i] = to[i]
  BY <1>1, RewritePointwise
<1>3. q \in Paths /\ Len(q) = Len(to)
  BY <1>2, PathIsSeq DEF Under
<1> HIDE DEF q
<1>4. \A i \in 1 .. Len(q) : q[i] = to[i]
  BY <1>2, <1>3
<1>5. q = to
  BY <1>3, <1>4, PathsEqual
<1> QED
  BY <1>5 DEF q

LEMMA MoveFileOrigins ==
  ASSUME NEW vol, NEW written, Sound(vol, written),
         NEW from \in DOMAIN vol.files, NEW to \in Paths
  PROVE  MoveFile(vol, from, to).fileOrigins = Relocated(vol.fileOrigins, from, to)
<1> DEFINE O == vol.fileOrigins
           F == DOMAIN vol.files
           target(p) == RewritePrefix(p, from, to)
           moving == Sub(O, from)
           targets == {target(p) : p \in moving}
           source(q) == CHOOSE p \in moving : target(p) = q
           moved == [q \in targets |-> O[source(q)]]
<1>1. /\ DOMAIN O = F /\ from \in Paths /\ moving = F \cap Under(from)
      /\ \A p \in F : ~IsStrictDescendant(p, from)
  BY OriginsOfSound
<1>2. moving = {from}
  BY <1>1 DEF Under, IsSelfOrDescendant
<1>3. target(from) = to
  BY <1>1, RewriteSelf
<1>4. targets = {to} /\ source(to) = from
  BY <1>2, <1>3
<1>5. MoveFile(vol, from, to).fileOrigins = Put(Without(O, {from}), to, O[from])
  BY <1>1 DEF MoveFile, Sound, IsVolumeRecord
<1>6. Relocated(O, from, to) = PutAll(Without(O, moving), moved)
  BY DEF Relocated
<1> HIDE DEF moving, targets, source
<1>7. PutAll(Without(O, {from}), moved) = Put(Without(O, {from}), to, O[from])
  BY <1>4 DEF PutAll, Put
<1> QED
  BY <1>2, <1>5, <1>6, <1>7

LEMMA MoveDirOrigins ==
  ASSUME NEW vol, NEW written, Sound(vol, written), NEW from \in Paths, NEW to \in Paths
  PROVE  MoveDir(vol, from, to).fileOrigins = Relocated(vol.fileOrigins, from, to)
<1> DEFINE O == vol.fileOrigins
           F == DOMAIN vol.files
           files == {p \in F : IsSelfOrDescendant(p, from)}
           target(p) == RewritePrefix(vol.files[p].path, from, to)
           source(q) == CHOOSE p \in files : target(p) = q
           targets == {target(p) : p \in files}
           owned == {q \in targets : source(q) \in DOMAIN O}
           new(p) == RewritePrefix(p, from, to)
           old(q) == CHOOSE p \in files : new(p) = q
<1>1. MoveDir(vol, from, to).fileOrigins
        = PutAll(Without(O, files), [q \in owned |-> O[source(q)]])
  BY DEF MoveDir, Sound, IsVolumeRecord
<1>2. DOMAIN O = F /\ \A p \in F : vol.files[p].path = p
  BY DEF Sound, FilesSound
<1>3. Relocated(O, from, to)
        = PutAll(Without(O, files), [q \in {new(p) : p \in files} |-> O[old(q)]])
  BY <1>2 DEF Relocated, Sub
<1>4. \A p \in files : target(p) = new(p)
  BY <1>2
<1>5. targets = {new(p) : p \in files}
  BY <1>4
<1>6. ASSUME NEW q \in targets
      PROVE  source(q) = old(q) /\ source(q) \in files
  <2>1. \A p : p \in files /\ target(p) = q <=> p \in files /\ new(p) = q
    BY <1>4
  <2>2. source(q) = old(q)
    BY <2>1
  <2>3. \E p \in files : target(p) = q
    OBVIOUS
  <2> QED
    BY <2>2, <2>3
<1>7. owned = targets
  BY <1>2, <1>6
<1> HIDE DEF source, old, targets, owned
<1>8. [q \in owned |-> O[source(q)]] = [q \in targets |-> O[old(q)]]
  BY <1>6, <1>7
<1> QED
  BY <1>1, <1>3, <1>5, <1>8

\* What is left of the origins once the target of a rename has made way.
Cleared(map, from, to) ==
  Without(map, (AncestorPaths(to) \ {from}) \cup Sub(map, to))

LEMMA RenameOrigins ==
  ASSUME NEW vol, NEW written, Sound(vol, written),
         NEW from \in Paths, NEW to \in Paths, NEW id,
         from \in DOMAIN vol.files => ~IsStrictDescendant(from, to)
  PROVE  LET v == ApplyRename(vol, id, from, to)
         IN  IF from = to \/ RenameReject(vol, from, to) # "none" THEN v = vol
             ELSE v.fileOrigins = Relocated(Cleared(vol.fileOrigins, from, to), from, to)
<1> DEFINE O == vol.fileOrigins
           F == DOMAIN vol.files
           isFile == from \in F
           above == AncestorPaths(to) \ (IF isFile THEN {from} ELSE {})
           freed == RemoveFiles(vol, above)
           cleared == ClearedFor(freed, {to}, to)
           moved == IF isFile THEN MoveFile(cleared, from, to) ELSE MoveDir(cleared, from, to)
           v == ApplyRename(vol, id, from, to)
           gone == (AncestorPaths(to) \ {from}) \cup Sub(O, to)
<1>1. v = IF from = to \/ RenameReject(vol, from, to) # "none" THEN vol
          ELSE SetHeads(moved, {from, to}, id)
  BY DEF ApplyRename, ClearedFor
<1>2. DOMAIN O = F /\ Sub(O, to) = F \cap Under(to) /\ to \in Under(to)
  BY OriginsOfSound DEF Under, IsSelfOrDescendant
<1>3. CASE from = to \/ RenameReject(vol, from, to) # "none"
  BY <1>1, <1>3
<1>4. CASE from # to /\ RenameReject(vol, from, to) = "none"
  <2>2. Sound(freed, written) /\ Keeps(freed, vol, above)
    BY RemoveFilesSound
  <2> HIDE DEF freed
  <2>3. /\ Sound(cleared, written)
        /\ DOMAIN cleared.files = DOMAIN freed.files \ ({to} \cup Under(to))
        /\ \A p \in DOMAIN cleared.files : cleared.fileOrigins[p] = freed.fileOrigins[p]
    BY <2>2, ClearedForSound
  <2> HIDE DEF cleared
  <2>4. DOMAIN cleared.files = F \ gone
    BY <1>2, <2>2, <2>3 DEF Keeps
  <2>5. \A p \in DOMAIN cleared.files : cleared.fileOrigins[p] = O[p]
    BY <2>2, <2>3 DEF Keeps
  <2> HIDE DEF gone
  <2>6. cleared.fileOrigins = Without(O, gone)
    BY <2>3, <2>4, <2>5, LeftOrigins
  <2>7. Without(O, gone) = Cleared(O, from, to)
    BY DEF Cleared, gone
  <2>8. moved.fileOrigins = Relocated(cleared.fileOrigins, from, to)
    <3>1. CASE isFile
      <4>1. from \notin Under(to)
        BY <1>4, <3>1 DEF Under, IsSelfOrDescendant
      <4>2. from \in DOMAIN cleared.files
        BY <1>2, <2>4, <3>1, <4>1 DEF gone
      <4> QED
        BY <2>3, <3>1, <4>2, MoveFileOrigins
    <3>2. CASE ~isFile
      BY <2>3, <3>2, MoveDirOrigins
    <3> QED
      BY <3>1, <3>2
  <2>9. IsVolumeRecord(moved)
    BY <2>3 DEF Sound, IsVolumeRecord, MoveFile, MoveDir
  <2> HIDE DEF moved
  <2>10. SetHeads(moved, {from, to}, id).fileOrigins = moved.fileOrigins
    BY <2>9, SetHeadsOrigins
  <2>11. v.fileOrigins = Relocated(Cleared(O, from, to), from, to)
    BY <1>1, <1>4, <2>6, <2>7, <2>8, <2>10
  <2> QED
    BY <1>4, <2>11
<1> QED
  BY <1>3, <1>4

-----------------------------------------------------------------------------
(* The steps of the file tree, on a map *)

LEMMA TreeMaps ==
  ASSUME NEW map, NEW keys, NEW key, NEW value, NEW entries
  PROVE  /\ Tree!Without(map, keys) = Without(map, keys)
         /\ Tree!Put(map, key, value) = Put(map, key, value)
         /\ Tree!PutAll(map, entries) = PutAll(map, entries)
BY DEF Tree!Without, Without, Tree!Put, Put, Tree!PutAll, PutAll

LEMMA TreePaths ==
  ASSUME NEW path, NEW other, NEW to
  PROVE  /\ Tree!AncestorPaths(path) = AncestorPaths(path)
         /\ Tree!IsStrictDescendant(path, other) <=> IsStrictDescendant(path, other)
         /\ Tree!IsSelfOrDescendant(path, other) <=> IsSelfOrDescendant(path, other)
         /\ Tree!RewritePrefix(path, other, to) = RewritePrefix(path, other, to)
BY DEF Tree!AncestorPaths, AncestorPaths, Tree!IsStrictDescendant, IsStrictDescendant,
       Tree!IsSelfOrDescendant, IsSelfOrDescendant, Tree!RewritePrefix, RewritePrefix

LEMMA TreeSubtree ==
  ASSUME NEW path
  PROVE  Tree!Subtree(path) = Sub(volume.fileOrigins, path)
BY TreePaths DEF Tree!Subtree, Sub

LEMMA TreeClears ==
  ASSUME NEW keys
  PROVE  Tree!Cleared(keys) = Without(volume.fileOrigins, keys)
BY TreeMaps DEF Tree!Cleared

\* The identity of the next event is new to the tree and within the bound.
LEMMA NextIsNew ==
  ASSUME IInv, Len(log) < MaxEvents
  PROVE  /\ Len(log) + 1 \in 1 .. MaxEvents
         /\ \A p \in DOMAIN volume.fileOrigins : volume.fileOrigins[p] # Len(log) + 1
<1>1. log \in Seq(Events) /\ Len(log) \in Nat /\ DOMAIN log = 1 .. Len(log)
  BY DEF IInv
<1>2. Len(log) + 1 \in 1 .. MaxEvents
  BY <1>1, MaxEventsIsNat
<1>3. \A w \in Written(log) : w[1] \in 1 .. Len(log)
  BY <1>1 DEF Written
<1>4. /\ DOMAIN volume.fileOrigins = DOMAIN volume.files
      /\ \A p \in DOMAIN volume.files :
           <<volume.fileOrigins[p], volume.files[p].blob>> \in Written(log)
  BY DEF IInv, Sound, FilesSound
<1>5. ASSUME NEW p \in DOMAIN volume.fileOrigins
      PROVE  volume.fileOrigins[p] # Len(log) + 1
  <2> DEFINE w == <<volume.fileOrigins[p], volume.files[p].blob>>
  <2>1. w \in Written(log) /\ w[1] = volume.fileOrigins[p]
    BY <1>4
  <2> HIDE DEF w
  <2>2. volume.fileOrigins[p] \in 1 .. Len(log)
    BY <1>3, <2>1
  <2> QED
    BY <1>1, <2>2
<1> QED
  BY <1>2, <1>5

\* Unless a directory is moved onto one it is in, nothing of what moves is in
\* the way: it does not matter that the code clears the target first.
LEMMA ClearedFirst ==
  ASSUME NEW vol, NEW written, Sound(vol, written),
         NEW from \in Paths, NEW to \in Paths, from # to,
         from \in DOMAIN vol.files \/ ~IsStrictDescendant(to, from),
         Sub(vol.fileOrigins, from) = {} \/ ~IsStrictDescendant(from, to)
  PROVE  LET O      == vol.fileOrigins
             moving == Sub(O, from)
             target(p) == RewritePrefix(p, from, to)
         IN  Relocated(Cleared(O, from, to), from, to)
               = PutAll(Without(O, moving \cup AncestorPaths(to) \cup Sub(O, to)),
                        [q \in {target(p) : p \in moving} |->
                           O[CHOOSE p \in moving : target(p) = q]])
<1> DEFINE O == vol.fileOrigins
           F == DOMAIN vol.files
           gone == (AncestorPaths(to) \ {from}) \cup Sub(O, to)
           stay == Cleared(O, from, to)
           moving == Sub(O, from)
           target(p) == RewritePrefix(p, from, to)
           source(q) == CHOOSE p \in moving : target(p) = q
           targets == {target(p) : p \in moving}
<1>1. /\ DOMAIN O = F /\ F \subseteq Paths
      /\ \A p, q \in F : ~IsStrictDescendant(p, q)
  BY OriginsOfSound
<1>2. ASSUME NEW p \in moving
      PROVE  p \notin gone
  <2>1. p \in F /\ p \in Paths /\ IsSelfOrDescendant(p, from)
    BY <1>1 DEF Sub
  <2>2. ASSUME p \in AncestorPaths(to), p # from PROVE FALSE
    <3>1. IsStrictDescendant(to, p) /\ IsStrictDescendant(p, from)
      BY <2>1, <2>2, AncestorIsAbove DEF IsSelfOrDescendant
    <3>2. IsStrictDescendant(to, from)
      BY <2>1, <3>1, StrictTransitive
    <3> QED
      BY <1>1, <2>1, <3>1, <3>2
  <2>3. ASSUME p \in Sub(O, to) PROVE FALSE
    <3>1. IsSelfOrDescendant(p, to)
      BY <2>3 DEF Sub
    <3>2. IsStrictDescendant(from, to) \/ IsStrictDescendant(to, from)
      BY <2>1, <3>1, AboveIsChain
    <3>3. IsStrictDescendant(to, from) /\ from \in F
      BY <3>2
    <3>4. IsStrictDescendant(p, from)
      BY <2>1, <3>1, <3>3, StrictTransitive DEF IsSelfOrDescendant
    <3> QED
      BY <1>1, <2>1, <3>3, <3>4
  <2> QED
    BY <2>2, <2>3
<1>3. moving \subseteq DOMAIN O
  BY DEF Sub
<1>4. DOMAIN stay = DOMAIN O \ gone /\ \A p \in DOMAIN stay : stay[p] = O[p]
  BY DEF Cleared, Without
<1>5. Sub(stay, from) = moving
  BY <1>2, <1>4 DEF Sub
<1>6. \A q \in targets : source(q) \in moving
  OBVIOUS
<1>7. Relocated(stay, from, to)
        = PutAll(Without(stay, moving), [q \in targets |-> stay[source(q)]])
  BY <1>5 DEF Relocated
<1>8. Without(stay, moving) = Without(O, moving \cup AncestorPaths(to) \cup Sub(O, to))
  <2>1. from \in DOMAIN O => from \in moving
    BY DEF Sub, IsSelfOrDescendant
  <2>2. DOMAIN stay \ moving = DOMAIN O \ (moving \cup AncestorPaths(to) \cup Sub(O, to))
    BY <1>4, <2>1
  <2> QED
    BY <1>4, <2>2 DEF Without
<1>9. [q \in targets |-> stay[source(q)]] = [q \in targets |-> O[source(q)]]
  <2>1. \A p \in moving : stay[p] = O[p]
    BY <1>2, <1>3, <1>4
  <2> HIDE DEF source, targets, moving, stay, O
  <2> QED
    BY <1>6, <2>1
<1> QED
  BY <1>7, <1>8, <1>9

LEMMA MovesInTree ==
  ASSUME NEW from, NEW to, from # to,
         from \in DOMAIN volume.fileOrigins \/ ~IsStrictDescendant(to, from),
         LET O      == volume.fileOrigins
             moving == Sub(O, from)
             target(p) == RewritePrefix(p, from, to)
         IN  volume.fileOrigins'
               = PutAll(Without(O, moving \cup AncestorPaths(to) \cup Sub(O, to)),
                        [q \in {target(p) : p \in moving} |->
                           O[CHOOSE p \in moving : target(p) = q]])
  PROVE  Tree!Move(from, to)
BY Zenon
   DEF Tree!Move, Tree!Cleared, Tree!Subtree, Tree!AncestorPaths, Tree!IsStrictDescendant,
       Tree!IsSelfOrDescendant, Tree!RewritePrefix, Tree!PutAll, Tree!Without,
       Sub, AncestorPaths, IsStrictDescendant, IsSelfOrDescendant,
       RewritePrefix, PutAll, Without

-----------------------------------------------------------------------------
(* One step *)

Event == log'[Len(log')]

Promised ==
  IF log' = log THEN UNCHANGED volume.fileOrigins
  ELSE BreaksPromise(Event) \/ KeepsPromise(Event, Len(log'))

LEMMA ReplayAppends ==
  ASSUME IInv, NEW event, Replay(event)
  PROVE  log' # log /\ Len(log') = Len(log) + 1 /\ Event = event
<1>1. log \in Seq(Events) /\ log' = Append(log, event) /\ Len(log) \in Nat
  BY DEF IInv, Replay
<1> QED
  BY <1>1 DEF Event

LEMMA StepIsPromised ==
  ASSUME ~FileOntoAncestor
  PROVE  IInv /\ [Next]_vars => [Promised]_vars
<1> DEFINE O == volume.fileOrigins
           id == Len(log) + 1
<1> SUFFICES ASSUME IInv, [Next]_vars PROVE Promised
  OBVIOUS
<1>1. Sound(volume, Written(log)) /\ DOMAIN O = DOMAIN volume.files
  BY OriginsOfSound DEF IInv
<1>2. ASSUME NEW path \in EventPaths, NEW blob \in Blobs, CreateFile(path, blob)
      PROVE  Promised
  <2> DEFINE event == [kind |-> "CREATE_FILE", path |-> path, blob |-> blob]
  <2>1. /\ Len(log) < MaxEvents /\ volume' = ApplyCreateFile(volume, id, path, blob)
        /\ log' # log /\ Len(log') = id /\ Event = event
    BY <1>2, ReplayAppends DEF CreateFile, Replay, Apply
  <2>2. O' = Put(Without(O, AncestorPaths(path) \cup Sub(O, path)), path, id)
    BY <1>1, <2>1, CreateFileOrigins, EventPathsArePaths
  <2>3. \A p \in DOMAIN O : O[p] # id
    BY <2>1, NextIsNew
  <2>4. Tree!Write(path, id)
    BY <2>2, <2>3, TreeMaps, TreePaths, TreeSubtree, TreeClears DEF Tree!Write
  <2> QED
    BY <2>1, <2>4 DEF Promised, KeepsPromise
<1>3. ASSUME NEW path \in EventPaths, Mkdir(path)
      PROVE  Promised
  <2> DEFINE event == [kind |-> "MKDIR", path |-> path]
  <2>1. /\ volume' = ApplyMkdir(volume, id, path)
        /\ log' # log /\ Len(log') = id /\ Event = event
    BY <1>3, ReplayAppends DEF Mkdir, Replay, Apply
  <2>2. CASE FilesBelow(volume, path) # {}
    BY <2>1, <2>2 DEF Promised, BreaksPromise
  <2>3. CASE FilesBelow(volume, path) = {}
    <3>1. O' = Without(O, AncestorPaths(path) \cup Sub(O, path))
      BY <1>1, <2>1, MkdirOrigins, EventPathsArePaths
    <3>2. DOMAIN O \ (AncestorPaths(path) \cup Sub(O, path))
            = DOMAIN O \ (AncestorPaths(path) \cup {path})
      BY <1>1, <2>3 DEF FilesBelow, Sub, IsSelfOrDescendant
    <3>3. O' = Without(O, AncestorPaths(path) \cup {path})
      BY <3>1, <3>2 DEF Without
    <3>4. Tree!MakeDir(path)
      BY <3>3, TreePaths, TreeClears DEF Tree!MakeDir
    <3> QED
      BY <2>1, <3>4 DEF Promised, KeepsPromise
  <2> QED
    BY <2>2, <2>3
<1>4. ASSUME NEW path \in EventPaths, Delete(path)
      PROVE  Promised
  <2> DEFINE event == [kind |-> "DELETE", path |-> path]
  <2>1. /\ volume' = ApplyDelete(volume, id, path)
        /\ log' # log /\ Len(log') = id /\ Event = event
    BY <1>4, ReplayAppends DEF Delete, Replay, Apply
  <2>2. O' = Without(O, Sub(O, path))
    BY <1>1, <2>1, DeleteOrigins, EventPathsArePaths
  <2>3. Tree!Remove(path)
    BY <2>2, TreeSubtree, TreeClears DEF Tree!Remove
  <2> QED
    BY <2>1, <2>3 DEF Promised, KeepsPromise
<1>5. ASSUME NEW path \in EventPaths, NEW to \in EventPaths, Rename(path, to)
      PROVE  Promised
  <2> DEFINE event == [kind |-> "RENAME", path |-> path, to |-> to]
             refused == path = to \/ RenameReject(volume, path, to) # "none"
  <2>1. /\ volume' = ApplyRename(volume, id, path, to)
        /\ log' # log /\ Len(log') = id /\ Event = event
    BY <1>5, ReplayAppends DEF Rename, Replay, Apply
  <2>2. path \in DOMAIN volume.files => ~IsStrictDescendant(path, to)
    BY <1>5 DEF Rename
  <2>3. IF refused THEN volume' = volume
        ELSE O' = Relocated(Cleared(O, path, to), path, to)
    BY <1>1, <2>1, <2>2, RenameOrigins, EventPathsArePaths
  <2>4. refused <=> \/ path = to
                    \/ ~IsLive(volume, path)
                    \/ path \notin DOMAIN volume.files /\ IsStrictDescendant(to, path)
    BY DEF RenameReject, IsLive
  <2>5. CASE refused
    BY <2>1, <2>3, <2>4, <2>5 DEF Promised, KeepsPromise
  <2>6. CASE ~refused /\ IsStrictDescendant(path, to) /\ FilesBelow(volume, path) # {}
    BY <2>1, <2>6 DEF Promised, BreaksPromise
  <2>7. CASE ~refused /\ ~(IsStrictDescendant(path, to) /\ FilesBelow(volume, path) # {})
    <3>1. path # to /\ (path \in DOMAIN O \/ ~IsStrictDescendant(to, path))
      BY <1>1, <2>4, <2>7
    <3>2. Sub(O, path) = {} \/ ~IsStrictDescendant(path, to)
      BY <1>1, <2>2, <2>7 DEF FilesBelow, Sub, IsSelfOrDescendant
    <3>3. O' = Relocated(Cleared(O, path, to), path, to)
      BY <2>3, <2>7
    <3>4. path \in DOMAIN volume.files \/ ~IsStrictDescendant(to, path)
      BY <1>1, <3>1
    <3>5. path \in Paths /\ to \in Paths
      BY EventPathsArePaths
    <3>6. LET moving == Sub(O, path)
              target(p) == RewritePrefix(p, path, to)
          IN  Relocated(Cleared(O, path, to), path, to)
                = PutAll(Without(O, moving \cup AncestorPaths(to) \cup Sub(O, to)),
                         [q \in {target(p) : p \in moving} |->
                            O[CHOOSE p \in moving : target(p) = q]])
      BY <1>1, <3>1, <3>2, <3>4, <3>5, ClearedFirst
    <3>7. Tree!Move(path, to)
      BY <3>1, <3>3, <3>6, MovesInTree
    <3> QED
      BY <2>1, <2>4, <2>7, <3>7 DEF Promised, KeepsPromise
  <2> QED
    BY <2>5, <2>6, <2>7
<1>6. ASSUME NEW verb \in NonFileVerbs \cup UnknownVerbs, OtherVerb(verb)
      PROVE  Promised
  <2>1. /\ volume' = volume
        /\ log' # log /\ Event = [kind |-> "OTHER", verb |-> verb]
    BY <1>6, ReplayAppends DEF OtherVerb, Replay, Apply
  <2> QED
    BY <2>1 DEF Promised, KeepsPromise
<1>7. CASE Resume
  BY <1>7 DEF Resume, Promised
<1>8. CASE UNCHANGED vars
  BY <1>8 DEF vars, Promised
<1> QED
  BY <1>2, <1>3, <1>4, <1>5, <1>6, <1>7, <1>8 DEF Next

-----------------------------------------------------------------------------
(* The theorems *)

\* Read as a map from paths to the events that wrote their content, the volume
\* of a replay does with every event what the verb promises of the file tree,
\* whatever the materializer does to counts and directories on the way, also
\* after an event that broke its promise; those are the MKDIR on a directory
\* with files in it and the RENAME of one onto a directory it is in.  The
\* assumption is the one under which a replay is sound.
THEOREM ReplayImplementsFileTree ==
  ASSUME ~FileOntoAncestor
  PROVE  Spec => ImplementsFileTree
<1>1. Init => Tree!Init
  BY DEF Init, EmptyVolume, Tree!Init
<1>2. IInv /\ [Next]_vars => [Promised]_vars
  BY StepIsPromised
<1>3. Spec => []IInv
  BY ReplayIsSound
<1>4. Spec => Tree!Init /\ [][Promised]_vars
  BY <1>1, <1>2, <1>3, PTL DEF Spec
<1> QED
  BY <1>4 DEF ImplementsFileTree, Promised, Event

\* A replay of a log with none of those events is a behaviour of the file tree.
THEOREM OrderlyReplayIsFileTree ==
  ASSUME ~FileOntoAncestor
  PROVE  Spec /\ [][log' # log => ~BreaksPromise(log'[Len(log')])]_vars => Tree!Spec
<1> DEFINE O == volume.fileOrigins
           Orderly == log' # log => ~BreaksPromise(log'[Len(log')])
<1>1. Init => Tree!Init
  BY DEF Init, EmptyVolume, Tree!Init
<1>2. IInv /\ [Next]_vars /\ [Orderly]_vars => [Tree!Next]_O
  <2> SUFFICES ASSUME IInv, [Next]_vars, [Orderly]_vars PROVE [Tree!Next]_O
    OBVIOUS
  <2>1. CASE UNCHANGED vars
    BY <2>1 DEF vars
  <2>2. CASE ~UNCHANGED vars
    <3>1. Promised /\ Orderly /\ Next
      BY <2>2, StepIsPromised
    <3>2. ASSUME NEW event, Replay(event)
          PROVE  KeepsPromise(event, Len(log')) /\ Len(log') \in 1 .. MaxEvents
      <4>1. log' # log /\ Event = event /\ Len(log') = Len(log) + 1
        BY <3>2, ReplayAppends
      <4>2. Len(log) + 1 \in 1 .. MaxEvents
        BY <3>2, NextIsNew DEF Replay
      <4> QED
        BY <3>1, <4>1, <4>2 DEF Promised, Event
    <3>3. ASSUME NEW path \in EventPaths, NEW blob \in Blobs, CreateFile(path, blob)
          PROVE  Tree!Next
      <4>1. Tree!Write(path, Len(log')) /\ Len(log') \in 1 .. MaxEvents
        BY <3>2, <3>3 DEF CreateFile, KeepsPromise
      <4> QED
        BY <4>1 DEF Tree!Next
    <3>4. ASSUME NEW path \in EventPaths, Mkdir(path)
          PROVE  Tree!Next
      <4>1. Tree!MakeDir(path)
        BY <3>2, <3>4 DEF Mkdir, KeepsPromise
      <4> QED
        BY <4>1 DEF Tree!Next
    <3>5. ASSUME NEW path \in EventPaths, Delete(path)
          PROVE  Tree!Next
      <4>1. Tree!Remove(path)
        BY <3>2, <3>5 DEF Delete, KeepsPromise
      <4> QED
        BY <4>1 DEF Tree!Next
    <3>6. ASSUME NEW path \in EventPaths, NEW to \in EventPaths, Rename(path, to)
          PROVE  Tree!Next \/ UNCHANGED O
      <4>1. Tree!Move(path, to) \/ UNCHANGED O
        BY <3>2, <3>6 DEF Rename, KeepsPromise
      <4> QED
        BY <4>1 DEF Tree!Next
    <3>7. ASSUME NEW verb \in NonFileVerbs \cup UnknownVerbs, OtherVerb(verb)
          PROVE  UNCHANGED O
      BY <3>2, <3>7 DEF OtherVerb, KeepsPromise
    <3>8. CASE Resume
      BY <3>8 DEF Resume
    <3> QED
      BY <3>1, <3>3, <3>4, <3>5, <3>6, <3>7, <3>8 DEF Next
  <2> QED
    BY <2>1, <2>2
<1>3. Spec => []IInv
  BY ReplayIsSound
<1> QED
  BY <1>1, <1>2, <1>3, PTL DEF Spec, Tree!Spec
=============================================================================
