-------------------------- MODULE FileMaterializer --------------------------
(***************************************************************************)
(* The materializer (fileMaterializer.ts) as operators: what each event of *)
(* the log does to a volume.  A volume is a record of the four maps that   *)
(* `materialize` fills:                                                    *)
(*   files        path |-> [path, blob], the metadata of a live file;      *)
(*                `blob` stands for all the fields a CREATE_FILE brings    *)
(*   dirs         path |-> [explicit, fileCount], DirInfo; createdAt of a  *)
(*                directory is left out                                    *)
(*   fileOrigins  path |-> the CREATE_FILE that wrote the content          *)
(*   entryHeads   path |-> the last event that named the path              *)
(* Beside them a replay keeps its rows: `shadows`, the rejections in       *)
(* order, and `warned`, the unknown verbs it has warned about.             *)
(***************************************************************************)
EXTENDS VolumePaths, FiniteSets

CONSTANTS
  Blobs,           \* contents a file may have
  NoBlob,          \* the undefined content of a file built from no metadata
  NonFileVerbs,    \* verbs known to have no filesystem effect
  UnknownVerbs     \* verbs the materializer does not know

ASSUME NoBlobIsNoContent == NoBlob \notin Blobs

EmptyVolume ==
  [files |-> <<>>, dirs |-> <<>>, fileOrigins |-> <<>>, entryHeads |-> <<>>]

NoRows == [shadows |-> <<>>, warned |-> {}]

-----------------------------------------------------------------------------
(* Directory counts *)

\* Lower the fileCount of the directories in DOMAIN loss; one that reaches
\* zero goes unless it is explicit.
Uncount(dirs, loss) ==
  LET left(d) == IF dirs[d].fileCount > loss[d]
                 THEN dirs[d].fileCount - loss[d] ELSE 0
      gone == {d \in DOMAIN loss : left(d) = 0 /\ ~dirs[d].explicit}
  IN  [d \in DOMAIN dirs \ gone |->
         IF d \in DOMAIN loss THEN [dirs[d] EXCEPT !.fileCount = left(d)]
                              ELSE dirs[d]]

\* Mutant: a subtree that leaves takes one file off each ancestor.
DecrementByOne(dirs, path, delta) ==
  Uncount(dirs, [d \in DOMAIN dirs \cap AncestorPaths(path) |-> 1])

DecrementAncestors(dirs, path, delta) ==
  Uncount(dirs, [d \in DOMAIN dirs \cap AncestorPaths(path) |-> delta])

\* Mutant: only the ancestors that are there already are counted in.
CountInLiveAncestors(dirs, path, delta) ==
  [d \in DOMAIN dirs |->
     IF d \in AncestorPaths(path) THEN [dirs[d] EXCEPT !.fileCount = @ + delta]
                                  ELSE dirs[d]]

\* Every ancestor of `path` exists, implicit if it is new, and counts
\* `delta` more files.
CountInAncestors(dirs, path, delta) ==
  [d \in DOMAIN dirs \cup AncestorPaths(path) |->
     IF d \notin DOMAIN dirs
     THEN [explicit |-> FALSE, fileCount |-> delta]
     ELSE IF d \in AncestorPaths(path)
          THEN [dirs[d] EXCEPT !.fileCount = @ + delta]
          ELSE dirs[d]]

-----------------------------------------------------------------------------
(* Removing and moving *)

\* removeFile for every path of `paths` that is a live file, one after the
\* other: an ancestor of several of them is decremented once for each.
RemoveFiles(vol, paths) ==
  LET gone == DOMAIN vol.files \cap paths
      below(d) == {p \in gone : d \in AncestorPaths(p)}
      loss == [d \in {d \in DOMAIN vol.dirs : below(d) # {}} |->
                 Cardinality(below(d))]
  IN  [vol EXCEPT !.files       = Without(@, gone),
                  !.fileOrigins = Without(@, gone),
                  !.dirs        = Uncount(@, loss)]

RemoveDir(vol, path) ==
  LET inside(q) == IsSelfOrDescendant(q, path)
      gone == {p \in DOMAIN vol.files : inside(p)}
      kept == Without(vol.dirs, {d \in DOMAIN vol.dirs : inside(d)})
  IN  [vol EXCEPT !.files       = Without(@, gone),
                  !.fileOrigins = Without(@, gone),
                  !.dirs        = IF gone = {} THEN kept
                                  ELSE DecrementAncestors(kept, path, Cardinality(gone))]

RemoveDirIfPresent(vol, path) ==
  IF path \in DOMAIN vol.dirs THEN RemoveDir(vol, path) ELSE vol

\* Mutant: the source keeps its origin.
MoveFileCopyingOrigin(vol, from, to) ==
  LET known == from \in DOMAIN vol.files
      meta == [path |-> to, blob |-> IF known THEN vol.files[from].blob ELSE NoBlob]
  IN  [vol EXCEPT
         !.files       = Put(Without(@, {from}), to, meta),
         !.fileOrigins = IF from \in DOMAIN @ THEN Put(@, to, @[from]) ELSE @,
         !.dirs        = CountInAncestors(DecrementAncestors(@, from, 1), to, 1)]

\* The source may have gone with the target it lay in: then the new entry has
\* a path and nothing else, and no origin.
MoveFile(vol, from, to) ==
  LET known == from \in DOMAIN vol.files
      meta == [path |-> to, blob |-> IF known THEN vol.files[from].blob ELSE NoBlob]
      unmoved == Without(vol.fileOrigins, {from})
  IN  [vol EXCEPT
         !.files       = Put(Without(@, {from}), to, meta),
         !.fileOrigins = IF from \in DOMAIN @ THEN Put(unmoved, to, @[from]) ELSE unmoved,
         !.dirs        = CountInAncestors(DecrementAncestors(@, from, 1), to, 1)]

\* Mutant: a file moved with its directory keeps the path in its metadata.
MoveDirKeepingPaths(vol, from, to) ==
  LET files == {p \in DOMAIN vol.files : IsSelfOrDescendant(p, from)}
      dirs  == {d \in DOMAIN vol.dirs : IsSelfOrDescendant(d, from)}
      moved(map, keys) ==
        [q \in {RewritePrefix(k, from, to) : k \in keys} |->
           map[CHOOSE k \in keys : RewritePrefix(k, from, to) = q]]
      left == DecrementAncestors(Without(vol.dirs, dirs), from, Cardinality(files))
  IN  [vol EXCEPT
         !.files       = PutAll(Without(@, files), moved(@, files)),
         !.fileOrigins = PutAll(Without(@, files), moved(@, files)),
         !.dirs = CountInAncestors(PutAll(left, moved(@, dirs)), to, Cardinality(files))]

\* The new path of a moved file is computed from the path in its metadata.
MoveDir(vol, from, to) ==
  LET files == {p \in DOMAIN vol.files : IsSelfOrDescendant(p, from)}
      dirs  == {d \in DOMAIN vol.dirs : IsSelfOrDescendant(d, from)}
      target(p) == RewritePrefix(vol.files[p].path, from, to)
      source(q) == CHOOSE p \in files : target(p) = q
      homed(d)  == CHOOSE e \in dirs : RewritePrefix(e, from, to) = d
      targets   == {target(p) : p \in files}
      owned     == {q \in targets : source(q) \in DOMAIN vol.fileOrigins}
      left == Without(vol.dirs, dirs)
      uncounted == IF files = {} THEN left
                   ELSE DecrementAncestors(left, from, Cardinality(files))
      moved == [d \in {RewritePrefix(e, from, to) : e \in dirs} |-> vol.dirs[homed(d)]]
  IN  [vol EXCEPT
         !.files = PutAll(Without(@, files),
                     [q \in targets |-> [vol.files[source(q)] EXCEPT !.path = q]]),
         !.fileOrigins = PutAll(Without(@, files),
                     [q \in owned |-> vol.fileOrigins[source(q)]]),
         !.dirs = CountInAncestors(PutAll(uncounted, moved), to, Cardinality(files))]

-----------------------------------------------------------------------------
(* Events: one operator per verb; `id` is the event's tiebreak *)

SetHeads(vol, paths, id) ==
  [vol EXCEPT !.entryHeads = PutAll(@, [p \in paths |-> id])]

\* Mutant: an overwritten file keeps the origin of its first content.
CreateFileKeepingOrigin(vol, id, path, blob) ==
  LET cleared == RemoveDirIfPresent(RemoveFiles(vol, AncestorPaths(path)), path)
      written == [cleared EXCEPT
                    !.files       = Put(@, path, [path |-> path, blob |-> blob]),
                    !.fileOrigins = IF path \in DOMAIN @ THEN @ ELSE Put(@, path, id),
                    !.dirs = IF path \in DOMAIN cleared.files THEN @
                             ELSE CountInAncestors(@, path, 1)]
  IN  SetHeads(written, {path}, id)

\* Mutant: a live file above the new one stays.
CreateFileUnderFile(vol, id, path, blob) ==
  LET cleared == RemoveDirIfPresent(vol, path)
      written == [cleared EXCEPT
                    !.files       = Put(@, path, [path |-> path, blob |-> blob]),
                    !.fileOrigins = Put(@, path, id),
                    !.dirs = IF path \in DOMAIN cleared.files THEN @
                             ELSE CountInAncestors(@, path, 1)]
  IN  SetHeads(written, {path}, id)

ApplyCreateFile(vol, id, path, blob) ==
  LET cleared == RemoveDirIfPresent(RemoveFiles(vol, AncestorPaths(path)), path)
      written == [cleared EXCEPT
                    !.files       = Put(@, path, [path |-> path, blob |-> blob]),
                    !.fileOrigins = Put(@, path, id),
                    !.dirs = IF path \in DOMAIN cleared.files THEN @
                             ELSE CountInAncestors(@, path, 1)]
  IN  SetHeads(written, {path}, id)

\* A directory that is there already has been removed, contents and all, by
\* the time the chain is built: its last segment is always new.
ApplyMkdir(vol, id, path) ==
  LET cleared == RemoveDirIfPresent(RemoveFiles(vol, PathChain(path)), path)
      built == [cleared EXCEPT !.dirs =
                  [d \in DOMAIN @ \cup PathChain(path) |->
                     IF d = path THEN [explicit |-> TRUE, fileCount |-> 0]
                     ELSE IF d \in DOMAIN @ THEN @[d]
                     ELSE [explicit |-> FALSE, fileCount |-> 0]]]
  IN  SetHeads(built, {path}, id)

\* Deleting what is not there only leaves its mark on the path.
ApplyDelete(vol, id, path) ==
  SetHeads(IF path \in DOMAIN vol.files THEN RemoveFiles(vol, {path})
           ELSE RemoveDirIfPresent(vol, path), {path}, id)

RenameReject(vol, from, to) ==
  IF from \notin DOMAIN vol.files \cup DOMAIN vol.dirs THEN "source-missing"
  ELSE IF from \notin DOMAIN vol.files /\ IsStrictDescendant(to, from)
       THEN "rename-into-self"
  ELSE "none"

\* Mutant: the target makes way before the rename is validated.
RenameClearingFirst(vol, id, from, to) ==
  LET isFile  == from \in DOMAIN vol.files
      freed   == RemoveFiles(vol, AncestorPaths(to) \ (IF isFile THEN {from} ELSE {}))
      cleared == RemoveDirIfPresent(RemoveFiles(freed, {to}), to)
      moved   == IF isFile THEN MoveFile(cleared, from, to) ELSE MoveDir(cleared, from, to)
  IN  IF from = to THEN vol
      ELSE IF RenameReject(vol, from, to) # "none" THEN cleared
      ELSE SetHeads(moved, {from, to}, id)

\* Mutant: the moved file itself is not spared among the ancestors.
RenameFreeingSource(vol, id, from, to) ==
  LET isFile  == from \in DOMAIN vol.files
      cleared == RemoveDirIfPresent(RemoveFiles(vol, PathChain(to)), to)
      moved   == IF isFile THEN MoveFile(cleared, from, to) ELSE MoveDir(cleared, from, to)
  IN  IF from = to \/ RenameReject(vol, from, to) # "none" THEN vol
      ELSE SetHeads(moved, {from, to}, id)

\* Mutant: a directory at the target stays and the moved one is merged in.
RenameMergingDirs(vol, id, from, to) ==
  LET isFile  == from \in DOMAIN vol.files
      cleared == RemoveFiles(vol, PathChain(to) \ (IF isFile THEN {from} ELSE {}))
      moved   == IF isFile THEN MoveFile(cleared, from, to) ELSE MoveDir(cleared, from, to)
  IN  IF from = to \/ RenameReject(vol, from, to) # "none" THEN vol
      ELSE SetHeads(moved, {from, to}, id)

ApplyRename(vol, id, from, to) ==
  LET isFile  == from \in DOMAIN vol.files
      freed   == RemoveFiles(vol, AncestorPaths(to) \ (IF isFile THEN {from} ELSE {}))
      cleared == RemoveDirIfPresent(RemoveFiles(freed, {to}), to)
      moved   == IF isFile THEN MoveFile(cleared, from, to) ELSE MoveDir(cleared, from, to)
  IN  IF from = to \/ RenameReject(vol, from, to) # "none" THEN vol
      ELSE SetHeads(moved, {from, to}, id)

-----------------------------------------------------------------------------
(* Replay *)

Events ==
       [kind : {"CREATE_FILE"}, path : Paths, blob : Blobs]
  \cup [kind : {"MKDIR", "DELETE"}, path : Paths]
  \cup [kind : {"RENAME"}, path : Paths, to : Paths]
  \cup [kind : {"OTHER"}, verb : NonFileVerbs \cup UnknownVerbs]

\* What an event does to the maps.
Apply(vol, id, event) ==
  CASE event.kind = "CREATE_FILE" -> ApplyCreateFile(vol, id, event.path, event.blob)
    [] event.kind = "MKDIR"       -> ApplyMkdir(vol, id, event.path)
    [] event.kind = "DELETE"      -> ApplyDelete(vol, id, event.path)
    [] event.kind = "RENAME"      -> ApplyRename(vol, id, event.path, event.to)
    [] OTHER                      -> vol

\* What it adds to the rows: a rejected rename, and an unknown verb the first
\* time the replay meets it.
Record(rows, vol, id, event) ==
  LET reject ==
        CASE event.kind = "RENAME" /\ event.path # event.to ->
               RenameReject(vol, event.path, event.to)
          [] event.kind = "OTHER" /\ event.verb \notin NonFileVerbs \cup rows.warned ->
               "unknown"
          [] OTHER -> "none"
  IN  IF reject = "none" THEN rows
      ELSE [shadows |-> Append(rows.shadows, [tiebreak |-> id, reject |-> reject]),
            warned |-> IF reject = "unknown" THEN rows.warned \cup {event.verb}
                       ELSE rows.warned]

\* Mutant: only the files right in a directory are counted.
BuildDirInfoOfChildren(vol) ==
  [d \in DOMAIN vol.dirs \cup UNION {AncestorPaths(p) : p \in DOMAIN vol.files} |->
     [explicit  |-> d \in DOMAIN vol.dirs /\ vol.dirs[d].explicit,
      fileCount |-> Cardinality({p \in DOMAIN vol.files :
                                   d \in AncestorPaths(p) /\ Len(p) = Len(d) + 1})]]

\* The directory table as materializeIncremental recovers it from a snapshot,
\* which carries no counts.
BuildDirInfoFromSnapshot(vol) ==
  [d \in DOMAIN vol.dirs \cup UNION {AncestorPaths(p) : p \in DOMAIN vol.files} |->
     [explicit  |-> d \in DOMAIN vol.dirs /\ vol.dirs[d].explicit,
      fileCount |-> Cardinality({p \in DOMAIN vol.files : d \in AncestorPaths(p)})]]

\* What materializeIncremental starts from: the snapshot's maps with fresh
\* counts, and its shadows with no verb warned about yet.
ResumeFrom(vol) == [vol EXCEPT !.dirs = BuildDirInfoFromSnapshot(vol)]

ResumeRows(rows) == [rows EXCEPT !.warned = {}]

=============================================================================
