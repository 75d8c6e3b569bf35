------------------------------ MODULE References ------------------------------
(***************************************************************************)
(* Files given from volume to volume by reference (fileReferenceCodec.ts,  *)
(* fileCommands.ts, and the exports and imports of fileService.ts).  A     *)
(* bundle names blocks and hands over their keys, wrapped for the volume   *)
(* they come from (the importer has its secret) or in capsules for the     *)
(* volume they go to.  Both are records                                    *)
(*   protocol  "source" or "recipient"                                     *)
(*   id        the volume of the bundle                                    *)
(*   items     [name, createdAt, id, blob, key]: key is the wrapped key or *)
(*             the capsule, id the volume the item says it is for          *)
(* An import and an export act on the log as the storage has it and do not *)
(* commit what they write to the service's context.                        *)
(***************************************************************************)
EXTENDS VolumeService

CONSTANTS
  PathLists,        \* the lists of paths an export is asked for
  ForeignBundles,   \* bundles made of other volumes, or by other programs
  CopyName(_, _),   \* a name and a number |-> the name of such a copy
  Neighbour         \* another volume

\* What the parsers look at before the records they make.
ASSUME PathListsArePaths == \A paths \in PathLists : paths \in Seq(Paths)
ASSUME ForeignBundlesAreBundles ==
  \A bundle \in ForeignBundles :
    /\ bundle \in [protocol : {"source", "recipient"}, id : {bundle.id}, items : {bundle.items}]
    /\ bundle.items \in Seq(ToSet(bundle.items))
    /\ \A item \in ToSet(bundle.items) :
         item \in [name : Paths, createdAt : Nat, id : {item.id}, blob : {item.blob},
                   key : {item.key}]

\* The log as an import or an export reads it.
LoadEventLog == OrderEventLogEntries(stored)

\* Mutant: the key of a file is looked up by the path it was created at.
StoredFilesByPath(entries, fs) ==
  LET creations(p) == {i \in DOMAIN entries :
                         entries[i].event.kind = "CREATE_FILE" /\ entries[i].event.path = p}
  IN  [p \in {p \in DOMAIN fs.files : creations(p) # {}} |->
         [blob      |-> fs.files[p].blob,
          wrapped   |-> entries[Max(creations(p))].event.wrapped,
          createdAt |-> entries[Max(creations(p))].ts]]

\* The files a volume lists: live, each with the key and the time of the
\* CREATE_FILE its content comes from.
StoredFiles(entries, fs) ==
  LET listed == {p \in DOMAIN fs.files \cap DOMAIN fs.fileOrigins :
                   fs.fileOrigins[p] \in HashesOf(entries)}
      origin(p) == entries[CHOOSE i \in DOMAIN entries : entries[i].hash = fs.fileOrigins[p]]
  IN  [p \in listed |-> [blob      |-> fs.files[p].blob,
                         wrapped   |-> origin(p).event.wrapped,
                         createdAt |-> origin(p).ts]]

\* The entries of new files written one after the other on a loaded log: each
\* on the one before, the first on the log's head.
AppendCreateEvents(entries, fs, new, hashes, by) ==
  [n \in DOMAIN new |->
     [hash |-> hashes[n], by |-> by, verb |-> "CREATE_FILE",
      ref |-> IF n = 1 THEN FirstRef("CREATE_FILE", entries) ELSE hashes[n - 1],
      ts |-> new[n].ts,
      event |-> [kind |-> "CREATE_FILE", path |-> new[n].path,
                 blob |-> new[n].blob, wrapped |-> new[n].wrapped],
      lineage |-> LineageAtPath(fs, new[n].path)]]

-----------------------------------------------------------------------------
(* Bundles *)

DedupeOrderedFilenames(paths) ==
  Picked(paths, {n \in DOMAIN paths : \A i \in 1 .. n - 1 : paths[i] # paths[n]})

OwnId == VolumeIdFromPublicKey(Volume)

SourceBundle(paths, files) ==
  [protocol |-> "source", id |-> OwnId,
   items |-> [n \in DOMAIN paths |->
     LET file == files[paths[n]]
     IN  [name |-> paths[n], createdAt |-> file.createdAt, id |-> OwnId,
          blob |-> file.blob, key |-> file.wrapped]]]

RecipientBundle(paths, files, recipientId) ==
  [protocol |-> "recipient", id |-> LowerCase(recipientId),
   items |-> [n \in DOMAIN paths |->
     LET file    == files[paths[n]]
         capsule == CreateRecipientKeyCapsule(UnwrapFileKeyForVolume(Volume, file.wrapped),
                                              recipientId, file.blob)
     IN  [name |-> paths[n], createdAt |-> file.createdAt, id |-> capsule.r,
          blob |-> file.blob, key |-> capsule.w]]]

\* An item is let in with a key, its id in lower case.
ParseReferenceItem(item) ==
  IF item.key = NoKey THEN Failed ELSE [item EXCEPT !.id = LowerCase(@)]

\* A bundle is let in with items of its own volume and no two of a name.
ParseReferenceBundle(bundle) ==
  LET id    == LowerCase(bundle.id)
      items == [n \in DOMAIN bundle.items |-> ParseReferenceItem(bundle.items[n])]
      names == {bundle.items[n].name : n \in DOMAIN items}
  IN  IF /\ items # <<>>
         /\ Cardinality(names) = Len(items)
         /\ \A n \in DOMAIN items : items[n] # Failed /\ items[n].id = id
      THEN [bundle EXCEPT !.id = id, !.items = items] ELSE Failed

\* The key an item of a parsed bundle hands over: the source's volume opens
\* the one, the recipient's the other.
ItemKey(bundle, item) ==
  IF bundle.protocol = "source"
  THEN UnwrapFileKeyForVolume(bundle.id.volume, item.key)
  ELSE UnwrapRecipientKeyCapsule(bundle.id.volume, bundle.id, item.blob, [w |-> item.key])

\* Who makes a bundle has the blocks of its items, and so the keys that fit:
\* nobody looks at them before a file is read.
ASSUME ForeignKeysFit ==
  \A given \in ForeignBundles :
    LET bundle == ParseReferenceBundle(given)
    IN  bundle # Failed =>
          \A item \in ToSet(bundle.items) :
            ItemKey(bundle, item) # Failed =>
              item.blob # NoBlob /\ Opens(ItemKey(bundle, item), item.blob)

-----------------------------------------------------------------------------
(* Exporting *)

\* The legacy files among `paths`, up to the first path that is no file.
ToUpgrade(paths, files) ==
  Picked(paths, {n \in DOMAIN paths : /\ \A i \in 1 .. n : paths[i] \in DOMAIN files
                                      /\ files[paths[n]].wrapped = NoKey})

\* Mutant: only the block is written anew.
UpgradedWithoutKey(legacy, files, now, hashes) ==
  LET text(n)  == DecryptFileForVolume(Volume, files[legacy[n]].blob, NoKey)
      anew(n)  == EncryptFileForVolume(Volume, text(n), hashes[n])
      earliest == Max({now} \cup {files[p].createdAt + 1 : p \in DOMAIN files})
  IN  [n \in DOMAIN legacy |->
         [path |-> legacy[n], blob |-> anew(n).blob, wrapped |-> files[legacy[n]].wrapped,
          ts |-> earliest + n - 1]]

\* They are encrypted anew, each with a key of its own, one after the other
\* and later than every file there is.
Upgraded(legacy, files, now, hashes) ==
  LET text(n)  == DecryptFileForVolume(Volume, files[legacy[n]].blob, NoKey)
      anew(n)  == EncryptFileForVolume(Volume, text(n), hashes[n])
      earliest == Max({now} \cup {files[p].createdAt + 1 : p \in DOMAIN files})
  IN  [n \in DOMAIN legacy |->
         [path |-> legacy[n], blob |-> anew(n).blob, wrapped |-> anew(n).wrapped,
          ts |-> earliest + n - 1]]

\* An export writes events only when a file has to be upgraded, and stops at a
\* path that is no file or a block that is not there.  It marks nothing.
UpgradeLegacyFilesForExport(paths, now, hashes, n) ==
  LET entries == LoadEventLog
      fs      == Materialize(entries)
      files   == StoredFiles(entries, fs)
      legacy  == ToUpgrade(DedupeOrderedFilenames(paths), files)
      new     == AppendCreateEvents(entries, fs, Upgraded(legacy, files, now, hashes),
                                    hashes, "upgrade")
  IN  /\ Len(legacy) = Len(hashes)
      /\ n \in DOMAIN hashes
      /\ stored' = stored \o SubSeq(new, 1, n)
      /\ unannounced' = unannounced \cup {hashes[i] : i \in 1 .. n}
      /\ UNCHANGED <<projected, replayTail, dirty>>

-----------------------------------------------------------------------------
(* Importing *)

\* Mutant: the requested name, free or not.
ResolveToRequested(path, taken) == path

\* The n-th copy of a file is beside it.
Candidate(path, n) ==
  IF n = 0 THEN path ELSE [path EXCEPT ![Len(path)] = CopyName(@, n)]

\* The first candidate that is not the path of a live file: one of so many.
ResolveImportedFilename(path, taken) ==
  Candidate(path, Min({n \in 0 .. Cardinality(taken) : Candidate(path, n) \notin taken}))

\* The names the items of a bundle get, each one taken for those after it.
ImportedNames(items, taken) ==
  LET names[n \in 0 .. Len(items)] ==
        IF n = 0 THEN <<>>
        ELSE Append(names[n - 1],
                    ResolveImportedFilename(items[n].name, taken \cup ToSet(names[n - 1])))
  IN  names[Len(items)]

\* When the n-th item is created: as early as the bundle says, but after the
\* item before it, the first at `earliest`.
ResolveImportedCreatedAt(items, earliest, n) ==
  LET t[i \in 0 .. n] ==
        IF i = 0 THEN earliest - 1 ELSE Max({items[i].createdAt, t[i - 1] + 1})
  IN  t[n]

\* What an import of a parsed bundle writes: the blocks as they are, with
\* their keys wrapped for this volume.
ImportedEntries(bundle, now, hashes) ==
  LET entries == LoadEventLog
      fs      == Materialize(entries)
      names   == ImportedNames(bundle.items, DOMAIN StoredFiles(entries, fs))
  IN  AppendCreateEvents(entries, fs,
        [n \in DOMAIN bundle.items |->
           [path |-> names[n], blob |-> bundle.items[n].blob,
            wrapped |-> WrapFileKeyForVolume(Volume, ItemKey(bundle, bundle.items[n])),
            ts |-> ResolveImportedCreatedAt(bundle.items, TimeAfter(now, entries), n)]],
        hashes, "service")

\* How many items can be opened before one that cannot.
Openable(bundle) ==
  LET shut == {n \in DOMAIN bundle.items : ItemKey(bundle, bundle.items[n]) = Failed}
  IN  IF shut = {} THEN Len(bundle.items) ELSE Min(shut) - 1

\* Mutant: the tail goes, but the projection is not marked.
ImportUnmarked(bundle, now, hashes) ==
  /\ Openable(bundle) = Len(bundle.items)
  /\ stored' = stored \o ImportedEntries(bundle, now, hashes)
  /\ replayTail' = NoTail
  /\ UNCHANGED <<projected, dirty, unannounced>>

\* The service does not commit what it imports: it marks itself stale.
ImportReferences(bundle, now, hashes) ==
  /\ Openable(bundle) = Len(bundle.items)
  /\ stored' = stored \o ImportedEntries(bundle, now, hashes)
  /\ dirty' = TRUE
  /\ replayTail' = NoTail
  /\ UNCHANGED <<projected, unannounced>>

\* An item cannot be opened, or its block is not there: those before it stay
\* written, and nothing is marked.
ImportFails(bundle, now, hashes, n) ==
  /\ n \in 1 .. Openable(bundle) /\ n < Len(bundle.items)
  /\ stored' = stored \o SubSeq(ImportedEntries(bundle, now, hashes), 1, n)
  /\ unannounced' = unannounced \cup {hashes[i] : i \in 1 .. n}
  /\ UNCHANGED <<projected, replayTail, dirty>>

-----------------------------------------------------------------------------
(* The service with references *)

\* The lists of paths an export can be asked for that are all files with keys
\* of their own.
ExportableLists(files) ==
  {paths \in {DedupeOrderedFilenames(list) : list \in PathLists} \ {<<>>} :
     \A n \in DOMAIN paths :
       paths[n] \in DOMAIN files /\ files[paths[n]].wrapped # NoKey}

\* The bundles the volume makes of its files, for itself too.
OwnBundles ==
  LET entries == LoadEventLog
      files   == StoredFiles(entries, Materialize(entries))
      lists   == ExportableLists(files)
  IN  {SourceBundle(paths, files) : paths \in lists}
        \cup {RecipientBundle(paths, files, OwnId) : paths \in lists}

Exchange(now, hashes) ==
  \/ \E list \in PathLists, n \in DOMAIN hashes :
       UpgradeLegacyFilesForExport(list, now, hashes, n)
  \/ \E bundle \in {ParseReferenceBundle(b) : b \in ForeignBundles \cup OwnBundles} \ {Failed} :
       /\ bundle.protocol = "recipient" => bundle.id = OwnId
       /\ Len(hashes) = Len(bundle.items)
       /\ \/ ImportReferences(bundle, now, hashes)
          \/ \E n \in DOMAIN hashes : ImportFails(bundle, now, hashes, n)

ReferencesNext ==
  \/ Next
  \/ \E now \in Times, k \in 1 .. Room :
       \E hashes \in {h \in [1 .. k -> FreshHashes] : IsInjective(h)} : Exchange(now, hashes)

ReferencesSpec == Init /\ [][ReferencesNext]_vars

-----------------------------------------------------------------------------
(* Properties *)

\* What a reader of the storage finds: path |-> text.
Texts(log) ==
  LET ctx == LoadContext(InitialContext, log)
  IN  [p \in DOMAIN ctx.fs.fileOrigins |-> GetFileByPath(ctx, p)]

\* A reference to a file opens, for whoever it is made for, to the text that a
\* reader of the volume finds at its path, whatever moves, overwrites, imports
\* and late events the file has been through; and the parsers let the bundle in.
BundlesOpen ==
  LET entries == LoadEventLog
      files == StoredFiles(entries, Materialize(entries))
      texts == Texts(stored)
      made(paths) == {SourceBundle(paths, files),
                      RecipientBundle(paths, files, VolumeIdFromPublicKey(Neighbour))}
  IN  \A paths \in ExportableLists(files) : \A bundle \in made(paths) :
        LET parsed == ParseReferenceBundle(bundle)
        IN  /\ parsed # Failed
            /\ \A n \in DOMAIN paths :
                 Unseal(parsed.items[n].blob, ItemKey(parsed, parsed.items[n])) = texts[paths[n]]

\* An export that gives files keys of their own changes no file that a reader
\* of the storage finds, and the files it has done can be exported, also when
\* it fails on the way and however far ahead other clocks were.
UpgradeKeepsContents ==
  [][LET new == SubSeq(stored', Len(stored) + 1, Len(stored'))
     IN  new # <<>> /\ new[1].by = "upgrade" =>
           /\ Texts(stored') = Texts(stored)
           /\ LET keys == LoadContext(InitialContext, stored').keys
              IN  \A i \in DOMAIN new : keys[new[i].event.path] # NoKey]_vars

\* An import adds its files beside those that are there, each with the text
\* that was referenced: when none of the names it chooses is a directory or
\* lies in a file, one that is there or one it adds, no file goes or changes.
ImportKeepsFiles ==
  [][LET new   == SubSeq(stored', Len(stored) + 1, Len(stored'))
         paths == {new[i].event.path : i \in DOMAIN new}
     IN  Len(new) > 1 /\ dirty' =>
           LET fs    == LoadContext(InitialContext, stored).fs
               texts == Texts(stored)
               after == Texts(stored')
           IN  /\ paths \cap DOMAIN fs.dirs = {}
               /\ \A p \in paths : AncestorPaths(p) \cap (DOMAIN fs.files \cup paths) = {}
               => /\ \A p \in DOMAIN texts : p \in DOMAIN after /\ after[p] = texts[p]
                  /\ \A i \in DOMAIN new :
                       after[new[i].event.path] = new[i].event.blob.holds]_vars

=============================================================================
