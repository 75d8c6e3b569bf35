---------------------------- MODULE VolumeService ----------------------------
(***************************************************************************)
(* What the calls of the file service do to a volume (fileService.ts), in  *)
(* terms of the contexts they are answered from (fileEmit.ts,              *)
(* filesProjector.ts).  A context is a record of                           *)
(*   entries  the replayed log, in order                                   *)
(*   fs       the volume it materializes to                                *)
(*   keys     path |-> the wrapped key of the file's block                 *)
(* An entry of the log also carries its event, its lineage (the events its *)
(* visible refs name as superseded) and who wrote it.  A CREATE_FILE has a *)
(* block and a wrapped key (FileKeys); a call that writes a file writes a  *)
(* new text, named after the event.                                        *)
(*                                                                         *)
(* Calls run one at a time: how their steps interleave is the subject of   *)
(* ReplayCache.  Another device writes to the same storage, on any part of *)
(* the log it may have replayed.                                           *)
(***************************************************************************)
EXTENDS FileMaterializer, ReplayOrder, FileKeys

CONSTANTS
  Volume,           \* the volume
  FirstLogs,        \* the logs that may be in the storage at first
  ServicePaths,     \* the paths the calls are about
  Times,            \* what clocks may show
  MaxEvents,        \* bound: events written, which are 1 .. MaxEvents
  MaxOnFirst,       \* bound: events written on a log that is not empty at first
  MaxOtherEvents,   \* bound: events other programs write
  NoTail            \* replayTail has no context

ASSUME ServicePathsArePaths == ServicePaths \subseteq Paths
ASSUME TimesAreNumbers == Times \subseteq Nat
ASSUME BoundsAreNat == {MaxEvents, MaxOnFirst, MaxOtherEvents} \subseteq Nat
ASSUME FirstLogsAreOlder ==
  \A log \in FirstLogs :
    /\ log \in Seq(ToSet(log)) /\ IsInjective(log)
    /\ \A i \in DOMAIN log :
         /\ log[i].by = "older" /\ log[i].lineage = {}
         /\ log[i].hash \in Nat \ 1 .. MaxEvents /\ log[i].ts \in Nat
         /\ log[i].verb \in FileVerbs /\ log[i].verb = log[i].event.kind
         /\ \A j \in DOMAIN log : log[j].hash = log[i].hash => j = i
         /\ ParentOf(log[i]) # NoRef =>
              \E j \in DOMAIN log : j < i /\ log[j].hash = ParentOf(log[i])

\* What older programs wrote can be read.
ASSUME FirstFilesRead ==
  \A log \in FirstLogs : \A i \in DOMAIN log :
    LET event == log[i].event
    IN  /\ event.path \in Paths
        /\ event.kind = "RENAME" => event.to \in Paths
        /\ event.kind = "CREATE_FILE" =>
             event.blob # NoBlob /\ Opens(KeyOfFile(Volume, event.wrapped), event.blob)

VARIABLES
  stored,       \* the channel's log in the storage
  projected,    \* projection.state()
  replayTail,   \* the context ahead of the projection, or NoTail
  dirty,        \* is the volume in the dirty set?
  unannounced   \* history: events in the storage the service was not told of

vars == <<stored, projected, replayTail, dirty, unannounced>>

-----------------------------------------------------------------------------
(* Contexts *)

\* One event after the other, from a volume.
MaterializeFrom(fs, entries) ==
  FoldLeft(LAMBDA vol, e : Apply(vol, e.hash, e.event), fs, entries)

Materialize(entries) == MaterializeFrom(EmptyVolume, entries)

MaterializeIncremental(fs, entries) == MaterializeFrom(ResumeFrom(fs), entries)

\* Path |-> the key in the CREATE_FILE the live content comes from.
LiveEncryptedKeys(entries, fs) ==
  LET keyOf(hash) == entries[CHOOSE i \in DOMAIN entries : entries[i].hash = hash].event.wrapped
  IN  [p \in {p \in DOMAIN fs.fileOrigins : fs.fileOrigins[p] \in HashesOf(entries)} |->
         keyOf(fs.fileOrigins[p])]

ContextOf(entries, fs) ==
  [entries |-> entries, fs |-> fs, keys |-> LiveEncryptedKeys(entries, fs)]

InitialContext == ContextOf(<<>>, EmptyVolume)

\* The projector's reduce: `fs` is the volume of the entries in front of `tail`.
ReduceContext(kept, fs, tail) ==
  ContextOf(kept \o tail,
            MaterializeFrom(IF kept = <<>> THEN EmptyVolume ELSE ResumeFrom(fs), tail))

\* Mutant: the state at hand is taken for that of the kept entries.
IngestOnState(ctx, more) ==
  LET merged == Reorder(ctx.entries, more)
      tail == SubSeq(merged.keys, merged.insertAt + 1, Len(merged.keys))
  IN  ContextOf(merged.keys, MaterializeIncremental(ctx.fs, tail))

\* Merge entries into the projection: the replay in front of the first entry
\* that moved is kept, or done again if it is not the state at hand.
Ingest(ctx, more) ==
  LET merged == Reorder(ctx.entries, more)
      kept == SubSeq(merged.keys, 1, merged.insertAt)
      fs   == IF kept = ctx.entries THEN ctx.fs ELSE Materialize(kept)
  IN  ReduceContext(kept, fs, SubSeq(merged.keys, merged.insertAt + 1, Len(merged.keys)))

\* The volume of `entries`, given the context of some of them.
Rematerialize(base, entries) ==
  IF entries = base.entries THEN base.fs
  ELSE IF HasOrderedPrefix(base.entries, entries)
  THEN MaterializeIncremental(base.fs,
         SubSeq(entries, Len(base.entries) + 1, Len(entries)))
  ELSE Materialize(entries)

\* Mutant: only the new event's key is put in.
ExtendWithOwnKey(base, entry) ==
  LET entries == OrderEventLogEntries(Append(base.entries, entry))
  IN  [entries |-> entries, fs |-> Rematerialize(base, entries),
       keys |-> IF entry.event.kind = "CREATE_FILE"
                THEN Put(base.keys, entry.event.path, entry.event.wrapped) ELSE base.keys]

\* Keys are put in and never taken out; those of live files are renewed.
ExtendContext(base, entry) ==
  LET entries == OrderEventLogEntries(Append(base.entries, entry))
      fs      == Rematerialize(base, entries)
      own     == IF entry.event.kind = "CREATE_FILE"
                 THEN Put(base.keys, entry.event.path, entry.event.wrapped) ELSE base.keys
  IN  IF entry.hash \in HashesOf(base.entries) THEN base
      ELSE [entries |-> entries, fs |-> fs,
            keys |-> PutAll(own, LiveEncryptedKeys(entries, fs))]

\* A context read from the storage with an earlier one as seed.
LoadContext(seed, log) ==
  LET entries == LoadChannelEntries(seed.entries, log)
  IN  ContextOf(entries, Rematerialize(seed, entries))

\* The volume as it was after its n-th event.
ReplayContextThrough(ctx, n) ==
  ContextOf(SubSeq(ctx.entries, 1, n), Materialize(SubSeq(ctx.entries, 1, n)))

-----------------------------------------------------------------------------
(* Reading *)

\* The text of the file at a path of a context.
GetFileByPath(ctx, path) ==
  IF path \in DOMAIN ctx.fs.files \cap DOMAIN ctx.keys /\ ctx.fs.files[path].blob # NoBlob
  THEN DecryptFileForVolume(Volume, ctx.fs.files[path].blob, ctx.keys[path])
  ELSE Failed

\* What a read of a block may answer: the first file that has it is read.
GetFile(ctx, blob) ==
  {GetFileByPath(ctx, p) : p \in {p \in DOMAIN ctx.fs.files : ctx.fs.files[p].blob = blob}}

\* The content of a CREATE_FILE, whatever has become of its file since; only
\* for files with keys of their own.
RetrieveData(event) ==
  Unseal(event.blob, UnwrapFileKeyForVolume(Volume, event.wrapped))

-----------------------------------------------------------------------------
(* Emitting *)

\* The event a path's visible ref names as superseded.
LineageAtPath(fs, path) ==
  IF path \in DOMAIN fs.entryHeads THEN {fs.entryHeads[path]} ELSE {}

\* What an event written on `ctx` supersedes.
LineageOf(event, ctx) ==
  LineageAtPath(ctx.fs, event.path)
    \cup (IF event.kind = "RENAME" THEN LineageAtPath(ctx.fs, event.to) ELSE {})

EntryOn(ctx, event, ts, hash, by) ==
  [hash |-> hash, by |-> by, verb |-> event.kind, ref |-> FirstRef(event.kind, ctx.entries),
   ts |-> ts, event |-> event, lineage |-> LineageOf(event, ctx)]

\* How many of the events in the storage are whose.
WrittenBy(whose) == Cardinality({i \in DOMAIN stored : stored[i].by = whose})

\* How many more events may be written.
Room ==
  LET older == WrittenBy("older")
  IN  (IF older = 0 THEN MaxEvents ELSE MaxOnFirst) + older - Len(stored)

\* Hashes of events not yet written.  They only break ties between concurrent
\* events: those the service writes one after the other take them in order.
FreshHashes == IF Room > 0 THEN (1 .. MaxEvents) \ HashesOf(stored) ELSE {}

\* The event of a file that is written anew: a key and a text of its own.
CreateFile(path, hash) ==
  LET new == EncryptFileForVolume(Volume, hash, hash)
  IN  [kind |-> "CREATE_FILE", path |-> path, blob |-> new.blob, wrapped |-> new.wrapped]

-----------------------------------------------------------------------------
(* The service *)

Init ==
  /\ stored \in FirstLogs
  /\ projected = Ingest(InitialContext, stored)
  /\ replayTail = NoTail
  /\ dirty = FALSE
  /\ unannounced = {}

\* The projection after the catch-up a call begins with.
CaughtUp ==
  IF dirty THEN Ingest(projected, Unknown(projected.entries, stored)) ELSE projected

\* What a call is answered from.
Served == IF replayTail = NoTail THEN CaughtUp ELSE replayTail

\* A listing or a read of a file.
Read ==
  /\ dirty
  /\ dirty' = FALSE
  /\ projected' = CaughtUp
  /\ UNCHANGED <<stored, replayTail, unannounced>>

\* The event is stored, the tail extended, the projection has it too.
CommitReplayEntry(base, entry) ==
  /\ stored' = Append(stored, entry)
  /\ replayTail' = ExtendContext(base, entry)
  /\ \E ctx \in {CaughtUp} : projected' = Ingest(ctx, <<entry>>)
  /\ dirty' = FALSE
  /\ UNCHANGED unannounced

\* The service opens the volume in a new process, whose storage then holds
\* `log`: from nothing, or from the snapshot its projection left behind.
OpenAnew(log) ==
  /\ stored' = log
  /\ \E kept \in {InitialContext, projected} :
       projected' = Ingest(kept, Unknown(kept.entries, log))
  /\ replayTail' = NoTail
  /\ dirty' = FALSE
  /\ unannounced' = {}

Restart == OpenAnew(stored)

\* What a mutator writes on the context `base` it is served.
EntryOfCall(base, event, now, hash) ==
  EntryOn(base, event, EventTime(event.kind, now, base.entries), hash, "service")

\* The whole of a mutator: context, event, commit.
Write(event, now, hash) ==
  \E base \in {Served} : \E entry \in {EntryOfCall(base, event, now, hash)} :
    CommitReplayEntry(base, entry)

\* The process ends when the event of a call is stored, before the tail or the
\* projection knows of it.
WriteCutShort(event, now, hash) ==
  OpenAnew(Append(stored, EntryOfCall(Served, event, now, hash)))

\* The events of addFile, mkdir, deletePath and rename.
AddFile(path, hash) == CreateFile(path, hash)

Mkdir(path) == [kind |-> "MKDIR", path |-> path]

DeletePath(path) == [kind |-> "DELETE", path |-> path]

Rename(from, to) == [kind |-> "RENAME", path |-> from, to |-> to]

-----------------------------------------------------------------------------
(* Other writers *)

\* What is at some places of a sequence, in its order.
Picked(seq, places) ==
  LET picked[n \in 0 .. Len(seq)] ==
        IF n = 0 THEN <<>>
        ELSE IF n \in places THEN Append(picked[n - 1], seq[n]) ELSE picked[n - 1]
  IN  picked[Len(seq)]

\* The logs a device can have replayed: with every event its parent.
PeerLogs ==
  LET logs == {Picked(stored, places) : places \in SUBSET DOMAIN stored}
  IN  {log \in logs : \A i \in DOMAIN log :
         ParentOf(log[i]) # NoRef => ParentOf(log[i]) \in HashesOf(log)}

\* An event written on a context that is not the service's reaches the storage.
WriteUnannounced(contexts, event, now, hash) ==
  \E ctx \in contexts :
    /\ WrittenBy("other") < MaxOtherEvents
    /\ stored' = Append(stored, EntryOn(ctx, event, EventTime(event.kind, now, ctx.entries),
                                        hash, "other"))
    /\ unannounced' = unannounced \cup {hash}
    /\ UNCHANGED <<projected, replayTail, dirty>>

PeerWrite(log, event, now, hash) ==
  WriteUnannounced({ReduceContext(<<>>, EmptyVolume, OrderFileKeys(log))}, event, now, hash)

\* storeData and deletePath read the storage themselves and tell nobody.
StoreData(path, now, hash) ==
  WriteUnannounced({LoadContext(InitialContext, stored)}, CreateFile(path, hash), now, hash)

DeleteDirectly(path, now, hash) ==
  WriteUnannounced({LoadContext(InitialContext, stored)},
                   [kind |-> "DELETE", path |-> path], now, hash)

MarkReplayStale ==
  /\ dirty' = TRUE
  /\ replayTail' = NoTail
  /\ unannounced' = {}
  /\ UNCHANGED <<stored, projected>>

\* The events other devices write, and those of the service.
PeerEvents(hash) ==
       {CreateFile(p, hash) : p \in ServicePaths}
  \cup {DeletePath(p) : p \in ServicePaths}
  \cup UNION {{Rename(p, q) : q \in ServicePaths \ {p}} : p \in ServicePaths}

LocalEvents(hash) == PeerEvents(hash) \cup {Mkdir(p) : p \in ServicePaths}

Next ==
  \/ \E now \in Times, hash \in FreshHashes :
       \/ /\ hash = Min(FreshHashes)
          /\ \E event \in LocalEvents(hash) :
               Write(event, now, hash) \/ WriteCutShort(event, now, hash)
       \/ \E path \in ServicePaths :
            StoreData(path, now, hash) \/ DeleteDirectly(path, now, hash)
       \/ \E log \in PeerLogs, event \in PeerEvents(hash) : PeerWrite(log, event, now, hash)
  \/ Read
  \/ MarkReplayStale
  \/ Restart

Spec == Init /\ [][Next]_vars

-----------------------------------------------------------------------------
(* Properties *)

Contexts == {projected} \cup (IF replayTail = NoTail THEN {} ELSE {replayTail})

TypeOK ==
  /\ IsInjective(stored)
  /\ unannounced \subseteq HashesOf(stored)
  /\ dirty => replayTail = NoTail
  /\ \A ctx \in Contexts :
       /\ ToSet(ctx.entries) \subseteq ToSet(stored)
       /\ IsInjective(ctx.entries)
       /\ DOMAIN ctx.fs.fileOrigins \subseteq DOMAIN ctx.keys

\* Whatever was kept, extended or done again on the way, a context holds the
\* volume of its log: the volume a view of its last event shows.
ContextsAreReplays ==
  \A ctx \in Contexts :
    ctx.fs = ReplayContextThrough(ctx, Len(ctx.entries)).fs

\* Every live file of every context, past views included, reads as the text
\* it was written with: by its path, by its block and from the event it comes
\* from, also after the file or a directory it is in was moved, overwritten,
\* imported under another name, given a key it had not, or put elsewhere in the
\* order by a late event.
FilesReadAsWritten ==
  \A ctx \in Contexts :
    \A c \in {ctx} \cup {ReplayContextThrough(ctx, n) : n \in 1 .. Len(ctx.entries) - 1} :
      \A p \in DOMAIN c.fs.fileOrigins :
        LET blob   == c.fs.files[p].blob
            origin == CHOOSE e \in ToSet(c.entries) : e.hash = c.fs.fileOrigins[p]
        IN  /\ GetFileByPath(c, p) = blob.holds
            /\ GetFile(c, blob) = {blob.holds}
            /\ c.keys[p] # NoKey => RetrieveData(origin.event) = blob.holds

\* When the service was told of all events, or began after them, what it
\* serves is what a reader of the storage finds there: caches are not
\* observable, and a process that ended half way through a call left nothing
\* out.
ServedIsStorage ==
  unannounced = {} => Served.fs = LoadContext(InitialContext, stored).fs

\* An event replays after the events its refs name as superseded, in every
\* context that has both.
SupersededReplaysFirst ==
  \A ctx \in Contexts : \A e \in ToSet(ctx.entries) : \A h \in e.lineage :
    Before(ctx.entries, h, e.hash)

\* A write has its effect on the volume its caller was served, whatever the
\* clocks and the other devices' events: nothing replays in between.
WriteActsOnServed ==
  [][replayTail' # NoTail /\ replayTail' # replayTail =>
       LET entry == stored'[Len(stored')]
       IN  replayTail'.fs = Apply(Served.fs, entry.hash, entry.event)]_vars

=============================================================================
