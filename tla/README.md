# Verification of nearbytes-files

TLA+ models of the FILES protocol library in `src/src/*.ts`, TLC runs that check
them on small instances, and TLAPS proofs, for every instance, about the materializer, the
replay order, the replay cache, the calls of the file service and the inbound refresh. Paths below are relative to the
repository root; `x.ts` alone is `src/src/x.ts`.

To check: `tlc -config <run>.cfg <module>.tla` for a row of the table of runs,
`tlapm <module>Proofs.tla` for the proofs.

## 1. The system

A volume is a channel: an append-only set of signed events in a storage that
several programs and devices share through a sync engine (nearbytes-log,
nearbytes-sync; both outside this repository). nearbytes-files puts the FILES
events in a canonical order, replays them into a tree of files and directories,
caches the replay, and writes new events on what it has replayed.

| Component | Source | State | Operations | Hard part |
|---|---|---|---|---|
| Volume paths | `pathUtils.ts` | none | ancestors, descent, prefix rewriting | used by everything that moves a subtree |
| Materializer | `fileMaterializer.ts` | `files`, `directories` with counts, `fileOrigins`, `entryHeads`, shadow rows | CREATE_FILE, MKDIR, DELETE, RENAME, others; full and incremental replay | counts kept by hand; long sequences of overlapping subtrees; resuming from a snapshot without counts |
| Replay order | `fileLogEntries.ts` | none | two topological orders, observed head | events arrive in any order, clocks disagree, parents are missing |
| Projector | `filesProjector.ts` | retained entries, volume, keys | reorder, reduce | how much of an old replay may be kept |
| Emitting, loading | `fileEmit.ts` | contexts | refs and lineage of a new event, seeded loads, extension of a context, past views | the same volume by four different ways |
| Replay cache | `fileService.ts:329-424` | projection promise, `replayTail`, `dirty` | read, commit, mark stale, apply inbound event | concurrent calls between awaits; stale marks; failures half way |
| Calls of the service | `fileService.ts` | - | addFile, mkdir, deletePath, rename, reads by path and block, past views, restart on a snapshot | writing on a context that others overtake; a process that ends half way |
| Timeline | `fileService.ts:800-930`, `fileEmit.ts:150-235` | - | listing, delta after a cursor, selection of an event, the log through it | the log grows in its middle; rows are built and verified in two ways |
| Direct operations | `operations.ts` | - | storeData, deletePath, retrieveData | write past the cache |
| References | `fileCommands.ts`, `fileReferenceCodec.ts`, `fileService.ts:930-1180` | - | export (with the upgrade of legacy files), import | free names, several events per call, partial failure, keys handed from volume to volume |
| File keys | `fileCrypto.ts` | - | wrap, unwrap, capsules | a key that does not fit shows only when a file is read |
| Inbound refresh | `syncInboundRefresh.ts` | - | handlers of block and event notices | nobody waits for a handler; dropped notices; stale mark shared by handlers |
| Reactive volume | `reactiveVolume.ts`, `volume.ts` | shown volume, `refreshing` | refresh, applyMaterialized | results that end out of order |
| Others | ciphers, codecs, blob sizes, debug, entry points, scripts | - | - | data and output: no state |

Interaction: a call of the service reads a *context* (entries, volume, keys) from
the cache; the cache gets it from the projection engine, which lists the storage
and hands entries to the projector; the projector orders them and runs the
materializer. A mutator takes the head of its context into a new event, stores it,
extends the tail and has the projection ingest it. The sync engine writes to the
storage behind the cache's back and tells it by `markReplayStale` or
`applyInboundEvent`; the inbound refresh turns its notices into one of the two
and hands the result to the volume that subscribers watch.

What makes each part correct:

- paths, materializer: counts equal the files below; every file is reachable
  through directories; the origin of a file is the event whose content it holds;
  a rejected event has no effect; a replay on snapshots equals a full one; all of
  it together does what the verbs promise (but for two kinds of events, see 4);
- order and projector: same events, same replay; an event replays after what its
  writer had seen; what is kept of an old replay was in order;
- cache: read your writes; a stale mark and an inbound event are honoured; at rest
  the cache is the replay of the storage;
- service: contexts are replays of their logs, and every file in them reads as it
  was written; a write acts on what its caller was served; nothing is lost when the
  process ends; imports add files, upgrades change none, bundles open;
- timeline: a reader that continues from its cursor is never sent back and misses
  nothing that answers what it has; a past view shows what its event was written on;
- inbound refresh: no mark is left behind; what is stored when the notice of an event
  marks the volume is shown in the end.

`PROJECT.json` lists every hazard at its line with the properties aimed at it.

## 2. Modules

| Module | Models | Correspondence |
|---|---|---|
| `VolumePaths` | `pathUtils.ts` | A path is a nonempty sequence of names; `normalizeVolumePath` makes them of strings and is left out. |
| `FileMaterializer` | `fileMaterializer.ts` | One operator per `apply*`, `remove*`, `move*` function on a record of the four maps. Conditions in the order of the code; a rejection is a result with a reason (`RenameReject`). |
| `VolumeReplay` | `materialize`, `materializeIncremental` | State: log, full replay with its rows, and a second replay that resumes from its own snapshot at any time (`Resume`). One action per verb. |
| `FileTree` | what `fileEvents.ts` and `file-events-v0.5.md` promise of the verbs | Abstract: path to content; write, make directory (pins one that is there), remove, move (all of a subtree, wherever it goes). `VolumeReplay` says which verb is which step of it (`KeepsPromise`), and which two kinds of events are none (`BreaksPromise`). |
| `ReplayOrder` | `fileLogEntries.ts`, `reorder`, `loadChannelEntries`, refs and times of new events | Kahn's sort as a recursive function over the number of emitted entries; the two orders differ in what holds an entry back and in the time of an entry without one. |
| `ChannelReplay` | several devices on one channel | Publish, Deliver, CatchUp per device; composes `ReplayOrder`. |
| `ReplayCache` | `getReplayContext`, `commitReplayEntry`, `markReplayStale`, `applyInboundEvent` | One action per stretch between two awaits; a client is at a `pc`. `host` says what program the service is part of. |
| `Timeline` | rows, deltas, `findEventIndex`, past views | Operators on a replayed log: `GetTimeline`, `GetTimelineDelta`, `EntriesThrough`. |
| `ChannelTimeline` | readers of the timeline | What a reader of a device in `ChannelReplay` is told before and after more events arrive. |
| `FileKeys` | `fileCrypto.ts` | Symbolic: what is sealed with a key opens with that key. File keys, their wrapping for a volume, capsules for a recipient. |
| `VolumeService` | the calls of the service, direct operations, restart | Each call one step, but on the full contexts; composes `FileMaterializer`, `ReplayOrder` and `FileKeys`. A write may end with the process, after the event is stored (`WriteCutShort`); a process may begin from nothing or from the projection's snapshot. |
| `References` | exports, upgrades, imports, both bundle parsers | Extends `VolumeService` with the calls that write several events and do not commit them. |
| `InboundRefresh` | `syncInboundRefresh.ts`, `reactiveVolume.ts` | A handler per notice, from await to await; a replay is the set of its events. |
| `MC*` | | Constants of the runs. |
| `FileMaterializerProofs`, `VolumeReplayProofs` | | Proofs of the paths and the materializer, bottom up. |
| `InboundRefreshProofs` | | Proofs of the inbound refresh. |
| `ReplayOrderProofs`, `ChannelReplayProofs` | | Proofs of the replay order: what the sort computes, and what it makes of a channel and its timeline. |
| `VolumeServiceProofs`, `FileReadsProofs` | | Proofs of `VolumeService` and `References` together: what is stored and what contexts know of it; then what their volumes are. |
| `ReplayCacheProofs` | | Proofs of the replay cache: its type invariant in every host, and what it promises its callers in one that is told of no events and in one that makes one call at a time. |

The division of labour: `VolumeReplay` has every effect of an event and no
concurrency; `ChannelReplay` and `ChannelTimeline` have order across devices and no volumes;
`ReplayCache` has interleaving and no volumes; `VolumeService` and `References` have
volumes, order, keys and crashes and no interleaving inside a call. A property that needs two of these
is put in the module that has both.

`Mutant:` operators are plausible bugs of the definition after them. Replacing
the definition by one of them makes the property named in `PROJECT.json` fail.

## 3. Runs

| Run | Config | Result | Shows |
|---|---|---|---|
| materializer | `MCVolumeReplay.cfg` | holds | Logs of up to 4 events on 4 paths at up to three levels, 2 contents, resumes anywhere: counts, reachability, origins, metadata, snapshots, clean rejections, and every event the step of `FileTree` it promises, but for two kinds of them that are named (section 4). |
| rename_onto_ancestor | `MCRenameOntoAncestor.cfg` | **fails** | `LiveFilesHaveOrigins`: see divergence 1. |
| mkdir_promotes | `MCMkdirPromotes.cfg` | **fails** | `MkdirPromotes`: divergence 2. |
| channel | `MCChannel.cfg` | holds | 2 devices, 3 events of FILES and of identities, 2 clock values and no time, every delivery and batch: convergence, kept replays in order, and, seeded loads full; as long as parents arrive first, writes after all that was observed, the two orders equal, deltas that bring all successors, past views that only grow; while all rows have a time, deltas that continue, listing and delta in agreement. |
| missing_parent | `MCChannelMissingParent.cfg` | **fails** | `MissingParentIsPending`: divergence 3. |
| cache | `MCCache.cfg` | holds | 2 clients and 3 events in each of three hosts: writing alone with concurrent calls and failures; one call at a time beside announced writers; a reader told of inbound events. |
| cache_inbound_hidden | `MCCacheInbound.cfg` | **fails** | `InboundSeen` in a host that writes and is told of inbound events: divergence 4. |
| cache_stale_race | `MCCacheStaleRace.cfg` | **fails** | `StaleMarkHonoured` with two readers: divergence 5. |
| service | `MCVolumeService.cfg` | holds | 3 paths, on an empty log 3 events and on one of two legacy files 2 more: all calls, exports that upgrade, imports of bundles of either kind and of the volume's own with and without failure, direct operations and another device on any part of the log, restarts and crashes anywhere. |
| inbound | `MCInbound.cfg` | holds | 3 events (create, create, rename) and a block, handlers side by side with a refresh; two liveness properties: what a mark was set for is shown, a plain create whose notice finds it whole is projected. |
| inbound_not_projected | `MCInboundNotProjected.cfg` | **fails** | `NoticedEventIsProjected`: divergence 6. |
| inbound_out_of_order | `MCInboundOutOfOrder.cfg` | **fails** | `ViewCurrentAtRest`: divergence 7. |

### Bounds

- *materializer*: 4 events reach every pair of verbs after a setup of two, with a
  resume before each. The paths are a directory with two entries inside an
  implicit one, and a neighbour: several files leave an ancestor at once, a
  subtree can be moved into another, and moves reach paths deeper than any
  event names. The proofs remove these bounds.
- *channel*: 3 events already give a chain and a concurrent branch, a late
  parent and a foreign event between; hashes and times are chosen freely, so
  every order of ties occurs. One FILES verb stands for all, since nothing of the
  order looks at which it is; an identity record is the verb that has a row only
  with a time. Of the three hashes one has a record that does not parse, one a
  forged record and one a good one.
- *cache*: a race needs one event before, one of the call and one of another
  party; each host has the parties whose interleaving it is about. What fails
  beyond the three orderly hosts is the subject of the two failing runs and of
  section 6.
- *service*: 3 events, at most one of them by another writer; one clock value is
  enough, since a rename advances time by itself and the hashes break all other
  ties. The service's own events take the least hash that is free: each names the
  one before it, so that their hashes order nothing among themselves, and the other
  writer's event, whose hash is any, may come first or last. The two legacy files allow an upgrade of one or of both, one that
  stops between them, and a write or a crash around it; the bundles have an item
  from a clock far ahead and names that collide with copies.
- *inbound*: two creates, a rename and the block the contents share: a sole
  block ref, a head with a block, and a head with a superseded event.

Deadlock is checked except where a channel or a set of arrivals is simply used
up (`channel`, `inbound`). In `cache` a call can always begin, in `service` a
mark can always be set. Symmetry (contents, devices, clients) is used in runs without
liveness properties only.

### Fairness

Only `InboundRefresh` has any: a handler that was started takes its next step,
and a refresh that was started ends. Both are promises already running in a
program; nothing in the code waits for another program there. Nothing is assumed
of arrivals, of refreshes being started, or of notices. The storage does not
fail in that module; a listing that throws ends the handler and is part of
`ReplayCache`'s subject.

## 4. Proofs

All hold for every value of the constants: any names, contents, set of event
paths and length of log for `VolumeReplay`, any devices, events and clocks for
`ChannelReplay`, any finite set of clients, events and hosts for `ReplayCache`, any events, blocks
and block refs for `InboundRefresh`, any first logs, paths, clocks, bundles and bounds for
`VolumeService` with `References`. No step is left out, and nothing is assumed but the
named ASSUMEs of the modules and, where said, `~FileOntoAncestor` (for the service:
`Clean`) and three facts about what the constants stand for: `CopiesAreNames`,
`MarksAreNoSeals` and `RecordsAreNoFailures`.

### The materializer

| Theorem | Property |
|---|---|
| `ReplayIsSound` | the inductive invariant `IInv` |
| `TypeCorrect` | `TypeOK` |
| `CountsAreExact` | `FileCountExact` |
| `FilesAreReachable` | `FileAncestorsLive` |
| `OriginsAreExact`, `OriginsAreUnique` | `OriginsExact`, `OriginsUnique` |
| `MetadataIsInPlace` | `MetadataNamesPath` |
| `FilesAreLeaves` | `NoFileUnderFile` |
| `SnapshotsAreExact` | `IncrementalEqualsFull` |
| `RejectionsAreClean` | `RejectedHasNoEffect`, without the assumption |
| `ReplayImplementsFileTree` | `ImplementsFileTree` |
| `OrderlyReplayIsFileTree` | a replay with no event that breaks its promise is a behaviour of `FileTree` |

None of the properties is inductive alone. That a count is exact after a move
needs the counts of all ancestors before it, that no file lies under another
(else a moved file would be counted twice), that metadata names the path (the
move computes targets from it) and that the directories on the way exist.
`IInv` is their conjunction: the volume is *sound* for what the log wrote
(`FileMaterializerProofs`: finite maps, counts that fit the files, ancestors
live, no file under a file, origins injective and into the written contents),
the rows are well formed, and the cached replay equals the full one. The latter
is inductive because a sound volume's counts are what `ResumeFrom` computes
(`ResumeIsIdentity`).

The argument goes bottom up. `FileMaterializerProofs`: prefixes of paths, ancestors as
a chain, rewriting a prefix is injective and keeps order; then one lemma per helper on what it does to the fit between counts and files
(`UncountFits`, `DecrementFits`, `CountInFits`, `MovedDirsFits`), then one
soundness lemma per `apply*` function. `VolumeReplayProofs`: one step per
action, and then one lemma per `apply*` function on what it makes of the
origins of a sound volume, as a single expression on the map (`CreateFileOrigins`,
`MkdirOrigins`, `DeleteOrigins`, `RenameOrigins`); each is then compared with the step
of `FileTree`, `tree` read as `fileOrigins`, that the event promises (`StepIsPromised`).
The tree is written from the docs and not from the materializer, and two kinds of events
are no step of it. An MKDIR on a directory with files in it should pin it and removes
the files (divergence 2); a RENAME of such a directory onto one it is in should move the
files and loses them (section 6). `ImplementsFileTree` names both (`BreaksPromise`)
and excepts nothing else: every other event does what it promises, also in a volume
that such an event has left. `OrderlyReplayIsFileTree` is the refinement proper, for logs
without them. A rename is the long one: the code moves a file and a directory by
different functions, the second computing targets from metadata, and both must be the
one `Move` of the tree. The tree moves what lay below the source before the event, while
the code clears the target first and moves what is left; `ClearedFirst` says that this is
the same exactly because no file lies below another and because the source is in
no directory that is cleared. The step of a write needs the invariant for the freshness
of its content. What the refinement adds to the invariants: nothing but what a verb
names is touched, and what it names is where the verb puts it.

`~FileOntoAncestor` excludes logs in which a live file is renamed onto a
directory it is in. That is divergence 1: the properties are false there.

### The replay order

| Theorem | |
|---|---|
| `CanonicalIsUnique` | a set of entries has one canonical order |
| `OrderIsCanonical` | `OrderFileKeys` computes it, for every log |
| `ViewsAgree` | canonical orders of different sets agree on what both have |
| `OrdersAreOne` | `OrderEventLogEntries` is `OrderFileKeys` when no parent is missing and every entry has a time |
| `Inductive` | the inductive invariant `IInv` of `ChannelReplay` |
| `TypeCorrect` | `TypeOK` |
| `Convergence` | `Converged` |
| `KeptReplayIsInOrder` | `ReducedInOrder` |
| `WritesFollow` | `WriteFollowsObserved` |
| `SeededLoads` | `SeededLoadIsFull` |
| `BothOrders` | `OrdersAgree` |

`Canonical` (`ReplayOrderProofs`) says what the order is without a word of how it is
found: every entry is the earliest, by time and hash, of those whose parent is out or
unknown, and none is left that could follow. That there is but one such order is what
makes devices converge: the sequence in which the entries arrived, which the sort
starts from and the merge preserves in part, is not in it. `OrderIsCanonical` is the
work: Kahn's sort is a recursive function, and the library's induction theorems take an
operator as a parameter. Induction is done with sets instead: a set of numbers has a
least element (`NatLeast`, from the library's well-foundedness of finite sets), so a
set that has 0 and with every number the next has all (`NatsByStep`), and a recursion
has a solution (`Iterates`). For this the sort takes the entries that may
follow as a function of those emitted, not as an operator, and `Unknown` is a recursive
function and no SelectSeq, of which the provers know nothing.

`IInv`: hashes tell the published entries apart, a device's `keys` are canonical for
the entries in them, these have reached its storage, and `reduced` is `keys`. A merge
keeps it, since the sort forgets what order it started from (`ReorderIsCanonical`), and
what is kept of the replay up to `insertAt` is the front of the new order
(`ReorderKeepsFront`).

A write names but the last event its writer had replayed, and follows all of them.
`WInv` keeps for each event the *view* its writer had: a canonical order of a set that
has every entry's parent, whose FILES events all come no later than the event's parent.
Where such an event and the parent are known to another device, they are in the same
order there (`ViewsAgree`): in the least inversion of two views each of the two entries
would be free when the other was emitted, and so earlier than it. The keys of a device
are a view as long as parents arrive first (`CanonicalIsComplete` with the place in the
storage as rank).

The two implementations of the order treat an entry that is no FILES event differently:
one takes its place in the input for the time it lacks, the other takes 0, and seeds
change places. `SeededLoads` and `BothOrders` hold because such entries do not matter for
the others. A FILES event has a time and is written on a FILES event (`HeadsInv`), and
so a sort, looked at on the FILES events alone, is a sort of these (`EntriesOnPart`,
`CanonicalOnPart`, for any part of a log that has the parents of its entries and a time
for each). `Greedy` says this of either sort, the set of entries that may follow being a
parameter: `ReadyOf` where an unknown parent holds an entry back for good, `FreeOf` where
it does not. A greedy order is unique (`GreedyIsUnique`), whatever the input's order; so
a load that reuses a seed gives what a full one gives, with parents missing, late or in
place, and where none is missing `ReadyOf` and `FreeOf` are one (`ReadyIsFree`).

### The timeline

| Theorem | Property |
|---|---|
| `ListingsAgree` | `ListingAndDeltaAgree` |
| `DeltasContinue` | `DeltaContinues` |
| `DeltasBringSuccessors` | `DeltaBringsSuccessors` |
| `ViewsOfPastOnlyGrow` | `ViewOfPastOnlyGrows` |

The rows of a timeline list a part of its replay (`Lists`, `RowsAreListed`), and when all
in that part have a time, it is a view of the channel, the same for both replays
(`TimelinesAreViews`). What a reader was shown and what it is shown later are then two
views, and `ViewsAgree` says that nothing moved past the cursor: `DeltasContinue`, and in
the same way `ViewsOfPastOnlyGrow`. `DeltasBringSuccessors` rests on the views of the
writers (`SeenBefore`): the FILES events of the second sort a delta makes are a view
whatever the other rows do (`FilesAreView`), and rows keep the order of the sort
(`ListsInOrder`).

`DeltaContinues` and `ListingAndDeltaAgree` suppose that every row has a time
(`RowsHaveTimes`), and the attempt to prove them without it showed why: a chat message or
a declared identity may leave out `publishedAt`, the place in the input is taken for its
time (`fileLogEntries.ts:249`), and when earlier events arrive it is put elsewhere (TLC
finds a cursor behind which a row is sent twice with three events). The premise leaves
out nothing that this program writes: FILES events and application records always
have a time.

### The replay cache

| Theorem | Property | of |
|---|---|---|
| `CacheIsSound` | the inductive invariant `IInv` | every host |
| `CacheTypeCorrect` | `TypeOK` | every host |
| `LoneHostIsSound` | the inductive invariant `LoneInv` | a lone host |
| `LoneReadsItsWrites` | `ReadYourWrites` | a lone host |
| `LoneWritesInOrder` | `WritesReplayInOrder` | a lone host |
| `LoneQuietView` | `QuietViewIsReplay` | a lone host |
| `SoloHostIsSound` | the inductive invariant `SoloInv` | a solo host |
| `SoloReadsItsWrites` | `ReadYourWrites` | a solo host |
| `SoloHonoursMarks` | `StaleMarkHonoured` | a solo host |
| `SoloSeesInbound` | `InboundSeen` | a solo host |
| `ProjectedInOrder` | the projection is in the order of its keys | every host |
| `SoloQuietView` | `QuietViewIsReplay` | a solo host |

A *lone* host (`Lone`) is told of no events: `markReplayStale` and `applyInboundEvent`
are not called. Other programs may write to its storage, any number of calls may run
side by side and the storage may fail at every await; only no event arrives before its
parent. The run has such a host with two calls at a time (`Alone`).

`LoneInv` says why callers see every write there: the view (`replayTail`, or else the
projection) only grows. It is a view in the sense of the section above, so extending it
with an event whose parent it has loses nothing (`ExtendIsView`): the order of whole
entries is the order of keys there (`OrdersAreOne`), and that is complete. The parent of
an event that is being written is in the context it was written on, which is part of
the view still when the event is committed, whatever other calls committed in between.
A later call's write follows an earlier one by `FollowsItsView`, the lemma that gives
`WriteFollowsObserved`. The projection itself is not a view: calls ingest in any order,
and one that fails between its commit and its ingest leaves its event out. Only the
tail, which is never dropped in a lone host, hides that. With stale marks it is
dropped: a mark between one call's commit and its ingest, a second call that
clears the mark and a third that commits leave a tail that shadows the first
call's event, and `ReadYourWrites` is false of three overlapping calls (TLC finds it
with `MaxEvents = 2` in `Shared` with `calls |-> 3` and one clock value).

A *solo* host (`Solo`) makes one call at a time and may be told of events. Its other
conditions are there because TLC finds a theorem false without each: no event arrives
before its parent; the host does not both write and call `applyInboundEvent`
(divergence 4); and the listing of a catch-up does not fail, since the mark is cleared
before the listing and a failure loses it (section 6). `Shared` is a
solo host of the run. `Mirror` is one but for parents that come late, which a host
that only reads does not mind; that is model-checked only.

`SoloInv` says what holds the view together there. The projection never loses what was
written or ingested; while the volume is not marked stale the view has all of the
projection, so that the tail shadows nothing; and all that was in the storage when it
was marked is in the projection, or the mark is still set, or the one call is between
clearing it and merging a listing that has it all. `Expects` says the same of the call
at each of its awaits. A mark that arrives between a write's commit and its ingest
drops the tail with the write in it, and ingest brings it back into the projection
before the write returns. Only one call at a time makes that enough.

### The inbound refresh

| Theorem | Property |
|---|---|
| `InboundIsSound` | the inductive invariant `IInv` |
| `InboundTypeCorrect` | `TypeOK` |
| `MarksAreFound` | `MarkIsFound` |
| `LoneViewsAreCurrent` | `ViewCurrentWhenAlone` |

`IInv` adds to the first two properties what is known at each await of a handler or
refresh that has run beside no other (`Alone`): there is one of them; before it
projects, the view shows all that is projected; what it is about to show has all that
is projected. The third property speaks of the moment at which nothing is under way
only and is not inductive without that. One lemma per step of a handler, so that
the hard part, which handler finds a mark that another one set, is in one place
(`MarkStaysFound`).

### The calls of the service

| Theorem | Property | supposing |
|---|---|---|
| `ServiceInvariant` | the inductive invariant `SInv` | |
| `ServiceTypes` | `TypeOK` | |
| `SupersededFirst` | `SupersededReplaysFirst` | |
| `ReplaysInvariant` | the inductive invariant `CInv` | `CopiesAreNames` |
| `CachesAreReplays` | `ContextsAreReplays` | and contexts are `Clean` |
| `ServedIsWhatIsStored` | `ServedIsStorage` | and the storage is `Clean` |
| `WritesActOnServed` | `WriteActsOnServed` | and what is served is always `Clean` |
| `FilesRead` | `FilesReadAsWritten` | and `MarksAreNoSeals`, storage and contexts are always `Clean` |
| `ReferencesOpen` | `BundlesOpen` | and `RecordsAreNoFailures` |
| `UpgradesKeepContents` | `UpgradeKeepsContents` | those of `FilesRead` |
| `ImportsKeepFiles` | `ImportKeepsFiles` | those of `FilesRead` |

All are about `ReferencesSpec`: the service, its crashes and restarts, other devices, direct
operations, imports and exports, the ones that fail on the way too.

`SInv` (`VolumeServiceProofs`) says of the storage that it is a channel in the sense of the
replay order (each hash once, parents first), of the projection and the tail that they are
views of it, that they have all events the service was told of, and that a tail has the
events of the projection. What an event supersedes is in its refs only in part: of a RENAME
of one entry onto another both heads are recorded, but the order is decided by the
one parent. `SupersededReplaysFirst` holds because a writer's refs come from the volume
it wrote on, whose every event is at or before the parent (`BehindParent`); a view that has
the event has the parent, so it has the superseded events, and puts them first
(`ViewsAgree`). Volumes name only events of their log (`Refers`, through every
`apply*` function and every replay: `ReplayRefers`). An import or an upgrade writes several events, each on
the one before and with lineage from the log before them all; `Chain` is what is known of
them, and it holds for every part an exchange may get done (`ChainIsStored`).

`CInv` (`FileReadsProofs`) adds that a context's volume is the replay of its log, as far as the
log is *clean*: it renames no live file onto a directory it is in. The premise is needed.
After such a rename (divergence 1) the counts of directories are wrong, a snapshot is resumed
with counts done anew, and from then on a context that was extended and one that was replayed
from the start may differ: with files `/x/a/f` and `/x/g`, RENAME of `/x/a/f` to `/x/a` leaves
the count of `/x` one too low. The run's paths are not deep enough to show it. A clean replay
is sound (`ReplaySound`), and resumed from a sound volume it goes on as if it had not been
cut (`ResumedReplay`, from `ResumeIsIdentity`): so `Ingest`, which keeps the front that did
not move, `Rematerialize`, which keeps a prefix, and a snapshot of any age all come to the
same volume. That `CInv` is kept needs that all that is written is about paths, and for an
import that it finds names: among one more candidates than files are listed one is free
(`ResolvedIsFree`, by the pigeonhole principle), and of the names of one import no two are
the same (`NamesAreFree`). `CopiesAreNames` is what `resolveImportedFilename` does with a number:
copies of a name are other names, each number another one.

That files read needs two facts more, and `FInv` adds them: every event that creates a file has a
key that opens its block (`FittingLog`), and a context has, for each live file, the key of
the event its content comes from (`Keyed`). The second is where `extendContext` could
go wrong, which puts keys in and never takes one out: it renews those of all live files
(`ExtendIsKeyed`). The first is what uploads, upgrades and imports have to keep, each in its own
way. An upload wraps the key it sealed with. An upgrade seals anew, with a key of its own
(`UpgradeFits`). An import takes the block as it is and wraps the key it was handed, which
nobody tries: of a foreign bundle the maker vouches for it (`ForeignKeysFit`), of the
volume's own it is the key of the stored file (`ImportedItemsFit`), through a source
bundle (`SourceHandsOver`) and through the capsules of a recipient bundle
(`RecipientHandsOver`). This is the one place where a file that comes out wrong in the
storage's replay would make the storage itself wrong, so `Clean` is a premise of the step there.
`FilesRead` then follows for each context and each view of its past from one lemma,
`ContextReads`. `ReferencesOpen` rests on the same two lemmas about bundles, and on the parser
letting in what the exports make: names that are distinct because requests are
deduplicated (`ListsAreDistinct`), ids that are in lower case already.

The last two compare the texts a reader of the storage finds before a call with those after
several events of it. What an exchange writes one after the other on the log's head comes
after all of the log, in the order of writing, whatever the times (`ChainComesLast`: the
parent of each is the last of all before it), so the volume after it is the volume before
with some files created. A file that is created *beside* those that are there, below none and
above none, changes no other (`CreateJoins`), and so do several that lie beside each other
too (`CreatesJoin`, `NewFilesJoin`). An upgrade's files are live ones, which in a sound volume
lie beside each other, and it seals the texts it read (`UpgradeAdds`): no text changes,
after any number of its events. An import's names are no live files' (`ImportAdds`), which
is all that `resolveImportedFilename` sees to. A name that is a directory, or that lies in
a file, old or of the same import, does replace what is there; the property says so in its
premise, from which `ApartIsBeside` gets the rest.

`MarksAreNoSeals` says that the empty key, the missing block and an exception are no
ciphertexts, `RecordsAreNoFailures` that an exception is no bundle and no item.

TLC checks the properties on every reachable state without these premises, on the paths and
logs of the run.

### Only model-checked

Of `ReplayCache`: `WritesReplayInOrder` in a host that is told of events. It needs that
ingest does not fail, as in `Shared`: an event that the projection lacks leaves the next
one without its parent, and while the volume is marked stale the view is the projection
(no call reads it before the catch-up). The liveness properties of `InboundRefresh` need ENABLED, which is out of the prover's reach.

## 5. Divergences with a run

1. RENAME of a live file onto a directory it is in (`fileMaterializer.ts:430`)
   removes target and source, then files an entry without content or origin.
   `volume.ts:60` and `:78` throw on such an entry, so the volume cannot be
   opened from then on.
2. MKDIR on an implicit directory removes it with its files
   (`fileMaterializer.ts:318`); the branch that promotes it is not reached.
3. An event whose parent is missing is replayed as a root
   (`fileLogEntries.ts:44`); `file-events-v0.5.md` wants it pending.
4. Once anything was written locally, `replayTail` shadows the projection
   (`fileService.ts:371`): an inbound event is merged and not served.
5. The stale mark is cleared before the catch-up is awaited
   (`fileService.ts:367`): a second reader is served the stale volume.
6. `inboundEventReadyToMaterialize` takes refs for blocks that are events
   (`syncInboundRefresh.ts:130,136`): notices of deletes, renames and overwrites are
   dropped until a block arrives.
7. A refresh that began earlier may end later and put an older volume in front of
   the subscribers (`reactiveVolume.ts:79`, `syncInboundRefresh.ts:41`).

## 6. Divergences seen while modelling, without a run

- A directory renamed onto one it is in loses all its files
  (`fileMaterializer.ts:430`): the target goes first, with the source in it.
  `fileEvents.ts:53-54` promises a prefix swap of every descendant. It is the line of
  divergence 1, with a directory for a file. `ImplementsFileTree` excepts it by name:
  without that disjunct of `BreaksPromise`, TLC refutes the property.
- An implicit directory goes with its last file although an explicit directory in
  it stays (`:381`), and stays when the last directory in it goes (`:469`);
  `fileEvents.ts:82-84` ties it to its last live descendant.
- A path may be a live file and a live directory (`:524`).
- A resume warns of an unknown verb again (`:180`); the comment at `:16-17` says once
  per replay.
- A local write on a head whose own parent is missing is dropped from the tail
  it was just put in (`fileEmit.ts:388`): the projection replays such a head, the tail's
  order does not. The `cache` run has hosts that write only where parents come first.
- Of two concurrent writes the later commits on the head the earlier began from
  (`fileService.ts:562`); `file-events-v0.5.md:249-250` asks for the head at commit time.
- A stale mark and a catch-up between a write's commit and its ingest can lose
  the write from the view (`fileService.ts:401`), with two writers and marks in
  one host.
- A catch-up whose listing throws has already cleared the stale mark
  (`fileService.ts:367-369`): the call fails, and the next is served the stale volume.
  TLC refutes `StaleMarkHonoured` in the host `Shared` with `failures |-> {"listing"}`.
- An export that upgrades legacy files writes events the service is not told of
  (`fileService.ts:969`); imports mark the service stale, exports do not. The next write
  of the service is concurrent to the upgrade.
- `retrieveData` unwraps the key of the event without a look at whether it has one
  (`operations.ts:130`): the legacy files `getFile` reads cannot be read this way.
- An event is selected by its number among all entries (`fileEmit.ts:201`), while the
  listing leaves out entries without a row: from the first of them on, the "1-based
  line number in the last printed timeline table" (`webdav-v2.md`, section 7.1)
  selects another event. Selection by date, also asked for there, is not accepted.
- The time of an event without one is its place in the log (`fileLogEntries.ts:249`,
  `fileService.ts:1355`). It changes when earlier events arrive, and the row moves: a
  delta can send it again, and a listing shows another time for it than the delta.
- A recipient id spelled in capitals is sealed into the capsule as it is spelled, and
  parsed in lower case (`fileService.ts:1082`): nobody can open such a bundle.
- A name given beside a path replaces what follows the last "/" of the path as it was
  spelled (`fileService.ts:611`), before the other separators are normalized; `storeData`
  and imports write paths as given (`operations.ts:71`), and a read by path looks
  the path up as given (`fileService.ts:767`).
- Every block that arrives reloads every open volume (`syncInboundRefresh.ts:66`);
  `webdav-v1.md:114-116` says that blocks do not change the listing and forbids it.
  Without it only a refresh would bring in the events of divergence 6. No property
  says that a block's notice should, or should not, do so.

Hosts of `ReplayCache` (`HostKinds`) can be set to show each of the cache's.

## 7. Not modelled

- String forms: normalization of paths, payload codecs, the text of bundles, the older
  clipboard forms. Paths are sequences of names, bundles are records.
- Ciphers, hashes and signatures: external, symbolic in `FileKeys` and in `Forged`.
- Block fetching, sizes, MIME types, `createdAt` of directories, `getEvent` and
  `computeSnapshot`: data that no state change depends on.
- `fileState.ts`: `reconstructFileState` replays bare events, which have neither hashes
  nor parents, in an order of its own (time, path, then payload; lines 12-28). It is
  exported (`index.ts:70`) and not called in the repository. Its order can differ
  from that of a volume.
- Debug output, entry points, scripts. The scripts are probes of an installation.
- Volume sessions and WebDAV: specified in `src/docs/specs`, implemented elsewhere.
- nearbytes-log and the sync engine: external. Listing and merging are two steps,
  ingest is one, as `fileService.ts` uses them.

What is left out of a part that is modelled is said with the component in
`PROJECT.json`.

## 8. Plan

1. *(done)* Materializer, order, cache, service, inbound refresh; the proofs about
   the materializer.
2. *(done)* Timeline and past views; file keys; exports, upgrades and bundles;
   restarts and crashes; the refinement of `FileTree` and the invariants of
   `InboundRefresh` proved.
3. *(done)* The replay order computed by the sort, convergence and the order of writes
   in `ChannelReplay` proved; the replay cache of a host that is told of no events, and of
   one that is told of them and makes one call at a time.
4. `ReplayCache` and `InboundRefresh` composed: what a subscriber sees of a program
   that also writes.
5. An abstract cache (a set of known events that only grows, reads that return
   one that contains all acknowledged events) that `ReplayCache` implements in its
   orderly hosts.
6. *(done)* `SeededLoadIsFull`, `OrdersAgree` and the timeline proved.
7. *(done)* The file service with imports and exports: types, the order of superseded
   events, contexts as replays of their logs, what is served and what a write does;
   that files read as they were written, that bundles open, and that upgrades and
   imports leave the files that are there.
8. A proof of the order of writes in a host that is told of events.
