SPECIFICATION ReferencesSpec
CONSTANTS
  a = a
  b = b
  v = v
  w = w
  Names <- AllNames
  Blobs = {}
  NoBlob = NoBlob
  NonFileVerbs = {}
  UnknownVerbs = {}
  NoKey = NoKey
  Failed = Failed
  Volume = v
  Neighbour = w
  FirstLogs <- SmallLogs
  ServicePaths <- FewPaths
  PathLists <- FewLists
  ForeignBundles <- SmallBundles
  CopyName <- Numbered
  Times = {1}
  MaxEvents = 3
  MaxOnFirst = 2
  MaxOtherEvents = 1
  NoRef = NoRef
  OwnContent = OwnContent
  NoTime = NoTime
  NoTail = NoTail
INVARIANTS
  TypeOK
  ContextsAreReplays
  FilesReadAsWritten
  ServedIsStorage
  SupersededReplaysFirst
  BundlesOpen
PROPERTIES
  WriteActsOnServed
  ImportKeepsFiles
  UpgradeKeepsContents
