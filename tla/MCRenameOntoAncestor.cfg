SPECIFICATION Spec
CONSTANTS
  a = a
  b = b
  c = c
  r1 = r1
  r2 = r2
  Names = {a, b, c}
  Blobs = {r1}
  NoBlob = NoBlob
  NonFileVerbs = {"APP_RECORD"}
  UnknownVerbs = {"FUTURE"}
  EventPaths <- BranchPaths
  MaxEvents = 4
  FileOntoAncestor = TRUE
INVARIANTS
  LiveFilesHaveOrigins
