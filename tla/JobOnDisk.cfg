\* Three processes on one cache directory, Windows file system.
SPECIFICATION JobSpec
CONSTANTS
  A = A
  a1 = a1
  X = X
  hA = hA
  h1 = h1
  hX = hX
  theJob = theJob
  noSchema = noSchema
  Keys = {1, 2}
  Hashes = {hA, h1, hX}
  Fingerprints = {theJob}
  Payloads <- MCPayloads
  Results <- MCPayloads
  Generations <- MCGenerations
  ReadBack <- MCReadBack
  Schemas = {noSchema}
  SchemaOf <- MCSchemaOf
  Normalizes = FALSE
  Refused = {}
  ChecksCommit = TRUE
  TmpLike = {}
  DirFsync = FALSE
  PowerLossOn = TRUE
  ReadFaults = FALSE
  MaxDamage = 0
  Manifest = Manifest
  None = None
  Absent = Absent
  Garbled = Garbled
  KeyOf <- MCKeyOf
  HashOf <- MCHashOf
  SizeOf <- MCSizeOf
  UnitsOf <- MCUnitsOf
  SplitsOf <- MCSplitsOf
  RootLists <- MCRootLists
  Exceptions <- MCExceptions
  MaxWorkers = 1
  MaxAttempts = 2
  MaxSplitDepth = 1
  HasSplitPolicy = TRUE
  CleanupOnSuccess = TRUE
  Faults = TRUE
  MaxRuns = 3
  Hung = {}
  NameLen = 5
  Paths <- MCPaths
INVARIANTS
  StoreAnswers
  FailClosedElsewhere
PROPERTIES
  ImplementsEngine
