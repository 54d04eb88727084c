\* Two runs of a job on one store, killed at any step.
SPECIFICATION Spec
CONSTANTS
  A = A
  B = B
  X = X
  Y = Y
  a1 = a1
  a2 = a2
  hA = hA
  hB = hB
  hX = hX
  hAa = hAa
  hAb = hAb
  Payloads <- MCPayloads
  Keys <- MCKeys
  Hashes <- MCHashes
  KeyOf <- MCKeyOf
  HashOf <- MCHashOf
  SizeOf <- MCSizeOf
  UnitsOf <- MCUnitsOf
  RootLists <- ManyLists
  Exceptions <- AllExceptions
  SplitsOf <- SplitsAnyhow
  PowerLossOn = TRUE
  MaxRuns = 2
  MaxWorkers = 2
  MaxAttempts = 2
  MaxSplitDepth = 1
  HasSplitPolicy = TRUE
  Faults = TRUE
  CleanupOnSuccess = TRUE
  Hung <- Nobody
  None = None
INVARIANTS
  TypeOK
  NothingLost
  ExactCoverage
  Accounting
  RetryBudget
PROPERTIES
  CommittedForGood
  ImplementsBatchJob
