\* One run with its worker threads under fairness; the execution of B may hang,
\* and a run without B must end.
SPECIFICATION PoolSpec
CONSTANTS
  A = A
  B = B
  X = X
  Y = Y
  a1 = a1
  a2 = a2
  hA = hA
  hB = hB
  hX = hX
  hAa = hAa
  hAb = hAb
  Payloads <- MCPayloads
  Keys <- MCKeys
  Hashes <- MCHashes
  KeyOf <- MCKeyOf
  HashOf <- MCHashOf
  SizeOf <- MCSizeOf
  UnitsOf <- MCUnitsOf
  RootLists <- WithAndWithoutB
  Exceptions <- SplitOrRetry
  SplitsOf <- SplitsWell
  PowerLossOn = FALSE
  MaxRuns = 1
  MaxWorkers = 2
  MaxAttempts = 2
  MaxSplitDepth = 1
  HasSplitPolicy = TRUE
  Faults = TRUE
  CleanupOnSuccess = FALSE
  Hung <- HungB
  None = None
INVARIANTS
  ContextsOutliveWork
PROPERTIES
  Termination
  RetryNotBlocked
