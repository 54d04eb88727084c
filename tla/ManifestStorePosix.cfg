\* POSIX: directories are fsynced, power may fail at any step.
SPECIFICATION Spec
CONSTANTS
  k1 = k1
  k2 = k2
  h1 = h1
  h2 = h2
  fpA = fpA
  fpB = fpB
  r1 = r1
  r2 = r2
  g1 = g1
  g2 = g2
  noSchema = noSchema
  r3 = r3
  Keys = {k1, k2}
  Hashes = {h1}
  Fingerprints = {fpA, fpB}
  Results <- PlainFrames
  Generations = {g1, g2}
  ReadBack <- FrameReadBack
  Schemas <- FrameSchemas
  SchemaOf <- FrameSchema
  Expected <- ExpectC
  Normalizes = TRUE
  Refused <- RefusedFrames
  ChecksCommit = TRUE
  TmpLike <- NoKeys
  DirFsync = TRUE
  PowerLossOn = TRUE
  ReadFaults = FALSE
  MaxDamage = 1
  Manifest = Manifest
  None = None
  Absent = Absent
  Garbled = Garbled
SYMMETRY KeysAndGenerations
INVARIANTS
  NeverWrong
  AckedSurvives
  Vouching
