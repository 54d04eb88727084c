\* JSONL: r1 does not read back as itself.
SPECIFICATION Spec
CONSTANTS
  k1 = k1
  k2 = k2
  h1 = h1
  h2 = h2
  fpA = fpA
  fpB = fpB
  r1 = r1
  r2 = r2
  g1 = g1
  g2 = g2
  noSchema = noSchema
  r3 = r3
  Keys = {k1, k2}
  Hashes = {h1}
  Fingerprints = {fpA, fpB}
  Results <- OneRecord
  Generations = {g1, g2}
  ReadBack <- RecordsReadBack
  Schemas = {noSchema}
  SchemaOf <- OneSchema
  Reparsed <- IntegerKeys
  Rejected <- NoneRejected
  Unreadable = Unreadable
  Normalizes = FALSE
  Refused <- RefusedRecords
  ChecksCommit = FALSE
  TmpLike <- NoKeys
  DirFsync = TRUE
  PowerLossOn = FALSE
  ReadFaults = FALSE
  MaxDamage = 0
  Manifest = Manifest
  None = None
  Absent = Absent
  Garbled = Garbled
SYMMETRY KeysAndGenerations
INVARIANTS
  AckedSurvives
