\* Windows: no directory fsync, power may fail; the payload of a torn write.
SPECIFICATION Spec
CONSTANTS
  k1 = k1
  k2 = k2
  h1 = h1
  h2 = h2
  fpA = fpA
  fpB = fpB
  r1 = r1
  r2 = r2
  g1 = g1
  g2 = g2
  noSchema = noSchema
  r3 = r3
  Keys = {k1}
  Hashes = {h1, h2}
  Fingerprints = {fpA, fpB}
  Results = {r1, r2}
  Generations = {g1, g2}
  ReadBack <- StableReadBack
  Schemas = {noSchema}
  SchemaOf <- OneSchema
  Normalizes = TRUE
  Refused <- NoResults
  ChecksCommit = TRUE
  TmpLike <- NoKeys
  DirFsync = FALSE
  PowerLossOn = TRUE
  ReadFaults = FALSE
  MaxDamage = 0
  Manifest = Manifest
  None = None
  Absent = Absent
  Garbled = Garbled
SYMMETRY KeysAndGenerations
INVARIANTS
  TornWriteIsMiss
