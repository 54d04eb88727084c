---------------------------- MODULE MCManifestStore ----------------------------
(* Small instances of ManifestStore for TLC. *)
EXTENDS ManifestStore, TLC

CONSTANTS k1, k2, h1, h2, fpA, fpB, r1, r2, r3, g1, g2, noSchema

(* Results that serialise to themselves. *)
StableReadBack == [r \in Results |-> r]

(* Results without a recorded schema, or all with the same. *)
OneSchema == [r \in Results |-> noSchema]

NoResults == {}
NoKeys == {}

KeysAndGenerations == Permutations(Keys) \cup Permutations(Generations)
=============================================================================
