----------------------------- MODULE MCJsonlStore ------------------------------
(* ManifestStore with the results of JsonlResultStore: sequences of records. *)
EXTENDS MCManifestStore, JsonlFile

(* Record r1 has integer keys, which come back as strings: it reads back as r2. *)
(* The validator rejects r3.                                                    *)
IntegerKeys == [r \in {r1, r2, r3} |-> IF r = r1 THEN r2 ELSE r]
OneRecord == {<<r>> : r \in {r1, r2, r3}}
NoneRejected == {}

RecordsReadBack == [result \in Results |-> JsonlReadBack(result)]
RefusedRecords == {result \in Results : JsonlRefused(result)}

(* What ManifestStore says of a damaged payload covers every edit of its lines:   *)
(* the file becomes unreadable, or keeps its identity and gets other records       *)
(* ("a benign miss, never an exception escaping has()/load()").                   *)
ASSUME EditsAreDamage ==
    \A result \in OneRecord \cup {<<r2, r3>>, <<>>} :
        \A lines \in Edits(WriteLines("identity", result)) :
            ReadLines(lines) # Unreadable => ReadLines(lines).meta = "identity"
=============================================================================
