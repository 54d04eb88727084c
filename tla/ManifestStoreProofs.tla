-------------------------- MODULE ManifestStoreProofs --------------------------
(***************************************************************************)
(* Proofs about ManifestStore: its types, that every manifest names only     *)
(* commits issued under its own fingerprint, that a hit is never wrong, that  *)
(* a commit that returned is found again, that a session vouches for no more  *)
(* than the manifest on disk, and that a torn write is a miss.                *)
(***************************************************************************)
EXTENDS ManifestStore, TLAPS

(* Renaming a file of the right kind into place, or removing one, keeps the  *)
(* files well formed (_atomic_replace_file, unlink).                          *)
LEMMA PutKeepsFiles ==
    ASSUME FilesOK, NEW n \in Names, NEW content \in Contents(n), Put(n, content)
    PROVE  FilesOK'
<1>1. content \in AnyContents
  BY DEF Contents, AnyContents
<1>2. /\ disk' = [disk EXCEPT ![n] = content]
      /\ maybe' = [maybe EXCEPT ![n] = maybe[n] \cup {content}]
  BY DEF Put
<1>3. \A m \in Names : maybe'[m] = IF m = n THEN maybe[m] \cup {content} ELSE maybe[m]
  BY <1>2 DEF FilesOK
<1>4. \A m \in Names : disk'[m] = IF m = n THEN content ELSE disk[m]
  BY <1>2 DEF FilesOK
<1>5. disk' \in [Names -> AnyContents] /\ maybe' \in [Names -> SUBSET AnyContents]
  BY <1>1, <1>2 DEF FilesOK
<1> QED
  BY <1>3, <1>4, <1>5 DEF FilesOK

(* A directory fsync keeps the files well formed (_fsync_dir). *)
LEMMA FsyncKeepsFiles ==
    ASSUME FilesOK, FsyncDir
    PROVE  FilesOK'
  BY DEF FilesOK, FsyncDir, Contents, AnyContents

(* The initial state is well typed. *)
LEMMA InitTypes == Init => TypeOK
<1> SUFFICES ASSUME Init PROVE TypeOK
  OBVIOUS
<1>1. NoEntries \in Entries
  BY DEF NoEntries, Entries
<1>2. FilesOK
  BY DEF Init, FilesOK, AnyContents, Contents
<1> QED
  BY <1>1, <1>2, FlagsAssumption DEF Init, TypeOK, Phases, Committing

(* What a commit puts on disk and into the manifest has the right form. *)
LEMMA CommitForms ==
    ASSUME NEW c \in Commits
    PROVE  PayloadOf(c) \in Files /\ EntryOf(c) \in EntryRecords /\ c.key \in Keys
<1>1. Canonical(c.res) \in Results /\ SchemaOf[c.res] \in Schemas
  BY ReadBackAssumption, SchemaAssumption DEF Commits, Canonical
<1> QED
  BY <1>1 DEF Commits, PayloadOf, EntryOf, Files, EntryRecords

(* A manifest document is what the manifest's name calls for. *)
LEMMA DocumentForm ==
    ASSUME fp \in Fingerprints, mem \in Entries
    PROVE  [fp |-> fp, entries |-> mem] \in Contents(Manifest)
  BY DEF Documents, Contents

(* Every step keeps the types. *)
LEMMA NextTypes == TypeOK /\ [Next]_vars => TypeOK'
<1> SUFFICES ASSUME TypeOK, [Next]_vars PROVE TypeOK'
  OBVIOUS
<1> USE DEF Phases, Committing
<1>0. FilesOK /\ Manifest \in Names /\ Keys \subseteq Names
  BY DEF TypeOK, Names
<1>a. ASSUME FilesUnchanged PROVE FilesOK'
  BY <1>0, <1>a DEF FilesOK, FilesUnchanged, AnyContents, Contents
<1>b. ASSUME NEW n \in Names, Unlink(n) PROVE FilesOK'
  <2>1. Absent \in Contents(n)
    BY DEF Contents
  <2> QED
    BY <1>0, <1>a, <1>b, <2>1, PutKeepsFiles DEF Unlink
<1>1. ASSUME NEW f \in Fingerprints, OpenValid(f) PROVE TypeOK'
  <2>1. FilesOK'
    BY <1>a, <1>1 DEF OpenValid, FilesUnchanged
  <2>2. disk[Manifest] \in Documents
    BY <1>0, <1>1 DEF OpenValid, Usable, FilesOK, Contents
  <2>3. mem' \in Entries
    BY <1>1, <2>2 DEF OpenValid, Documents
  <2> QED
    BY <1>1, <2>1, <2>3 DEF OpenValid, TypeOK
<1>2. ASSUME NEW f \in Fingerprints, OpenInvalid(f) PROVE TypeOK'
  <2>1. FilesOK'
    BY <1>a, <1>2 DEF OpenInvalid, FilesUnchanged
  <2>2. NoEntries \in Entries
    BY DEF NoEntries, Entries
  <2> QED
    BY <1>2, <2>1, <2>2 DEF OpenInvalid, TypeOK
<1>3. ASSUME NEW n \in Names, WipeOne(n) PROVE TypeOK'
  <2>1. FilesOK'
    BY <1>b, <1>3 DEF WipeOne
  <2> QED
    BY <1>3, <2>1 DEF WipeOne, TypeOK
<1>4. CASE WriteEmptyManifest
  <2>1. [fp |-> fp, entries |-> mem] \in Contents(Manifest)
    BY <1>4, DocumentForm DEF WriteEmptyManifest, TypeOK
  <2>2. FilesOK'
    BY <1>0, <1>4, <2>1, PutKeepsFiles DEF WriteEmptyManifest
  <2> QED
    BY <1>4, <2>2 DEF WriteEmptyManifest, TypeOK
<1>5. CASE SyncEmptyManifest
  <2>1. FilesOK'
    BY <1>0, <1>5, FsyncKeepsFiles DEF SyncEmptyManifest
  <2> QED
    BY <1>5, <2>1 DEF SyncEmptyManifest, TypeOK
<1>6. CASE Sweep
  <2>1. FilesOK'
    BY <1>0, <1>6, KeysAssumption DEF Sweep, FilesOK, AnyContents, Contents
  <2> QED
    BY <1>6, <2>1 DEF Sweep, TypeOK
<1>7. ASSUME NEW k \in Keys, NEW h \in Hashes, NEW r \in Results,
             NEW g \in Generations, WritePayload(k, h, r, g)
      PROVE  TypeOK'
  <2>1. FilesOK'
    BY <1>a, <1>7 DEF WritePayload, FilesUnchanged
  <2>2. cur' \in Commits /\ cur'.fp = fp
    BY <1>7 DEF WritePayload, TypeOK, Commits
  <2> QED
    BY <1>7, <2>1, <2>2 DEF WritePayload, TypeOK
<1>8. CASE ReplacePayload
  <2>1. cur \in Commits
    BY <1>8 DEF ReplacePayload, TypeOK
  <2>2. PayloadOf(cur) \in Contents(cur.key) /\ cur.key \in Names
    BY <1>0, <2>1, CommitForms, KeysAssumption DEF Contents
  <2>3. FilesOK'
    BY <1>0, <1>8, <2>2, PutKeepsFiles DEF ReplacePayload
  <2> QED
    BY <1>8, <2>3 DEF ReplacePayload, TypeOK
<1>9. CASE SyncPayload
  <2>1. FilesOK'
    BY <1>0, <1>9, FsyncKeepsFiles DEF SyncPayload
  <2>2. cur.key \in Keys /\ EntryOf(cur) \in EntryRecords
    BY <1>9, CommitForms DEF SyncPayload, TypeOK
  <2>3. mem' \in Entries /\ prior' \in EntryRecords \cup {None}
    BY <1>9, <2>2 DEF SyncPayload, TypeOK, Entries
  <2> QED
    BY <1>9, <2>1, <2>3 DEF SyncPayload, TypeOK
<1>10. CASE PublishManifest
  <2>1. [fp |-> fp, entries |-> mem] \in Contents(Manifest)
    BY <1>10, DocumentForm DEF PublishManifest, TypeOK
  <2>2. FilesOK'
    BY <1>0, <1>10, <2>1, PutKeepsFiles DEF PublishManifest
  <2> QED
    BY <1>10, <2>2 DEF PublishManifest, TypeOK
<1>11. CASE SyncManifest
  <2>1. FilesOK'
    BY <1>0, <1>11, FsyncKeepsFiles DEF SyncManifest
  <2> QED
    BY <1>11, <2>1 DEF SyncManifest, TypeOK
<1>12. CASE CommitFails
  <2>1. FilesOK'
    BY <1>a, <1>12 DEF CommitFails, FilesUnchanged
  <2>2. mem' \in Entries
    BY <1>12 DEF CommitFails, TypeOK, Entries
  <2> QED
    BY <1>12, <2>1, <2>2 DEF CommitFails, TypeOK
<1>13. CASE CleanupBegin
  <2>1. FilesOK'
    BY <1>a, <1>13 DEF CleanupBegin, FilesUnchanged
  <2> QED
    BY <1>13, <2>1 DEF CleanupBegin, TypeOK
<1>14. ASSUME NEW n \in Names, CleanOne(n) PROVE TypeOK'
  <2>1. FilesOK'
    BY <1>b, <1>14 DEF CleanOne
  <2> QED
    BY <1>14, <2>1 DEF CleanOne, TypeOK
<1>15. CASE CleanupEnd
  <2>1. FilesOK'
    BY <1>a, <1>15 DEF CleanupEnd, FilesUnchanged
  <2> QED
    BY <1>15, <2>1 DEF CleanupEnd, TypeOK
<1>c. ASSUME Closed, FilesOK' PROVE TypeOK'
  <2>1. NoEntries \in Entries
    BY DEF NoEntries, Entries
  <2> QED
    BY <1>c, <2>1 DEF Closed, TypeOK
<1>16. CASE ProcessEnds
  BY <1>a, <1>c, <1>16 DEF ProcessEnds
<1>17. CASE PowerLoss
  <2>1. FilesOK'
    BY <1>0, <1>17 DEF PowerLoss, FilesOK, AnyContents, Contents
  <2> QED
    BY <1>c, <1>17, <2>1 DEF PowerLoss
<1>18. ASSUME NEW n \in Names, Damage(n) PROVE TypeOK'
  <2>1. PICK content : /\ content \in {Absent, Garbled} \cup
                            (IF n = Manifest \/ disk[n] = Garbled THEN {}
                             ELSE {[disk[n] EXCEPT !.body = r] : r \in Results})
                       /\ disk' = [disk EXCEPT ![n] = content]
                       /\ maybe' = [maybe EXCEPT ![n] = (maybe[n] \ {disk[n]}) \cup {content}]
    BY <1>18 DEF Damage
  <2>2. content \in Contents(n)
    <3>1. CASE content \in {Absent, Garbled}
      BY <3>1 DEF Contents
    <3>2. CASE content \notin {Absent, Garbled}
      <4>1. n # Manifest /\ disk[n] \in Files
        BY <1>0, <1>18, <2>1, <3>2 DEF Damage, FilesOK, Contents
      <4>2. content \in Files
        BY <2>1, <3>2, <4>1 DEF Files
      <4> QED
        BY <4>1, <4>2 DEF Contents
    <3> QED
      BY <3>1, <3>2
  <2>3. FilesOK'
    BY <1>0, <2>1, <2>2 DEF FilesOK, AnyContents, Contents
  <2> QED
    BY <1>18, <2>3, FlagsAssumption DEF Damage, TypeOK
<1>19. CASE UNCHANGED vars
  <2>1. FilesOK'
    BY <1>a, <1>19 DEF vars, FilesUnchanged
  <2> QED
    BY <1>19, <2>1 DEF vars, TypeOK
<1> QED
  BY <1>1, <1>2, <1>3, <1>4, <1>5, <1>6, <1>7, <1>8, <1>9, <1>10, <1>11, <1>12,
     <1>13, <1>14, <1>15, <1>16, <1>17, <1>18, <1>19
  DEF Next, Open, Wipe, BeginCommit, Clean, DamageSome

(* Every variable has its type, and a commit in progress is one that was      *)
(* issued under the fingerprint of the open session.                           *)
THEOREM TypeCorrect == Spec => []TypeOK
  BY InitTypes, NextTypes, PTL DEF Spec

-----------------------------------------------------------------------------
(* Commits are never forgotten, so what they vouch for stays vouched for. *)
LEMMA VouchedStays ==
    ASSUME issued \subseteq issued', NEW k, NEW f, NEW e, EntryVouched(k, f, e)
    PROVE  EntryVouched(k, f, e)'
  BY DEF EntryVouched

(* The part of Vouching about one manifest document. *)
DocumentVouched(d) ==
    \A k \in Keys : d.entries[k] # None => EntryVouched(k, d.fp, d.entries[k])
ManifestsVouched == \A d \in maybe[Manifest] \ {Absent, Garbled} : DocumentVouched(d)
MemVouched == pc # "closed" =>
    \A k \in Keys : mem[k] # None => EntryVouched(k, fp, mem[k])
PriorVouched == pc \in {"publishing", "published"} /\ prior # None =>
    EntryVouched(cur.key, fp, prior)

(* Vouching is the conjunction of these three. *)
LEMMA VouchingParts ==
    /\ Vouching <=> ManifestsVouched /\ MemVouched /\ PriorVouched
    /\ Vouching' <=> ManifestsVouched' /\ MemVouched' /\ PriorVouched'
  BY DEF Vouching, ManifestsVouched, MemVouched, PriorVouched, DocumentVouched

(* The manifests stay vouched for when no step adds one. *)
LEMMA ManifestsStay ==
    ASSUME ManifestsVouched, issued \subseteq issued',
           maybe'[Manifest] \subseteq maybe[Manifest] \cup {Absent, Garbled}
    PROVE  ManifestsVouched'
<1> SUFFICES ASSUME NEW d \in maybe'[Manifest] \ {Absent, Garbled}, NEW k \in Keys,
                    d.entries[k] # None
             PROVE  EntryVouched(k, d.fp, d.entries[k])'
  BY DEF ManifestsVouched, DocumentVouched
<1>1. EntryVouched(k, d.fp, d.entries[k])
  BY DEF ManifestsVouched, DocumentVouched
<1> QED
  BY <1>1 DEF EntryVouched

(* Writing the session's copy as the manifest keeps the manifests vouched for. *)
LEMMA PublishingStays ==
    ASSUME ManifestsVouched, MemVouched, pc # "closed", UNCHANGED issued,
           maybe'[Manifest] \subseteq
             maybe[Manifest] \cup {[fp |-> fp, entries |-> mem]}
    PROVE  ManifestsVouched'
<1> SUFFICES ASSUME NEW d \in maybe'[Manifest] \ {Absent, Garbled}, NEW k \in Keys,
                    d.entries[k] # None
             PROVE  EntryVouched(k, d.fp, d.entries[k])'
  BY DEF ManifestsVouched, DocumentVouched
<1>1. EntryVouched(k, d.fp, d.entries[k])
  BY DEF ManifestsVouched, DocumentVouched, MemVouched
<1> QED
  BY <1>1 DEF EntryVouched

LEMMA InitVouching == Init => Vouching
  BY DEF Init, Vouching, Names

(* Every step keeps the manifests, the session's copy and the roll-back entry  *)
(* vouched for.                                                                *)
LEMMA NextVouching == TypeOK /\ Vouching /\ [Next]_vars => Vouching'
<1> SUFFICES ASSUME TypeOK, Vouching, [Next]_vars
             PROVE  ManifestsVouched' /\ MemVouched' /\ PriorVouched'
  BY VouchingParts
<1>0. /\ ManifestsVouched /\ MemVouched /\ PriorVouched
      /\ FilesOK /\ Manifest \in Names /\ Keys \subseteq Names /\ Manifest \notin Keys
  BY VouchingParts, KeysAssumption DEF TypeOK, Names
<1> DEFINE Goal == ManifestsVouched' /\ MemVouched' /\ PriorVouched'
<1>a. ASSUME UNCHANGED <<issued, fp, mem>>, pc # "closed",
             pc' \notin {"publishing", "published"}
      PROVE  MemVouched' /\ PriorVouched'
  BY <1>0, <1>a DEF MemVouched, PriorVouched, EntryVouched
<1>b. ASSUME NEW n \in Names, Unlink(n)
      PROVE  maybe'[Manifest] \subseteq maybe[Manifest] \cup {Absent, Garbled}
  BY <1>0, <1>b DEF Unlink, Put, FilesUnchanged, FilesOK
<1>c. ASSUME FsyncDir
      PROVE  maybe'[Manifest] \subseteq maybe[Manifest] \cup {Absent, Garbled}
  BY <1>0, <1>c DEF FsyncDir, FilesOK
<1>1. ASSUME NEW f \in Fingerprints, OpenValid(f) PROVE Goal
  <2>1. ManifestsVouched'
    BY <1>0, <1>1, ManifestsStay DEF OpenValid
  <2>2. disk[Manifest] \in maybe[Manifest] \ {Absent, Garbled}
    BY <1>0, <1>1 DEF OpenValid, Usable, FilesOK
  <2>3. DocumentVouched(disk[Manifest]) /\ disk[Manifest].fp = f
    BY <1>0, <1>1, <2>2 DEF OpenValid, Usable, ManifestsVouched
  <2>4. MemVouched'
    BY <1>1, <2>3 DEF OpenValid, MemVouched, DocumentVouched, EntryVouched
  <2>5. PriorVouched'
    BY <1>1 DEF OpenValid, PriorVouched
  <2> QED
    BY <2>1, <2>4, <2>5
<1>2. ASSUME NEW f \in Fingerprints, OpenInvalid(f) PROVE Goal
  <2>1. ManifestsVouched'
    BY <1>0, <1>2, ManifestsStay DEF OpenInvalid
  <2>2. MemVouched' /\ PriorVouched'
    BY <1>2 DEF OpenInvalid, MemVouched, PriorVouched, NoEntries
  <2> QED
    BY <2>1, <2>2
<1>3. ASSUME NEW n \in Names, WipeOne(n) PROVE Goal
  <2>1. ManifestsVouched'
    BY <1>0, <1>b, <1>3, ManifestsStay DEF WipeOne
  <2> QED
    BY <1>a, <1>3, <2>1 DEF WipeOne
<1>4. CASE WriteEmptyManifest
  <2>1. ManifestsVouched'
    BY <1>0, <1>4, PublishingStays DEF WriteEmptyManifest, Put, FilesOK
  <2> QED
    BY <1>a, <1>4, <2>1 DEF WriteEmptyManifest
<1>5. CASE SyncEmptyManifest
  <2>1. ManifestsVouched'
    BY <1>0, <1>c, <1>5, ManifestsStay DEF SyncEmptyManifest
  <2> QED
    BY <1>a, <1>5, <2>1 DEF SyncEmptyManifest
<1>6. CASE Sweep
  <2>1. maybe'[Manifest] \subseteq maybe[Manifest] \cup {Absent, Garbled}
    BY <1>0, <1>6 DEF Sweep
  <2>2. ManifestsVouched'
    BY <1>0, <1>6, <2>1, ManifestsStay DEF Sweep
  <2> QED
    BY <1>a, <1>6, <2>2 DEF Sweep
<1>7. ASSUME NEW k \in Keys, NEW h \in Hashes, NEW r \in Results,
             NEW g \in Generations, WritePayload(k, h, r, g)
      PROVE  Goal
  <2>1. ManifestsVouched'
    BY <1>0, <1>7, ManifestsStay DEF WritePayload
  <2>2. MemVouched' /\ PriorVouched'
    BY <1>0, <1>7 DEF WritePayload, MemVouched, PriorVouched, EntryVouched
  <2> QED
    BY <2>1, <2>2
<1>8. CASE ReplacePayload
  <2>1. cur.key \in Keys
    BY <1>8, CommitForms DEF ReplacePayload, TypeOK, Committing
  <2>2. maybe'[Manifest] \subseteq maybe[Manifest] \cup {Absent, Garbled}
    BY <1>0, <1>8, <2>1 DEF ReplacePayload, Put, FilesOK
  <2>3. ManifestsVouched'
    BY <1>0, <1>8, <2>2, ManifestsStay DEF ReplacePayload
  <2> QED
    BY <1>a, <1>8, <2>3 DEF ReplacePayload
<1>9. CASE SyncPayload
  <2>1. ManifestsVouched'
    BY <1>0, <1>c, <1>9, ManifestsStay DEF SyncPayload
  <2>2. cur \in issued /\ cur.fp = fp /\ cur.key \in Keys
    BY <1>9, CommitForms DEF SyncPayload, TypeOK, Committing
  <2>3. EntryVouched(cur.key, fp, EntryOf(cur))
    BY <2>2 DEF EntryVouched, EntryOf
  <2>4. mem' = [mem EXCEPT ![cur.key] = EntryOf(cur)] /\ mem \in Entries
    BY <1>9 DEF SyncPayload, TypeOK
  <2>5. MemVouched'
    BY <1>0, <1>9, <2>3, <2>4 DEF SyncPayload, MemVouched, EntryVouched, Entries
  <2>6. PriorVouched'
    BY <1>0, <1>9, <2>2 DEF SyncPayload, MemVouched, PriorVouched, EntryVouched
  <2> QED
    BY <2>1, <2>5, <2>6
<1>10. CASE PublishManifest
  <2>1. ManifestsVouched'
    BY <1>0, <1>10, PublishingStays DEF PublishManifest, Put, FilesOK
  <2>2. MemVouched' /\ PriorVouched'
    BY <1>0, <1>10 DEF PublishManifest, MemVouched, PriorVouched, EntryVouched
  <2> QED
    BY <2>1, <2>2
<1>11. CASE SyncManifest
  <2>1. ManifestsVouched'
    BY <1>0, <1>c, <1>11, ManifestsStay DEF SyncManifest
  <2> QED
    BY <1>a, <1>11, <2>1 DEF SyncManifest
<1>12. CASE CommitFails
  <2>1. ManifestsVouched'
    BY <1>0, <1>12, ManifestsStay DEF CommitFails
  <2>2. MemVouched'
    <3>1. CASE pc \in {"publishing", "published"}
      BY <1>0, <1>12, <3>1
      DEF CommitFails, MemVouched, PriorVouched, EntryVouched, TypeOK, Entries
    <3>2. CASE pc \notin {"publishing", "published"}
      BY <1>0, <1>12, <3>2 DEF CommitFails, Committing, MemVouched, EntryVouched
    <3> QED
      BY <3>1, <3>2
  <2>3. PriorVouched'
    BY <1>12 DEF CommitFails, PriorVouched
  <2> QED
    BY <2>1, <2>2, <2>3
<1>13. CASE CleanupBegin
  <2>1. ManifestsVouched'
    BY <1>0, <1>13, ManifestsStay DEF CleanupBegin
  <2> QED
    BY <1>a, <1>13, <2>1 DEF CleanupBegin
<1>14. ASSUME NEW n \in Names, CleanOne(n) PROVE Goal
  <2>1. ManifestsVouched'
    BY <1>0, <1>b, <1>14, ManifestsStay DEF CleanOne
  <2> QED
    BY <1>a, <1>14, <2>1 DEF CleanOne
<1>15. CASE CleanupEnd
  <2>1. ManifestsVouched'
    BY <1>0, <1>15, ManifestsStay DEF CleanupEnd
  <2> QED
    BY <1>a, <1>15, <2>1 DEF CleanupEnd
<1>d. ASSUME Closed PROVE MemVouched' /\ PriorVouched'
  BY <1>d DEF Closed, MemVouched, PriorVouched
<1>16. CASE ProcessEnds
  <2>1. ManifestsVouched'
    BY <1>0, <1>16, ManifestsStay DEF ProcessEnds, Closed, FilesUnchanged
  <2> QED
    BY <1>d, <1>16, <2>1 DEF ProcessEnds
<1>17. CASE PowerLoss
  <2>1. maybe'[Manifest] \subseteq maybe[Manifest] \cup {Absent, Garbled}
    BY <1>0, <1>17 DEF PowerLoss
  <2>2. ManifestsVouched'
    BY <1>0, <1>17, <2>1, ManifestsStay DEF PowerLoss, Closed
  <2> QED
    BY <1>d, <1>17, <2>2 DEF PowerLoss
<1>18. ASSUME NEW n \in Names, Damage(n) PROVE Goal
  <2>1. maybe'[Manifest] \subseteq maybe[Manifest] \cup {Absent, Garbled}
    BY <1>0, <1>18 DEF Damage, FilesOK
  <2>2. ManifestsVouched'
    BY <1>0, <1>18, <2>1, ManifestsStay DEF Damage
  <2>3. MemVouched' /\ PriorVouched'
    BY <1>0, <1>18 DEF Damage, MemVouched, PriorVouched, EntryVouched
  <2> QED
    BY <2>2, <2>3
<1>19. CASE UNCHANGED vars
  <2>1. ManifestsVouched'
    BY <1>0, <1>19, ManifestsStay DEF vars
  <2>2. MemVouched' /\ PriorVouched'
    BY <1>0, <1>19 DEF vars, MemVouched, PriorVouched, EntryVouched
  <2> QED
    BY <2>1, <2>2
<1> QED
  BY <1>1, <1>2, <1>3, <1>4, <1>5, <1>6, <1>7, <1>8, <1>9, <1>10, <1>11, <1>12,
     <1>13, <1>14, <1>15, <1>16, <1>17, <1>18, <1>19
  DEF Next, Open, Wipe, BeginCommit, Clean, DamageSome

(* Every manifest, on disk or in memory, now or after a power loss, names only *)
(* commits issued under its own fingerprint.                                   *)
THEOREM ManifestsVouchedFor == Spec => []Vouching
  BY TypeCorrect, InitVouching, NextVouching, PTL DEF Spec

(* Two results with the same canonical form read back the same, whether the    *)
(* store digests the raw or the read-back form.                                *)
LEMMA DigestDecides ==
    ASSUME NEW b \in Results, NEW r \in Results,
           Canonical(ReadBack[b]) = Canonical(r)
    PROVE  ReadBack[b] = ReadBack[r]
<1>1. ReadBack[b] \in Results /\ ReadBack[ReadBack[b]] = ReadBack[b]
  BY ReadBackAssumption
<1> QED
  BY <1>1 DEF Canonical

(* A hit is never wrong. *)
LEMMA HitsAreRight == TypeOK /\ Vouching => NeverWrong
<1> SUFFICES ASSUME TypeOK, Vouching, pc = "ready",
                    NEW k \in Keys, NEW h \in Hashes, Has(k, h) = "hit"
             PROVE  \E c \in issued :
                        /\ c.key = k /\ c.hash = h /\ c.fp = fp /\ c.gen = mem[k].gen
                        /\ Load(k) = ReadBack[c.res]
  BY DEF NeverWrong
<1>1. /\ mem[k] # None /\ mem[k].hash = h
      /\ disk[k] \notin {Absent, Garbled}
      /\ disk[k].digest = Canonical(ReadBack[disk[k].body])
      /\ disk[k].digest = mem[k].digest
  BY DEF Has, Check, ReadFile
<1>2. PICK c \in issued : /\ c.key = k /\ c.fp = fp
                          /\ c.hash = mem[k].hash /\ c.gen = mem[k].gen
                          /\ Canonical(c.res) = mem[k].digest
  BY <1>1 DEF Vouching, EntryVouched
<1>3. disk[k] \in Files /\ c \in Commits
  BY <1>1, KeysAssumption DEF TypeOK, FilesOK, Names, Contents
<1>4. ReadBack[disk[k].body] = ReadBack[c.res]
  <2> DEFINE b == disk[k].body
             r == c.res
  <2>1. b \in Results /\ r \in Results
    BY <1>3 DEF Files, Commits
  <2>2. Canonical(ReadBack[b]) = Canonical(r)
    BY <1>1, <1>2
  <2> HIDE DEF b, r
  <2>3. ReadBack[b] = ReadBack[r]
    BY <2>1, <2>2, DigestDecides
  <2> QED
    BY <2>3 DEF b, r
<1> QED
  BY <1>1, <1>2, <1>4 DEF Load, ReadFile

(* However crashes, power losses, torn writes, damage and reopenings are        *)
(* interleaved, a hit loads the result of a commit of that key, hash and        *)
(* fingerprint.                                                                 *)
THEOREM NeverWrongHolds == Spec => []NeverWrong
  BY TypeCorrect, ManifestsVouchedFor, HitsAreRight, PTL

-----------------------------------------------------------------------------
(* A committed result survives.                                              *)

(* The platform and the results for which the store promises it: directories  *)
(* are fsynced or power never fails, no key looks like a temporary file, a     *)
(* sound manifest can be read, a result digests the same once read back, and    *)
(* a result the structure check rejects is refused by commit().                *)
Durable ==
    /\ DirFsync \/ ~PowerLossOn
    /\ TmpLike = {} /\ ~ReadFaults
    /\ \A r \in Results : Canonical(ReadBack[r]) = Canonical(r)
    /\ \A r \in Results : SchemaOf[ReadBack[r]] = SchemaOf[r]
    /\ \A r \in Results : r \notin Refused \/ ~ChecksCommit => ReadBack[r] \notin Refused

(* What a file may hold from now on, whatever happens to it. *)
Possible(n) == IF PowerLossOn THEN maybe[n] ELSE {disk[n]}

(* Payload and manifest of an acknowledged commit are the only contents the    *)
(* two files may ever show, and the open session knows the entry.              *)
AckedKept(a) ==
    /\ Possible(a.key) = {PayloadOf(a)}
    /\ \A d \in Possible(Manifest) :
         d \in Documents /\ d.fp = a.fp /\ d.entries[a.key] = EntryOf(a)
    /\ pc # "closed" => a.fp = fp /\ mem[a.key] = EntryOf(a)
    /\ pc \notin {"wiping", "emptied", "cleaning"}
    /\ pc \in Committing => cur.key # a.key

(* How far the commit in progress has come. *)
CommitStages ==
    /\ pc \in {"replaced", "publishing", "published"} => disk[cur.key] = PayloadOf(cur)
    /\ pc \in {"publishing", "published"} => mem[cur.key] = EntryOf(cur)
    /\ pc = "published" => disk[Manifest] = [fp |-> fp, entries |-> mem]

(* Nothing commit() refuses was ever issued. *)
IssuedAccepted == \A c \in issued : ChecksCommit => c.res \notin Refused

Survival == CommitStages /\ IssuedAccepted /\ (\A a \in acked : AckedKept(a))

(* What an acknowledged commit left is a hit in the open session. *)
LEMMA KeptIsHit ==
    ASSUME Durable, TypeOK, IssuedAccepted, pc # "closed",
           NEW a \in acked, AckedKept(a)
    PROVE  mem[a.key] # None /\ mem[a.key].hash = a.hash /\ Has(a.key, a.hash) = "hit"
<1>1. a \in Commits /\ a \in issued
  BY DEF TypeOK
<1>2. PayloadOf(a) \in Files /\ EntryOf(a) \in EntryRecords /\ a.key \in Keys /\ a.res \in Results
  BY <1>1, CommitForms DEF Commits
<1>3. disk[a.key] = PayloadOf(a)
  BY <1>2 DEF AckedKept, Possible, TypeOK, FilesOK, Names
<1>4. disk[a.key] \notin {Absent, Garbled} /\ EntryOf(a) # None
  BY <1>2, <1>3, SentinelAssumption
<1>5. mem[a.key] = EntryOf(a) /\ a.fp = fp
  BY DEF AckedKept
<1>6. /\ ReadBack[a.res] \notin Refused /\ Canonical(ReadBack[a.res]) = Canonical(a.res)
      /\ SchemaOf[ReadBack[a.res]] = SchemaOf[a.res]
  BY <1>1, <1>2 DEF Durable, IssuedAccepted
<1>7. Check(a.key, a.hash, disk[a.key], mem[a.key]) = "hit"
  BY <1>3, <1>5, <1>6 DEF Check, ReadFile, ValidStructure, PayloadOf, EntryOf
<1> QED
  BY <1>4, <1>5, <1>7 DEF Has, EntryOf

LEMMA InitSurvival == Init => Survival
  BY DEF Init, Survival, CommitStages, IssuedAccepted, Committing

(* The two files of an acknowledged commit stay what they are when nothing new  *)
(* becomes possible for its payload, and only manifests with its entry become   *)
(* possible for the manifest.                                                   *)
LEMMA FilesKept ==
    ASSUME FilesOK', NEW a \in Commits, AckedKept(a),
           Possible(a.key)' \subseteq Possible(a.key),
           \A d \in Possible(Manifest)' : d \in Possible(Manifest) \/
               (d \in Documents /\ d.fp = a.fp /\ d.entries[a.key] = EntryOf(a))
    PROVE  /\ Possible(a.key)' = {PayloadOf(a)}
           /\ \A d \in Possible(Manifest)' :
                d \in Documents /\ d.fp = a.fp /\ d.entries[a.key] = EntryOf(a)
<1>1. a.key \in Names
  BY DEF Commits, Names
<1>2. Possible(a.key)' # {}
  BY <1>1 DEF Possible, FilesOK
<1> QED
  BY <1>2 DEF AckedKept

(* Where directories are fsynced, an fsync leaves nothing else possible; it      *)
(* never makes anything possible.                                                *)
LEMMA FsyncSettles ==
    ASSUME FilesOK, FsyncDir, NEW n \in Names
    PROVE  /\ Possible(n)' \subseteq Possible(n)
           /\ Durable => Possible(n)' = {disk[n]}
  BY DEF FilesOK, FsyncDir, Possible, Durable

(* While a wipe or a cleanup is under way nothing is acknowledged. *)
LEMMA NothingAcked ==
    ASSUME Survival, pc \in {"wiping", "emptied", "cleaning"}
    PROVE  acked = {}
  BY DEF Survival, AckedKept

(* Every step keeps the acknowledged commits: a commit in progress is for another *)
(* key, since has() would have answered a hit or a collision, and the manifest it *)
(* publishes repeats their entries.                                               *)
LEMMA NextSurvival == Durable /\ TypeOK /\ TypeOK' /\ Survival /\ [Next]_vars => Survival'
<1> SUFFICES ASSUME Durable, TypeOK, TypeOK', Survival, [Next]_vars
             PROVE  CommitStages' /\ IssuedAccepted' /\ (\A a \in acked' : AckedKept(a)')
  BY DEF Survival
<1> USE DEF Committing
<1> DEFINE Goal == CommitStages' /\ IssuedAccepted' /\ (\A a \in acked' : AckedKept(a)')
<1>0. /\ FilesOK /\ FilesOK' /\ CommitStages /\ IssuedAccepted
      /\ \A a \in acked : AckedKept(a) /\ a \in Commits /\ a.key \in Keys
      /\ Manifest \in Names /\ Keys \subseteq Names /\ Manifest \notin Keys
  BY KeysAssumption DEF TypeOK, Survival, Names, Commits
<1>1. ASSUME NEW f \in Fingerprints, OpenValid(f) PROVE Goal
  <2>1. CommitStages' /\ IssuedAccepted'
    BY <1>0, <1>1 DEF OpenValid, CommitStages, IssuedAccepted
  <2>2. ASSUME NEW a \in acked' PROVE AckedKept(a)'
    <3>1. a \in acked /\ a.fp = f
      BY <1>1, <2>2 DEF OpenValid
    <3>2. disk[Manifest] \in Possible(Manifest)
      BY <1>0 DEF Possible, FilesOK
    <3>3. disk[Manifest].entries[a.key] = EntryOf(a)
      BY <1>0, <3>1, <3>2 DEF AckedKept
    <3>4. /\ Possible(a.key)' = Possible(a.key)
          /\ Possible(Manifest)' = Possible(Manifest)
      BY <1>1 DEF OpenValid, Possible
    <3> QED
      BY <1>0, <1>1, <3>1, <3>3, <3>4 DEF OpenValid, AckedKept
  <2> QED
    BY <2>1, <2>2
<1>2. ASSUME NEW f \in Fingerprints, OpenInvalid(f) PROVE Goal
  <2>1. CommitStages' /\ IssuedAccepted'
    BY <1>0, <1>2 DEF OpenInvalid, CommitStages, IssuedAccepted
  <2>2. ASSUME NEW a \in acked' PROVE FALSE
    <3>1. a \in acked /\ a.fp = f
      BY <1>2, <2>2 DEF OpenInvalid
    <3>2. disk[Manifest] \in Possible(Manifest)
      BY <1>0 DEF Possible, FilesOK
    <3>3. disk[Manifest] \in Documents /\ disk[Manifest].fp = f
      BY <1>0, <3>1, <3>2 DEF AckedKept
    <3>4. Usable(f)
      BY <3>3, SentinelAssumption DEF Usable
    <3> QED
      BY <1>2, <3>4 DEF OpenInvalid, Durable
  <2> QED
    BY <2>1, <2>2
<1>3. ASSUME NEW n \in Names, WipeOne(n) PROVE Goal
  BY <1>0, <1>3, NothingAcked DEF WipeOne, CommitStages, IssuedAccepted
<1>4. CASE WriteEmptyManifest
  BY <1>0, <1>4, NothingAcked DEF WriteEmptyManifest, CommitStages, IssuedAccepted
<1>5. CASE SyncEmptyManifest
  BY <1>0, <1>5, NothingAcked DEF SyncEmptyManifest, CommitStages, IssuedAccepted
<1>6. CASE Sweep
  <2>1. CommitStages' /\ IssuedAccepted'
    BY <1>0, <1>6 DEF Sweep, CommitStages, IssuedAccepted
  <2>2. disk' = disk /\ maybe' = maybe
    BY <1>0, <1>6 DEF Sweep, Durable, FilesOK
  <2>3. ASSUME NEW a \in acked' PROVE AckedKept(a)'
    BY <1>0, <1>6, <2>2, <2>3 DEF Sweep, AckedKept, Possible
  <2> QED
    BY <2>1, <2>3
<1>7. ASSUME NEW k \in Keys, NEW h \in Hashes, NEW r \in Results,
             NEW g \in Generations, WritePayload(k, h, r, g)
      PROVE  Goal
  <2>1. CommitStages' /\ IssuedAccepted'
    BY <1>0, <1>7 DEF WritePayload, ValidCommit, CommitStages, IssuedAccepted
  <2>2. ASSUME NEW a \in acked' PROVE AckedKept(a)'
    <3>1. a \in acked /\ pc = "ready" /\ Has(k, h) = "miss"
      BY <1>7, <2>2 DEF WritePayload
    <3>2. /\ mem[a.key] # None /\ mem[a.key].hash = a.hash
          /\ Has(a.key, a.hash) = "hit"
      BY <1>0, <3>1, KeptIsHit
    <3>3. k # a.key
      <4>1. CASE h = a.hash
        BY <3>1, <3>2, <4>1
      <4>2. CASE h # a.hash
        BY <3>1, <3>2, <4>2 DEF Has
      <4> QED
        BY <4>1, <4>2
    <3>4. cur'.key = k
      BY <1>7 DEF WritePayload
    <3> QED
      BY <1>0, <1>7, <3>1, <3>3, <3>4 DEF WritePayload, AckedKept, Possible
  <2> QED
    BY <2>1, <2>2
<1>8. CASE ReplacePayload
  <2>0. cur.key \in Keys
    BY <1>8, CommitForms DEF ReplacePayload, TypeOK
  <2>1. CommitStages' /\ IssuedAccepted'
    BY <1>0, <1>8, <2>0 DEF ReplacePayload, Put, CommitStages, IssuedAccepted, FilesOK
  <2>2. ASSUME NEW a \in acked' PROVE AckedKept(a)'
    <3>1. a \in acked /\ cur.key # a.key
      BY <1>0, <1>8, <2>2 DEF ReplacePayload, AckedKept
    <3>2. /\ Possible(a.key)' = Possible(a.key)
          /\ Possible(Manifest)' = Possible(Manifest)
      BY <1>0, <1>8, <2>0, <3>1 DEF ReplacePayload, Put, Possible, FilesOK
    <3> QED
      BY <1>0, <1>8, <3>1, <3>2 DEF ReplacePayload, AckedKept
  <2> QED
    BY <2>1, <2>2
<1>9. CASE SyncPayload
  <2>0. cur.key \in Keys /\ mem \in Entries
    BY <1>9, CommitForms DEF SyncPayload, TypeOK
  <2>1. CommitStages' /\ IssuedAccepted'
    BY <1>0, <1>9, <2>0 DEF SyncPayload, FsyncDir, CommitStages, IssuedAccepted, Entries
  <2>2. ASSUME NEW a \in acked' PROVE AckedKept(a)'
    <3>1. a \in acked /\ cur.key # a.key
      BY <1>0, <1>9, <2>2 DEF SyncPayload, AckedKept
    <3>2. /\ Possible(a.key)' \subseteq Possible(a.key)
          /\ Possible(Manifest)' \subseteq Possible(Manifest)
      BY <1>0, <1>9, <3>1, FsyncSettles DEF SyncPayload
    <3>3. /\ Possible(a.key)' = {PayloadOf(a)}
          /\ \A d \in Possible(Manifest)' :
               d \in Documents /\ d.fp = a.fp /\ d.entries[a.key] = EntryOf(a)
      BY <1>0, <3>1, <3>2, FilesKept
    <3>4. mem'[a.key] = mem[a.key]
      BY <1>0, <1>9, <2>0, <3>1 DEF SyncPayload, Entries
    <3> QED
      BY <1>0, <1>9, <3>1, <3>3, <3>4 DEF SyncPayload, AckedKept
  <2> QED
    BY <2>1, <2>2
<1>10. CASE PublishManifest
  <2>0. cur.key \in Keys /\ mem \in Entries /\ fp \in Fingerprints
    BY <1>10, CommitForms DEF PublishManifest, TypeOK
  <2>1. CommitStages' /\ IssuedAccepted'
    BY <1>0, <1>10, <2>0 DEF PublishManifest, Put, CommitStages, IssuedAccepted, FilesOK
  <2>2. ASSUME NEW a \in acked' PROVE AckedKept(a)'
    <3>1. /\ a \in acked /\ cur.key # a.key
          /\ a.fp = fp /\ mem[a.key] = EntryOf(a)
      BY <1>0, <1>10, <2>2 DEF PublishManifest, AckedKept
    <3>2. Possible(a.key)' = Possible(a.key)
      BY <1>0, <1>10, <3>1 DEF PublishManifest, Put, Possible, FilesOK
    <3>3. Possible(Manifest)' \subseteq
            Possible(Manifest) \cup {[fp |-> fp, entries |-> mem]}
      BY <1>0, <1>10 DEF PublishManifest, Put, Possible, FilesOK
    <3>4. [fp |-> fp, entries |-> mem] \in Documents
      BY <2>0 DEF Documents
    <3>5. /\ Possible(a.key)' = {PayloadOf(a)}
          /\ \A d \in Possible(Manifest)' :
               d \in Documents /\ d.fp = a.fp /\ d.entries[a.key] = EntryOf(a)
      BY <1>0, <3>1, <3>2, <3>3, <3>4, FilesKept
    <3> QED
      BY <1>0, <1>10, <3>1, <3>5 DEF PublishManifest, AckedKept
  <2> QED
    BY <2>1, <2>2
<1>11. CASE SyncManifest
  <2>0. /\ cur \in Commits /\ cur.key \in Keys /\ cur.fp = fp
        /\ mem \in Entries /\ fp \in Fingerprints
    BY <1>11, CommitForms DEF SyncManifest, TypeOK
  <2>1. CommitStages' /\ IssuedAccepted'
    BY <1>0, <1>11 DEF SyncManifest, CommitStages, IssuedAccepted
  <2>2. ASSUME NEW a \in acked PROVE AckedKept(a)'
    <3>1. /\ Possible(a.key)' \subseteq Possible(a.key)
          /\ Possible(Manifest)' \subseteq Possible(Manifest)
      BY <1>0, <1>11, FsyncSettles DEF SyncManifest
    <3>2. /\ Possible(a.key)' = {PayloadOf(a)}
          /\ \A d \in Possible(Manifest)' :
               d \in Documents /\ d.fp = a.fp /\ d.entries[a.key] = EntryOf(a)
      BY <1>0, <3>1, FilesKept
    <3> QED
      BY <1>0, <1>11, <3>2 DEF SyncManifest, AckedKept
  <2>3. ASSUME NEW a, a = cur PROVE AckedKept(a)'
    <3>1. /\ disk[a.key] = PayloadOf(a) /\ mem[a.key] = EntryOf(a)
          /\ disk[Manifest] = [fp |-> fp, entries |-> mem]
      BY <1>0, <1>11, <2>3 DEF SyncManifest, CommitStages
    <3>2. Possible(a.key)' = {disk[a.key]} /\ Possible(Manifest)' = {disk[Manifest]}
      BY <1>0, <1>11, <2>0, <2>3, FsyncSettles DEF SyncManifest
    <3>3. disk[Manifest] \in Documents
      BY <2>0, <3>1 DEF Documents
    <3> QED
      BY <1>11, <2>0, <2>3, <3>1, <3>2, <3>3 DEF SyncManifest, AckedKept
  <2>4. ASSUME NEW a \in acked' PROVE AckedKept(a)'
    BY <1>11, <2>2, <2>3, <2>4 DEF SyncManifest
  <2> QED
    BY <2>1, <2>4
<1>12. CASE CommitFails
  <2>0. cur.key \in Keys /\ mem \in Entries
    BY <1>12, CommitForms DEF CommitFails, TypeOK
  <2>1. CommitStages' /\ IssuedAccepted'
    BY <1>0, <1>12 DEF CommitFails, CommitStages, IssuedAccepted
  <2>2. ASSUME NEW a \in acked' PROVE AckedKept(a)'
    <3>1. a \in acked /\ cur.key # a.key
      BY <1>0, <1>12, <2>2 DEF CommitFails, AckedKept
    <3>2. mem'[a.key] = mem[a.key]
      BY <1>0, <1>12, <2>0, <3>1 DEF CommitFails, Entries
    <3> QED
      BY <1>0, <1>12, <3>1, <3>2 DEF CommitFails, AckedKept, Possible
  <2> QED
    BY <2>1, <2>2
<1>13. CASE CleanupBegin
  BY <1>0, <1>13 DEF CleanupBegin, CommitStages, IssuedAccepted
<1>14. ASSUME NEW n \in Names, CleanOne(n) PROVE Goal
  BY <1>0, <1>14, NothingAcked DEF CleanOne, CommitStages, IssuedAccepted
<1>15. CASE CleanupEnd
  BY <1>0, <1>15, NothingAcked DEF CleanupEnd, CommitStages, IssuedAccepted
<1>a. ASSUME Closed PROVE CommitStages' /\ IssuedAccepted'
  BY <1>0, <1>a DEF Closed, CommitStages, IssuedAccepted
<1>16. CASE ProcessEnds
  <2>1. ASSUME NEW a \in acked' PROVE AckedKept(a)'
    BY <1>0, <1>16, <2>1 DEF ProcessEnds, Closed, FilesUnchanged, AckedKept, Possible
  <2> QED
    BY <1>a, <1>16, <2>1 DEF ProcessEnds
<1>17. CASE PowerLoss
  <2>1. ASSUME NEW a \in acked' PROVE AckedKept(a)'
    <3>1. a \in acked /\ PowerLossOn
      BY <1>17, <2>1 DEF PowerLoss, Closed
    <3>2. \A n \in Names : Possible(n)' \subseteq Possible(n)
      BY <1>17 DEF PowerLoss, Possible
    <3>3. /\ Possible(a.key)' = {PayloadOf(a)}
          /\ \A d \in Possible(Manifest)' :
               d \in Documents /\ d.fp = a.fp /\ d.entries[a.key] = EntryOf(a)
      BY <1>0, <3>1, <3>2, FilesKept
    <3> QED
      BY <1>17, <3>3 DEF PowerLoss, Closed, AckedKept
  <2> QED
    BY <1>a, <1>17, <2>1 DEF PowerLoss
<1>18. ASSUME NEW n \in Names, Damage(n) PROVE Goal
  <2>1. CommitStages' /\ IssuedAccepted'
    BY <1>0, <1>18 DEF Damage, CommitStages, IssuedAccepted
  <2>2. ASSUME NEW a \in acked' PROVE AckedKept(a)'
    <3>1. a \in acked /\ n # a.key /\ n # Manifest
      BY <1>18, <2>2 DEF Damage
    <3>2. /\ Possible(a.key)' = Possible(a.key)
          /\ Possible(Manifest)' = Possible(Manifest)
      BY <1>0, <1>18, <3>1 DEF Damage, Possible, FilesOK
    <3> QED
      BY <1>0, <1>18, <3>1, <3>2 DEF Damage, AckedKept
  <2> QED
    BY <2>1, <2>2
<1>19. CASE UNCHANGED vars
  BY <1>0, <1>19 DEF vars, CommitStages, IssuedAccepted, AckedKept, Possible
<1> QED
  BY <1>1, <1>2, <1>3, <1>4, <1>5, <1>6, <1>7, <1>8, <1>9, <1>10, <1>11, <1>12,
     <1>13, <1>14, <1>15, <1>16, <1>17, <1>18, <1>19
  DEF Next, Open, Wipe, BeginCommit, Clean, DamageSome

LEMMA SurvivalIsEnough == Durable /\ TypeOK /\ Survival => AckedSurvives
<1> SUFFICES ASSUME Durable, TypeOK, Survival, pc = "ready", NEW a \in acked
             PROVE  Has(a.key, a.hash) = "hit"
  BY DEF AckedSurvives
<1>1. IssuedAccepted /\ AckedKept(a)
  BY DEF Survival
<1> QED
  BY <1>1, KeptIsHit

(* Where directories are fsynced or power does not fail, a commit that         *)
(* returned is a hit in every later session under its fingerprint, whatever     *)
(* crashes, failed commits and failed fsyncs came in between.                   *)
THEOREM AckedSurvivesHolds ==
    ASSUME Durable
    PROVE  Spec => []AckedSurvives
<1>1. Init => TypeOK /\ Survival
  BY InitTypes, InitSurvival
<1>2. TypeOK /\ Survival /\ [Next]_vars => (TypeOK /\ Survival)'
  BY NextTypes, NextSurvival
<1>3. TypeOK /\ Survival => AckedSurvives
  BY SurvivalIsEnough
<1> QED
  BY <1>1, <1>2, <1>3, PTL DEF Spec

-----------------------------------------------------------------------------
(* What has() vouches for is in the manifest on disk.                        *)

Bad == {Absent, Garbled}

(* Nothing new about key k: its file stays, becomes unreadable or goes, or only *)
(* its records are damaged.                                                   *)
Calm(k) ==
    \/ disk'[k] \in {Absent, Garbled, disk[k]}
    \/ /\ disk[k] \notin Bad
       /\ disk'[k].hash = disk[k].hash /\ disk'[k].gen = disk[k].gen

(* A step of the session writes at most one payload; only a power loss, which   *)
(* ends the session, may bring back an old one.                                *)
LEMMA PayloadsCalm ==
    ASSUME TypeOK, [Next]_vars, ~PowerLoss, NEW k \in Keys
    PROVE  Calm(k) \/ (ReplacePayload /\ k = cur.key /\ disk'[k] = PayloadOf(cur))
<1> USE DEF Calm
<1>0. k \in Names /\ k # Manifest /\ Manifest \in Names /\ disk \in [Names -> AnyContents]
  BY KeysAssumption DEF Names, TypeOK, FilesOK
<1>1. ASSUME NEW n \in Names, Unlink(n) PROVE Calm(k)
  BY <1>0, <1>1 DEF Unlink, Put, FilesUnchanged
<1>2. CASE Wipe \/ Clean
  BY <1>1, <1>2 DEF Wipe, WipeOne, Clean, CleanOne
<1>3. CASE WriteEmptyManifest \/ PublishManifest
  BY <1>0, <1>3 DEF WriteEmptyManifest, PublishManifest, Put
<1>4. CASE Sweep
  BY <1>0, <1>4 DEF Sweep
<1>5. CASE ReplacePayload
  BY <1>0, <1>5 DEF ReplacePayload, Put
<1>6. ASSUME NEW n \in Names, Damage(n) PROVE Calm(k)
  <2>1. PICK content \in Bad \cup
            IF n = Manifest \/ disk[n] = Garbled THEN {}
            ELSE {[disk[n] EXCEPT !.body = r] : r \in Results} :
          disk' = [disk EXCEPT ![n] = content]
    BY <1>6 DEF Damage, Bad
  <2>2. CASE k # n \/ content \in Bad
    BY <1>0, <2>1, <2>2 DEF Bad
  <2>3. CASE k = n /\ content \notin Bad
    <3>1. disk[k] \notin Bad /\ disk[k] \in Files
      BY <1>0, <1>6, <2>1, <2>3 DEF Damage, Bad, TypeOK, FilesOK, Contents
    <3>2. PICK r \in Results : content = [disk[k] EXCEPT !.body = r]
      BY <1>0, <2>1, <2>3
    <3>3. content.hash = disk[k].hash /\ content.gen = disk[k].gen
      BY <3>1, <3>2 DEF Files
    <3> QED BY <1>0, <2>1, <2>3, <3>1, <3>3
  <2> QED BY <2>2, <2>3
<1>7. CASE Open \/ BeginCommit \/ CommitFails \/ CleanupBegin \/ CleanupEnd \/ ProcessEnds
  BY <1>7 DEF Open, OpenValid, OpenInvalid, BeginCommit, WritePayload, CommitFails,
              CleanupBegin, CleanupEnd, ProcessEnds, FilesUnchanged
<1>8. CASE SyncEmptyManifest \/ SyncPayload \/ SyncManifest
  BY <1>8 DEF SyncEmptyManifest, SyncPayload, SyncManifest, FsyncDir
<1>9. CASE UNCHANGED vars
  BY <1>9 DEF vars
<1> QED BY <1>2, <1>3, <1>4, <1>5, <1>6, <1>7, <1>8, <1>9 DEF Next, DamageSome

(* While a session is open its manifest changes only when it is written, and    *)
(* goes only with a wipe or a cleanup.                                         *)
LEMMA ManifestCalm ==
    ASSUME TypeOK, [Next]_vars, pc \notin {"closed", "wiping", "cleaning"}, pc' # "closed"
    PROVE  \/ disk'[Manifest] = disk[Manifest]
           \/ PublishManifest /\ disk'[Manifest] = [fp |-> fp, entries |-> mem]
<1>0. Manifest \in Names /\ Manifest \notin Keys /\ TmpLike \subseteq Keys
      /\ disk \in [Names -> AnyContents]
  BY KeysAssumption DEF Names, TypeOK, FilesOK
<1>1. CASE Sweep
  BY <1>0, <1>1 DEF Sweep
<1>2. CASE ReplacePayload
  BY <1>0, <1>2, CommitForms DEF ReplacePayload, Put, TypeOK, Committing
<1>3. CASE PublishManifest
  BY <1>0, <1>3 DEF PublishManifest, Put
<1>4. ASSUME NEW n \in Names, Damage(n) PROVE disk'[Manifest] = disk[Manifest]
  BY <1>0, <1>4 DEF Damage
<1>5. CASE BeginCommit \/ CommitFails \/ CleanupBegin
  BY <1>5 DEF BeginCommit, WritePayload, CommitFails, CleanupBegin
<1>6. CASE SyncEmptyManifest \/ SyncPayload \/ SyncManifest
  BY <1>6 DEF SyncEmptyManifest, SyncPayload, SyncManifest, FsyncDir
<1>7. CASE UNCHANGED vars
  BY <1>7 DEF vars
<1> QED BY <1>1, <1>2, <1>3, <1>4, <1>5, <1>6, <1>7
        DEF Next, DamageSome, Open, OpenValid, OpenInvalid, Wipe, WipeOne,
            WriteEmptyManifest, Clean, CleanOne, CleanupEnd, ProcessEnds, PowerLoss, Closed

(* The commit in progress has a generation of its own, and its payload stays in  *)
(* place once it is there.                                                      *)
PayloadInPlace ==
    pc \in {"replaced", "publishing", "published"} => disk[cur.key] = PayloadOf(cur)
FreshGeneration ==
    /\ pc \in {"writing", "replaced"} /\ mem[cur.key] # None => mem[cur.key].gen # cur.gen
    /\ pc \in {"publishing", "published"} /\ prior # None => prior.gen # cur.gen

LEMMA CommitStep ==
    ASSUME TypeOK, Vouching, PayloadInPlace, FreshGeneration, [Next]_vars
    PROVE  PayloadInPlace' /\ FreshGeneration'
<1> USE DEF PayloadInPlace, FreshGeneration
<1>0. pc \in Committing => cur.key \in Keys /\ cur.key \in Names
  BY CommitForms DEF TypeOK, Names
<1>1. ASSUME NEW k \in Keys, NEW h \in Hashes, NEW r \in Results,
             NEW g \in Generations, WritePayload(k, h, r, g)
      PROVE  PayloadInPlace' /\ FreshGeneration'
  <2>1. /\ pc' = "writing" /\ cur'.key = k /\ cur'.gen = g /\ mem' = mem
        /\ \A c \in issued : c.gen # g
    BY <1>1 DEF WritePayload
  <2>2. mem[k] # None => \E c \in issued : c.gen = mem[k].gen
    BY <1>1 DEF WritePayload, Vouching, EntryVouched
  <2> QED BY <2>1, <2>2
<1>2. CASE ReplacePayload
  <2>1. disk'[cur.key] = PayloadOf(cur) /\ cur' = cur /\ mem' = mem /\ pc = "writing"
        /\ pc' = "replaced"
    BY <1>0, <1>2 DEF ReplacePayload, Put, TypeOK, FilesOK, Committing
  <2> QED BY <2>1 DEF PayloadOf
<1>3. CASE SyncPayload
  BY <1>3 DEF SyncPayload, FsyncDir, PayloadOf
<1>4. CASE PublishManifest
  <2>1. cur.key # Manifest /\ pc = "publishing" /\ pc' = "published"
        /\ cur' = cur /\ prior' = prior /\ mem' = mem
    BY <1>0, <1>4, KeysAssumption DEF PublishManifest, Committing
  <2>2. disk'[cur.key] = disk[cur.key]
    BY <1>0, <1>4, <2>1 DEF PublishManifest, Put, TypeOK, FilesOK, Committing
  <2> QED BY <2>1, <2>2 DEF PayloadOf
<1>5. CASE \/ Open \/ Wipe \/ WriteEmptyManifest \/ SyncEmptyManifest \/ Sweep
           \/ SyncManifest \/ CommitFails \/ CleanupBegin \/ Clean \/ CleanupEnd
           \/ ProcessEnds \/ PowerLoss \/ DamageSome
  <2>1. pc' \notin Committing
    BY <1>5 DEF Open, OpenValid, OpenInvalid, Wipe, WipeOne, WriteEmptyManifest,
                SyncEmptyManifest, Sweep, SyncManifest, CommitFails, CleanupBegin, Clean,
                CleanOne, CleanupEnd, ProcessEnds, PowerLoss, Closed, DamageSome, Damage,
                Committing
  <2> QED BY <2>1 DEF Committing
<1>6. CASE UNCHANGED vars
  BY <1>6 DEF vars, PayloadOf
<1> QED BY <1>1, <1>2, <1>3, <1>4, <1>5, <1>6 DEF Next, BeginCommit

(* No hit is possible with the entry in memory: its payload is not there (any    *)
(* more).                                                                       *)
DeadEntry(k) == mem[k] = None \/ disk[k] \in Bad \/ disk[k].gen # mem[k].gen

(* An entry in memory is in the manifest on disk too, or dead, or about to be    *)
(* published.                                                                   *)
MemIsDisk ==
    pc \notin {"closed", "wiping", "cleaning"} /\ dir = "live" =>
        /\ disk[Manifest] \notin Bad /\ disk[Manifest].fp = fp
        /\ \A k \in Keys : \/ pc = "publishing" /\ k = cur.key
                           \/ disk[Manifest].entries[k] = mem[k]
                           \/ DeadEntry(k)

LEMMA MemIsDiskStep ==
    ASSUME TypeOK, PayloadInPlace, FreshGeneration, MemIsDisk, [Next]_vars
    PROVE  MemIsDisk'
<1> SUFFICES ASSUME pc' \notin {"closed", "wiping", "cleaning"}, dir' = "live"
             PROVE  MemIsDisk!2'
  BY DEF MemIsDisk
<1>0. pc \in Committing => cur.key \in Keys
  BY CommitForms DEF TypeOK
<1>1. ASSUME NEW f \in Fingerprints, OpenValid(f)
      PROVE  MemIsDisk!2'
  BY <1>1 DEF OpenValid, Usable, Bad
<1>2. CASE WriteEmptyManifest
  <2>1. disk'[Manifest] = [fp |-> fp, entries |-> mem] /\ fp' = fp /\ mem' = mem
    BY <1>2 DEF WriteEmptyManifest, Put, TypeOK, FilesOK, Names
  <2>2. [fp |-> fp, entries |-> mem] \in Documents
    BY <1>2 DEF WriteEmptyManifest, TypeOK, Documents
  <2> QED BY <2>1, <2>2, SentinelAssumption DEF Bad
<1>3. ASSUME pc \notin {"closed", "wiping", "cleaning"}, dir = "live"
      PROVE  MemIsDisk!2'
  <2>0. /\ disk[Manifest] \notin Bad /\ disk[Manifest].fp = fp
        /\ \A k \in Keys : \/ pc = "publishing" /\ k = cur.key
                           \/ disk[Manifest].entries[k] = mem[k]
                           \/ DeadEntry(k)
    BY <1>3 DEF MemIsDisk
  <2>1. ~PowerLoss /\ fp' = fp
    BY <1>3 DEF Next, vars, PowerLoss, Closed, Open, OpenValid, OpenInvalid, Wipe, WipeOne,
                WriteEmptyManifest, SyncEmptyManifest, Sweep, BeginCommit, WritePayload,
                ReplacePayload, SyncPayload, PublishManifest, SyncManifest, CommitFails,
                CleanupBegin, Clean, CleanOne, CleanupEnd, ProcessEnds, DamageSome, Damage
  <2>2. CASE PublishManifest
    <3>1. disk'[Manifest] = [fp |-> fp, entries |-> mem] /\ mem' = mem
      BY <2>2 DEF PublishManifest, Put, TypeOK, FilesOK, Names
    <3>2. [fp |-> fp, entries |-> mem] \in Documents
      BY <2>2 DEF PublishManifest, TypeOK, Documents
    <3> QED BY <2>1, <3>1, <3>2, SentinelAssumption DEF Bad
  <2>3. CASE ~PublishManifest
    <3>1. disk'[Manifest] = disk[Manifest]
      BY <1>3, <2>3, ManifestCalm
    <3>2. ASSUME NEW k \in Keys
          PROVE  \/ (pc = "publishing" /\ k = cur.key)'
                 \/ disk'[Manifest].entries[k] = mem'[k]
                 \/ DeadEntry(k)'
      <4>1. Calm(k) \/ (ReplacePayload /\ k = cur.key /\ disk'[k] = PayloadOf(cur))
        BY <2>1, PayloadsCalm
      <4>2. CASE ReplacePayload /\ k = cur.key /\ disk'[k] = PayloadOf(cur)
        BY <4>2 DEF ReplacePayload, FreshGeneration, DeadEntry, PayloadOf
      <4>3. CASE CommitFails /\ k = cur.key /\ pc \in {"publishing", "published"}
        <5>1. mem'[k] = prior /\ disk'[k] = PayloadOf(cur)
          BY <4>3 DEF CommitFails, TypeOK, Entries, PayloadInPlace
        <5> QED BY <4>3, <5>1 DEF FreshGeneration, DeadEntry, PayloadOf
      <4>4. CASE SyncPayload /\ k = cur.key
        BY <4>4 DEF SyncPayload
      <4>5. CASE Calm(k) /\ mem'[k] = mem[k] /\ ~(pc = "publishing" /\ k = cur.key)
        BY <2>0, <3>1, <4>5 DEF Calm, DeadEntry, Bad
      <4>6. pc = "publishing" => CommitFails \/ UNCHANGED vars
        BY <1>3, <2>1, <2>3
        DEF Next, Open, OpenValid, OpenInvalid, Wipe, WipeOne,
            WriteEmptyManifest, SyncEmptyManifest, Sweep, BeginCommit, WritePayload,
            ReplacePayload, SyncPayload, PublishManifest, SyncManifest,
            CleanupBegin, Clean, CleanOne, CleanupEnd, ProcessEnds, DamageSome, Damage, Closed
      <4>7. \/ mem'[k] = mem[k] \/ (SyncPayload /\ k = cur.key)
            \/ (CommitFails /\ k = cur.key /\ pc \in {"publishing", "published"})
        BY <1>3, <2>1, <2>3
        DEF Next, vars, Open, OpenValid, OpenInvalid, Wipe, WipeOne,
            WriteEmptyManifest, SyncEmptyManifest, Sweep, BeginCommit, WritePayload,
            ReplacePayload, SyncPayload, PublishManifest, SyncManifest, CommitFails,
            CleanupBegin, Clean, CleanOne, CleanupEnd, ProcessEnds, DamageSome, Damage, Closed,
            TypeOK, Entries
      <4>8. CASE UNCHANGED vars
        BY <2>0, <4>8 DEF vars, DeadEntry
      <4> QED BY <4>1, <4>2, <4>3, <4>4, <4>5, <4>6, <4>7, <4>8
    <3> QED BY <2>0, <2>1, <3>1, <3>2
  <2> QED BY <2>2, <2>3
<1> QED BY <1>1, <1>2, <1>3
        DEF Next, vars, Open, OpenInvalid, Wipe, WipeOne, SyncEmptyManifest, Sweep, BeginCommit,
            WritePayload, ReplacePayload, SyncPayload, PublishManifest, SyncManifest,
            CommitFails, CleanupBegin, Clean, CleanOne, CleanupEnd, ProcessEnds, PowerLoss,
            DamageSome, Damage, Closed, Committing

(* has() answers a hit only for what the manifest on disk vouches for, whatever   *)
(* failed before, on every platform (commit()'s roll-back, and the generation in  *)
(* file and entry).                                                              *)
THEOREM VouchedOnDiskHolds == Spec => []VouchedOnDisk
<1> DEFINE Inv == PayloadInPlace /\ FreshGeneration /\ MemIsDisk
<1>1. Init => Inv
  BY DEF Init, PayloadInPlace, FreshGeneration, MemIsDisk
<1>2. TypeOK /\ Vouching /\ Inv /\ [Next]_vars => Inv'
  BY CommitStep, MemIsDiskStep
<1>3. ASSUME MemIsDisk
      PROVE  VouchedOnDisk
  <2> SUFFICES ASSUME pc = "ready", dir = "live", NEW k \in Keys, NEW h \in Hashes,
                      Has(k, h) = "hit"
               PROVE  /\ disk[Manifest] \notin Bad /\ disk[Manifest].fp = fp
                      /\ disk[Manifest].entries[k] = mem[k]
    BY DEF VouchedOnDisk, Bad
  <2>1. ~DeadEntry(k)
    BY DEF Has, Check, DeadEntry, Bad
  <2> QED BY <1>3, <2>1 DEF MemIsDisk
<1> HIDE DEF Inv
<1>4. Inv => MemIsDisk
  BY DEF Inv
<1> QED BY <1>1, <1>2, <1>3, <1>4, TypeCorrect, ManifestsVouchedFor, PTL DEF Spec

-----------------------------------------------------------------------------
(* A payload of another hash never lies under an entry, while power lasts.      *)

(* The payload of key k, if it can be read, has a hash issued under f. *)
HashVouched(k, f) ==
    disk[k] \in Bad \/ \E c \in issued : c.key = k /\ c.fp = f /\ c.hash = disk[k].hash

(* An entry on disk or in memory lies over no payload that another fingerprint    *)
(* left; a payload is replaced only under the manifest of its own.                *)
DiskHashes ==
    disk[Manifest] \notin Bad =>
        /\ \A k \in Keys : disk[Manifest].entries[k] # None =>
             HashVouched(k, disk[Manifest].fp)
        /\ pc \notin {"closed", "wiping"} => disk[Manifest].fp = fp
MemHashes == pc # "closed" => \A k \in Keys : mem[k] # None => HashVouched(k, fp)
CurHash == pc \in {"replaced", "publishing", "published"} => HashVouched(cur.key, fp)

(* What is vouched for stays so, unless power fails. *)
LEMMA HashStays ==
    ASSUME TypeOK, [Next]_vars, ~PowerLoss, NEW k \in Keys, NEW f,
           HashVouched(k, f), ReplacePayload /\ k = cur.key => f = fp
    PROVE  HashVouched(k, f)'
<1>1. issued \subseteq issued'
  BY DEF Next, vars, PowerLoss, Closed, Open, OpenValid, OpenInvalid, Wipe, WipeOne,
         WriteEmptyManifest, SyncEmptyManifest, Sweep, BeginCommit, WritePayload,
         ReplacePayload, SyncPayload, PublishManifest, SyncManifest, CommitFails,
         CleanupBegin, Clean, CleanOne, CleanupEnd, ProcessEnds, DamageSome, Damage
<1>2. CASE Calm(k)
  BY <1>1, <1>2 DEF Calm, HashVouched, Bad
<1>3. CASE ReplacePayload /\ k = cur.key /\ disk'[k] = PayloadOf(cur)
  <2>1. cur \in issued /\ cur.fp = f
    BY <1>3 DEF ReplacePayload, TypeOK, Committing
  <2> QED BY <1>1, <1>3, <2>1 DEF HashVouched, PayloadOf
<1> QED BY <1>2, <1>3, PayloadsCalm

(* The step that puts a payload in place is that of a commit under fp. *)
LEMMA ReplacedHash ==
    ASSUME TypeOK, ReplacePayload
    PROVE  cur.key \in Keys /\ HashVouched(cur.key, fp)'
<1>1. /\ cur \in issued /\ cur.fp = fp /\ cur.key \in Keys
      /\ disk' = [disk EXCEPT ![cur.key] = PayloadOf(cur)]
      /\ UNCHANGED <<issued, cur, fp>>
  BY CommitForms DEF ReplacePayload, Put, TypeOK, Committing
<1>2. disk'[cur.key] = PayloadOf(cur)
  BY <1>1 DEF TypeOK, FilesOK, Names
<1> QED BY <1>1, <1>2 DEF HashVouched, PayloadOf

(* The manifest on disk is the one that was there, unreadable or gone, or the one *)
(* that the session writes of its own entries.                                   *)
LEMMA ManifestWritten ==
    ASSUME TypeOK, [Next]_vars, ~PowerLoss
    PROVE  \/ disk'[Manifest] \in {Absent, Garbled, disk[Manifest]}
           \/ /\ pc # "closed" /\ pc' \in {"emptied", "published"} /\ fp' = fp /\ mem' = mem
              /\ disk'[Manifest] = [fp |-> fp, entries |-> mem]
<1>0. Manifest \in Names /\ Manifest \notin Keys /\ TmpLike \subseteq Keys
      /\ disk \in [Names -> AnyContents]
  BY KeysAssumption DEF Names, TypeOK, FilesOK
<1>1. ASSUME NEW n \in Names, Unlink(n)
      PROVE  disk'[Manifest] \in {Absent, disk[Manifest]}
  BY <1>0, <1>1 DEF Unlink, Put, FilesUnchanged
<1>2. CASE Wipe \/ Clean
  BY <1>1, <1>2 DEF Wipe, WipeOne, Clean, CleanOne
<1>3. CASE WriteEmptyManifest \/ PublishManifest
  BY <1>0, <1>3 DEF WriteEmptyManifest, PublishManifest, Put
<1>4. CASE Sweep
  BY <1>0, <1>4 DEF Sweep
<1>5. CASE ReplacePayload
  BY <1>0, <1>5, CommitForms DEF ReplacePayload, Put, TypeOK, Committing
<1>6. ASSUME NEW n \in Names, Damage(n)
      PROVE  disk'[Manifest] \in {Absent, Garbled, disk[Manifest]}
  BY <1>0, <1>6 DEF Damage
<1>7. CASE Open \/ BeginCommit \/ CommitFails \/ CleanupBegin \/ CleanupEnd \/ ProcessEnds
  BY <1>7 DEF Open, OpenValid, OpenInvalid, BeginCommit, WritePayload, CommitFails,
              CleanupBegin, CleanupEnd, ProcessEnds, FilesUnchanged
<1>8. CASE SyncEmptyManifest \/ SyncPayload \/ SyncManifest
  BY <1>8 DEF SyncEmptyManifest, SyncPayload, SyncManifest, FsyncDir
<1>9. CASE UNCHANGED vars
  BY <1>9 DEF vars
<1> QED BY <1>2, <1>3, <1>4, <1>5, <1>6, <1>7, <1>8, <1>9 DEF Next, DamageSome

(* A step of an open session leaves its fingerprint, and the entries of all keys  *)
(* but that of the commit in progress.                                           *)
LEMMA SessionGoesOn ==
    ASSUME TypeOK, [Next]_vars, pc' # "closed", ~Open
    PROVE  /\ pc # "closed" /\ fp' = fp
           /\ \A k \in Keys : \/ mem'[k] = mem[k]
                              \/ k = cur.key /\ pc \in {"replaced", "publishing", "published"}
           /\ pc = "wiping" => pc' = "wiping" \/ WriteEmptyManifest
<1>0. mem \in [Keys -> EntryRecords \cup {None}]
  BY DEF TypeOK, Entries
<1>1. CASE SyncPayload
  BY <1>0, <1>1 DEF SyncPayload
<1>2. CASE CommitFails
  BY <1>0, <1>2 DEF CommitFails, Committing
<1>3. CASE Wipe \/ WriteEmptyManifest \/ SyncEmptyManifest \/ Sweep
  BY <1>3 DEF Wipe, WipeOne, WriteEmptyManifest, SyncEmptyManifest, Sweep
<1>4. CASE BeginCommit \/ ReplacePayload \/ PublishManifest \/ SyncManifest
  BY <1>4 DEF BeginCommit, WritePayload, ReplacePayload, PublishManifest, SyncManifest
<1>5. CASE CleanupBegin \/ Clean \/ CleanupEnd
  BY <1>5 DEF CleanupBegin, Clean, CleanOne, CleanupEnd
<1>6. CASE ProcessEnds \/ PowerLoss
  BY <1>6 DEF ProcessEnds, PowerLoss, Closed
<1>7. CASE DamageSome \/ UNCHANGED vars
  BY <1>7 DEF DamageSome, Damage, vars
<1> QED BY <1>1, <1>2, <1>3, <1>4, <1>5, <1>6, <1>7 DEF Next

(* A commit in progress goes on. *)
LEMMA CommitGoesOn ==
    ASSUME [Next]_vars, pc' \in {"replaced", "publishing", "published"}, ~ReplacePayload
    PROVE  /\ cur' = cur /\ fp' = fp
           /\ pc \in {"replaced", "publishing", "published"}
BY DEF Next, vars, PowerLoss, Closed, Open, OpenValid, OpenInvalid, Wipe, WipeOne,
       WriteEmptyManifest, SyncEmptyManifest, Sweep, BeginCommit, WritePayload,
       ReplacePayload, SyncPayload, PublishManifest, SyncManifest, CommitFails,
       CleanupBegin, Clean, CleanOne, CleanupEnd, ProcessEnds, DamageSome, Damage

LEMMA HashesStep ==
    ASSUME TypeOK, ~PowerLoss, DiskHashes, MemHashes, CurHash, [Next]_vars
    PROVE  DiskHashes' /\ MemHashes' /\ CurHash'
<1>0. pc \in Committing => cur.key \in Keys
  BY CommitForms DEF TypeOK
<1>1. ASSUME NEW k \in Keys, HashVouched(k, fp)
      PROVE  HashVouched(k, fp)'  \/ fp' # fp
  BY <1>1, HashStays DEF HashVouched
<1>2. ASSUME disk[Manifest] \notin Bad, NEW k \in Keys, disk[Manifest].entries[k] # None,
             NEW f, f = disk[Manifest].fp
      PROVE  HashVouched(k, f)'
  <2>1. HashVouched(k, f)
    BY <1>2 DEF DiskHashes
  <2>2. ReplacePayload => f = fp
    BY <1>2 DEF DiskHashes, ReplacePayload
  <2> QED BY <2>1, <2>2, HashStays
<1>3. DiskHashes'
  <2> SUFFICES ASSUME disk'[Manifest] \notin Bad
               PROVE  /\ \A k \in Keys : disk'[Manifest].entries[k] # None =>
                           HashVouched(k, disk[Manifest].fp)'
                      /\ pc' \notin {"closed", "wiping"} => disk'[Manifest].fp = fp'
    BY DEF DiskHashes
  <2>1. CASE disk'[Manifest] = [fp |-> fp, entries |-> mem] /\ fp' = fp /\ pc # "closed"
    <3>1. ASSUME NEW k \in Keys, mem[k] # None
          PROVE  HashVouched(k, fp)'
      BY <1>1, <2>1, <3>1 DEF MemHashes
    <3> QED BY <2>1, <3>1 DEF HashVouched
  <2>2. CASE disk'[Manifest] = disk[Manifest] /\ ~WriteEmptyManifest
    <3>1. \A k \in Keys : disk'[Manifest].entries[k] # None =>
            HashVouched(k, disk[Manifest].fp)'
      BY <1>2, <2>2 DEF HashVouched
    <3>2. ASSUME pc' \notin {"closed", "wiping"}
          PROVE  disk'[Manifest].fp = fp'
      <4>1. CASE Open
        BY <2>2, <3>2, <4>1 DEF Open, OpenValid, OpenInvalid, Usable
      <4>2. CASE ~Open
        <5>1. pc \notin {"closed", "wiping"} /\ fp' = fp
          BY <2>2, <3>2, <4>2, SessionGoesOn
        <5> QED BY <2>2, <5>1 DEF DiskHashes
      <4> QED BY <4>1, <4>2
    <3> QED BY <3>1, <3>2
  <2>3. CASE WriteEmptyManifest
    <3>1. disk'[Manifest] = [fp |-> fp, entries |-> mem] /\ fp' = fp /\ pc # "closed"
      BY <2>3 DEF WriteEmptyManifest, Put, TypeOK, FilesOK, Names
    <3> QED BY <2>1, <3>1
  <2> QED BY <2>1, <2>2, <2>3, ManifestWritten DEF Bad
<1>4. MemHashes'
  <2> SUFFICES ASSUME pc' # "closed", NEW k \in Keys, mem'[k] # None
               PROVE  HashVouched(k, fp)'
    BY DEF MemHashes
  <2>1. ASSUME NEW f \in Fingerprints, OpenValid(f)
        PROVE  HashVouched(k, fp)'
    <3>1. disk[Manifest] \notin Bad /\ f = disk[Manifest].fp /\ fp' = f
          /\ mem' = disk[Manifest].entries
      BY <2>1 DEF OpenValid, Usable, Bad
    <3>2. HashVouched(k, f)'
      BY <1>2, <3>1
    <3> QED BY <3>1, <3>2 DEF HashVouched
  <2>2. ASSUME NEW f \in Fingerprints, OpenInvalid(f)
        PROVE  FALSE
    BY <2>2 DEF OpenInvalid, NoEntries
  <2>3. CASE ~Open
    <3>1. HashVouched(k, fp) /\ fp' = fp
      BY <2>3, SessionGoesOn DEF MemHashes, CurHash
    <3> QED BY <1>1, <3>1
  <2> QED BY <2>1, <2>2, <2>3 DEF Open
<1>5. CurHash'
  <2> SUFFICES ASSUME pc' \in {"replaced", "publishing", "published"}
               PROVE  HashVouched(cur.key, fp)'
    BY DEF CurHash
  <2>1. CASE ReplacePayload
    BY <2>1, ReplacedHash
  <2>2. CASE ~ReplacePayload
    <3>1. ~Open
      BY DEF Open, OpenValid, OpenInvalid
    <3>2. cur' = cur /\ fp' = fp /\ pc \in {"replaced", "publishing", "published"}
      BY <2>2, CommitGoesOn
    <3>3. HashVouched(cur.key, fp) /\ cur.key \in Keys
      BY <1>0, <3>2 DEF CurHash, Committing
    <3>4. HashVouched(cur.key, fp)' \/ fp' # fp
      BY <1>1, <3>2, <3>3 DEF HashVouched
    <3> QED BY <3>2, <3>4
  <2> QED BY <2>1, <2>2
<1> QED BY <1>3, <1>4, <1>5

(* Where only the process can die, a torn state is a miss and has() does not      *)
(* raise: a payload under an entry was committed under the same fingerprint,      *)
(* which gave the key one hash (_check before the generations are compared).      *)
(* After a power loss this need not be so, not even with directory fsyncs.        *)
THEOREM TornWriteIsMissHolds ==
    ASSUME ~PowerLossOn
    PROVE  Spec => []TornWriteIsMiss
<1> DEFINE Inv == DiskHashes /\ MemHashes /\ CurHash
<1>1. Init => Inv
  BY DEF Init, DiskHashes, MemHashes, CurHash, Names, Bad
<1>2. TypeOK /\ Inv /\ [Next]_vars => Inv'
  BY HashesStep DEF PowerLoss
<1>3. ASSUME Vouching, Inv
      PROVE  TornWriteIsMiss
  <2> SUFFICES ASSUME pc = "ready", NEW k \in Keys, mem[k] # None, OneHash(k)
               PROVE  Has(k, mem[k].hash) # "collision"
    BY DEF TornWriteIsMiss
  <2>1. PICK c \in issued : c.key = k /\ c.fp = fp /\ c.hash = mem[k].hash
    BY <1>3 DEF Vouching, EntryVouched
  <2>2. HashVouched(k, fp)
    BY <1>3 DEF MemHashes
  <2>3. disk[k] \in Bad \/ disk[k].hash = mem[k].hash
    BY <2>1, <2>2 DEF HashVouched, OneHash
  <2> QED BY <2>3 DEF Has, Check, Bad
<1> HIDE DEF Inv
<1> QED BY <1>1, <1>2, <1>3, TypeCorrect, ManifestsVouchedFor, PTL DEF Spec
=============================================================================
