----------------------------- MODULE ManifestStore -----------------------------
(***************************************************************************)
(* The durable checkpoint cache of one job: AtomicManifestStore             *)
(* (stores/base.py) with its finalisation protocol (durability.py) and the  *)
(* points where the Parquet and JSONL stores differ.                        *)
(*                                                                         *)
(* A cache directory holds one payload file per content key and one         *)
(* manifest file.  Sessions follow one another: a process opens the         *)
(* directory under a fingerprint, commits, cleans up or simply ends, at any *)
(* point.  A power loss may undo every rename and unlink that no directory  *)
(* fsync has made durable, each file on its own.                            *)
(*                                                                         *)
(* What is abstracted: a fingerprint here stands for the pair (fingerprint, *)
(* SCHEMA_VERSION); a SHA-256 digest, the byte length and the record count  *)
(* of a result are one value, the canonical form of the result; temporary   *)
(* files appear only through their effect (a rename, or nothing).           *)
(***************************************************************************)
EXTENDS Naturals, FiniteSets

CONSTANTS
    Keys,           \* content keys
    Hashes,         \* full payload hashes
    Fingerprints,   \* job fingerprints a session may be opened with
    Results,        \* results an executor may produce
    Generations,    \* per-commit generation ids (uuid4), each used once
    ReadBack,       \* what serialising a result and reading it gives
    Normalizes,     \* TRUE: digest the read-back form (Parquet); FALSE: the raw one (JSONL)
    Schemas,        \* recorded schemas
    SchemaOf,       \* the schema a store derives from a result (JSONL: one and the same)
    Refused,        \* results the record validator / expected schema rejects
    ChecksCommit,   \* TRUE: commit() refuses them too (Parquet); FALSE: it does not (JSONL)
    TmpLike,        \* keys whose file name matches the sweep's "*.tmp.*" pattern
    DirFsync,       \* TRUE: POSIX, directories are fsynced; FALSE: Windows
    PowerLossOn,    \* power may fail, not only the process
    ReadFaults,     \* reading a sound manifest may fail with an OSError
    MaxDamage,      \* bound: how often a file is damaged from outside
    Manifest,       \* the name of the manifest file
    None, Absent, Garbled   \* sentinels: no entry, no file, unreadable content

ASSUME KeysAssumption == Manifest \notin Keys /\ TmpLike \subseteq Keys
ASSUME ReadBackAssumption ==
    /\ ReadBack \in [Results -> Results]
    /\ \A r \in Results : ReadBack[ReadBack[r]] = ReadBack[r]
ASSUME SchemaAssumption == SchemaOf \in [Results -> Schemas]
ASSUME FlagsAssumption ==
    /\ {Normalizes, ChecksCommit, DirFsync, PowerLossOn, ReadFaults} \subseteq BOOLEAN
    /\ Refused \subseteq Results
    /\ MaxDamage \in Nat

(* _digest_info: the digest (with length and count) of a result. *)
Canonical(r) == IF Normalizes THEN ReadBack[r] ELSE r

Names == Keys \cup {Manifest}

(* A payload file: the identity embedded in it, and its records. *)
Files == [key : Keys, hash : Hashes, fp : Fingerprints, gen : Generations,
          schema : Schemas, digest : Results, body : Results]

(* What the manifest says of one key, and the whole manifest document. *)
EntryRecords == [hash : Hashes, gen : Generations, digest : Results]
Entries == [Keys -> EntryRecords \cup {None}]
NoEntries == [k \in Keys |-> None]
Documents == [fp : Fingerprints, entries : Entries]

ASSUME SentinelAssumption ==
    /\ None \notin EntryRecords
    /\ {Absent, Garbled} \cap (Files \cup Documents) = {}
    /\ Absent # Garbled

Contents(n) ==
    (IF n = Manifest THEN Documents ELSE Files) \cup {Absent, Garbled}
AnyContents == Documents \cup Files \cup {Absent, Garbled}

(* A call of commit(): what the producer handed over, under which identity. *)
Commits == [key : Keys, hash : Hashes, fp : Fingerprints, gen : Generations,
            res : Results]

VARIABLES
    disk,    \* file name -> content, as the file system shows it now
    maybe,   \* file name -> the contents a power loss may leave it with
    fp,      \* the fingerprint of the open session, or None
    mem,     \* the session's copy of the manifest entries (self._entries)
    pc,      \* where the session is
    cur,     \* the commit in progress, or None
    prior,   \* the entry that commit replaced in mem
    todo,    \* files a wipe or a cleanup has still to visit
    dir,     \* "live", or after cleanup() "cleaned" (files left) or "gone"
    issued,  \* history: every commit whose payload was written
    acked,   \* history: commits that returned, not invalidated since
    damage   \* how many files have been damaged from outside

vars == <<disk, maybe, fp, mem, pc, cur, prior, todo, dir, issued, acked, damage>>

Phases == {"closed", "wiping", "emptied", "sweeping", "ready", "writing",
           "replaced", "publishing", "published", "cleaning"}

(* The phases of a commit in progress. *)
Committing == {"writing", "replaced", "publishing", "published"}

(* Every file holds what its name calls for; what it shows is one of the      *)
(* contents a power loss may leave.                                           *)
FilesOK ==
    /\ disk \in [Names -> AnyContents]
    /\ maybe \in [Names -> SUBSET AnyContents]
    /\ \A n \in Names : maybe[n] \subseteq Contents(n)
    /\ \A n \in Names : disk[n] \in maybe[n]

TypeOK ==
    /\ FilesOK
    /\ fp \in Fingerprints \cup {None}
    /\ mem \in Entries
    /\ pc \in Phases
    /\ cur \in Commits \cup {None}
    /\ prior \in EntryRecords \cup {None}
    /\ todo \subseteq Names
    /\ dir \in {"live", "cleaned", "gone"}
    /\ issued \subseteq Commits
    /\ acked \subseteq issued
    /\ damage \in 0 .. MaxDamage
    /\ pc # "closed" => fp \in Fingerprints
    /\ pc \in Committing => cur \in issued /\ cur.fp = fp

Init ==
    /\ disk = [n \in Names |-> Absent]
    /\ maybe = [n \in Names |-> {Absent}]
    /\ fp = None /\ mem = NoEntries /\ pc = "closed"
    /\ cur = None /\ prior = None /\ todo = {} /\ dir = "live"
    /\ issued = {} /\ acked = {} /\ damage = 0

-----------------------------------------------------------------------------
(* The file system. *)

(* os.replace or unlink of one file: visible at once, durable later. *)
Put(n, content) ==
    /\ disk' = [disk EXCEPT ![n] = content]
    /\ maybe' = [maybe EXCEPT ![n] = @ \cup {content}]

(* _fsync_dir: all directory changes so far are durable; a no-op on Windows. *)
FsyncDir ==
    /\ maybe' = IF DirFsync THEN [n \in Names |-> {disk[n]}] ELSE maybe
    /\ UNCHANGED disk

FilesUnchanged == UNCHANGED <<disk, maybe>>

-----------------------------------------------------------------------------
(* Reading: has() and load(). *)

(* _read_file on a file that can be read: its records, as they come back. *)
ReadFile(file) == ReadBack[file.body]

(* _validate_structure: the recorded schema is that of what was read, and the    *)
(* record validator or the expected schema accepts it.  _validate_commit applies *)
(* the latter to what is about to be written.                                    *)
ValidStructure(r, schema) == SchemaOf[r] = schema /\ r \notin Refused
ValidCommit(r) == ChecksCommit => r \notin Refused

(* Mutants of Check: the digest is compared but not recomputed over the body;  *)
(* the file is not held against the manifest entry.                            *)
CheckTrustingDigest(k, h, file, entry) ==
    IF file.hash # h THEN "collision"
    ELSE IF file.key = k /\ file.fp = fp /\ file.gen = entry.gen
            /\ ValidStructure(ReadFile(file), file.schema) /\ file.digest = entry.digest
         THEN "hit" ELSE "miss"
CheckWithoutEntry(k, h, file, entry) ==
    IF file.hash # h THEN "collision"
    ELSE IF file.key = k /\ file.fp = fp /\ ValidStructure(ReadFile(file), file.schema)
            /\ file.digest = Canonical(ReadFile(file))
         THEN "hit" ELSE "miss"

(* _check: identity first, then structure and completeness of the body,     *)
(* then agreement of the file with the manifest entry.                      *)
Check(k, h, file, entry) ==
    IF file.hash # h THEN "collision"
    ELSE IF /\ file.key = k
            /\ file.fp = fp
            /\ ValidStructure(ReadFile(file), file.schema)
            /\ file.digest = Canonical(ReadFile(file))
            /\ file.gen = entry.gen
            /\ file.digest = entry.digest
         THEN "hit" ELSE "miss"

(* has(k, h): "hit", "miss", or the ContentKeyCollisionError it raises. *)
Has(k, h) ==
    IF mem[k] = None THEN "miss"
    ELSE IF mem[k].hash # h THEN "collision"
    ELSE IF disk[k] \in {Absent, Garbled} THEN "miss"
    ELSE Check(k, h, disk[k], mem[k])

(* load(k, h) returns this when has(k, h) is a hit. *)
Load(k) == ReadFile(disk[k])

-----------------------------------------------------------------------------
(* Opening the directory: __init__. *)

(* The manifest is readable, well formed and carries this fingerprint. *)
Usable(f) == disk[Manifest] \notin {Absent, Garbled} /\ disk[Manifest].fp = f

OpenValid(f) ==
    /\ pc = "closed" /\ Usable(f)
    /\ fp' = f /\ mem' = disk[Manifest].entries /\ dir' = "live"
    /\ pc' = "sweeping"
    /\ acked' = {a \in acked : a.fp = f}
    /\ UNCHANGED <<disk, maybe, cur, prior, todo, issued, damage>>

(* A mutant: the entries of a foreign manifest are kept in memory. *)
OpenInvalidKeeping(f) ==
    /\ pc = "closed" /\ (~Usable(f) \/ ReadFaults)
    /\ fp' = f /\ dir' = "live" /\ pc' = "wiping"
    /\ mem' = IF disk[Manifest] \in {Absent, Garbled} THEN NoEntries
              ELSE disk[Manifest].entries
    /\ todo' = {n \in Names : disk[n] # Absent}
    /\ acked' = {a \in acked : a.fp = f}
    /\ UNCHANGED <<disk, maybe, cur, prior, issued, damage>>

(* A missing, malformed or foreign manifest, or one that cannot be read,    *)
(* condemns every file in the directory.                                    *)
OpenInvalid(f) ==
    /\ pc = "closed" /\ (~Usable(f) \/ ReadFaults)
    /\ fp' = f /\ mem' = NoEntries /\ dir' = "live"
    /\ todo' = {n \in Names : disk[n] # Absent}
    /\ pc' = "wiping"
    /\ acked' = {a \in acked : a.fp = f}
    /\ UNCHANGED <<disk, maybe, cur, prior, issued, damage>>

(* unlink one file; an OSError is ignored and the file stays. *)
Unlink(n) == Put(n, Absent) \/ FilesUnchanged

WipeOne(n) ==
    /\ pc = "wiping" /\ n \in todo
    /\ Unlink(n) /\ todo' = todo \ {n}
    /\ UNCHANGED <<fp, mem, pc, cur, prior, dir, issued, acked, damage>>

(* A mutant: after a wipe no manifest is written until the first commit. *)
WriteNoManifest ==
    /\ pc = "wiping" /\ todo = {} /\ pc' = "emptied"
    /\ UNCHANGED <<disk, maybe, fp, mem, cur, prior, todo, dir, issued, acked, damage>>

WriteEmptyManifest ==
    /\ pc = "wiping" /\ todo = {}
    /\ Put(Manifest, [fp |-> fp, entries |-> mem])
    /\ pc' = "emptied"
    /\ UNCHANGED <<fp, mem, cur, prior, todo, dir, issued, acked, damage>>

SyncEmptyManifest ==
    /\ pc = "emptied" /\ FsyncDir /\ pc' = "sweeping"
    /\ UNCHANGED <<fp, mem, cur, prior, todo, dir, issued, acked, damage>>

(* _sweep_orphan_tmps deletes every file whose name matches "*.tmp.*",      *)
(* the payload of a key of that form included; errors are ignored.          *)
Sweep ==
    /\ pc = "sweeping" /\ pc' = "ready"
    /\ \E swept \in SUBSET {k \in TmpLike : disk[k] # Absent} :
         /\ disk' = [n \in Names |-> IF n \in swept THEN Absent ELSE disk[n]]
         /\ maybe' = [n \in Names |->
                        IF n \in swept THEN maybe[n] \cup {Absent} ELSE maybe[n]]
    /\ UNCHANGED <<fp, mem, cur, prior, todo, dir, issued, acked, damage>>

-----------------------------------------------------------------------------
(* commit(): payload first, manifest last.  Its one caller, the engine,      *)
(* commits a key only after has() answered a miss for it.                    *)

WritePayload(k, h, r, g) ==
    /\ pc = "ready" /\ dir # "gone"
    /\ Has(k, h) = "miss"
    /\ ValidCommit(r)
    /\ \A c \in issued : c.gen # g
    /\ cur' = [key |-> k, hash |-> h, fp |-> fp, gen |-> g, res |-> r]
    /\ issued' = issued \cup {cur'}
    /\ pc' = "writing"
    /\ UNCHANGED <<disk, maybe, fp, mem, prior, todo, dir, acked, damage>>

PayloadOf(c) == [key |-> c.key, hash |-> c.hash, fp |-> c.fp, gen |-> c.gen,
                 schema |-> SchemaOf[c.res], digest |-> Canonical(c.res), body |-> c.res]
(* A mutant: two fields of the entry are swapped. *)
EntryOfSwapped(c) == [hash |-> c.gen, gen |-> c.hash, digest |-> Canonical(c.res)]
EntryOf(c) == [hash |-> c.hash, gen |-> c.gen, digest |-> Canonical(c.res)]

ReplacePayload ==
    /\ pc = "writing" /\ pc' = "replaced"
    /\ Put(cur.key, PayloadOf(cur))
    /\ UNCHANGED <<fp, mem, cur, prior, todo, dir, issued, acked, damage>>

(* The directory is fsynced, then the entry is put into the session's copy. *)
SyncPayload ==
    /\ pc = "replaced" /\ pc' = "publishing"
    /\ FsyncDir
    /\ prior' = mem[cur.key]
    /\ mem' = [mem EXCEPT ![cur.key] = EntryOf(cur)]
    /\ UNCHANGED <<fp, cur, todo, dir, issued, acked, damage>>

PublishManifest ==
    /\ pc = "publishing" /\ pc' = "published"
    /\ Put(Manifest, [fp |-> fp, entries |-> mem])
    /\ UNCHANGED <<fp, mem, cur, prior, todo, dir, issued, acked, damage>>

(* A mutant: commit() returns without fsyncing the directory. *)
ReturnUnsynced ==
    /\ pc = "published" /\ pc' = "ready"
    /\ acked' = acked \cup {cur} /\ cur' = None /\ prior' = None
    /\ UNCHANGED <<disk, maybe, fp, mem, todo, dir, issued, damage>>

SyncManifest ==
    /\ pc = "published" /\ pc' = "ready"
    /\ FsyncDir
    /\ acked' = acked \cup {cur}
    /\ cur' = None /\ prior' = None
    /\ UNCHANGED <<fp, mem, todo, dir, issued, damage>>

(* A mutant: the entry of a failed commit stays in the session's copy. *)
CommitFailsKeeping ==
    /\ pc \in Committing /\ pc' = "ready" /\ cur' = None /\ prior' = None
    /\ UNCHANGED <<disk, maybe, fp, mem, todo, dir, issued, acked, damage>>

(* commit() raises: disk full, a failed fsync or rename.  Files stay as they *)
(* are; once the entry is in the session's copy it is rolled back.           *)
CommitFails ==
    /\ pc \in Committing /\ pc' = "ready"
    /\ mem' = IF pc \in {"publishing", "published"}
              THEN [mem EXCEPT ![cur.key] = prior] ELSE mem
    /\ cur' = None /\ prior' = None
    /\ UNCHANGED <<disk, maybe, fp, todo, dir, issued, acked, damage>>

-----------------------------------------------------------------------------
(* cleanup(): rmtree, errors ignored; the session's copy is not cleared.     *)

CleanupBegin ==
    /\ pc = "ready" /\ pc' = "cleaning"
    /\ todo' = {n \in Names : disk[n] # Absent}
    /\ acked' = {}
    /\ UNCHANGED <<disk, maybe, fp, mem, cur, prior, dir, issued, damage>>

CleanOne(n) ==
    /\ pc = "cleaning" /\ n \in todo
    /\ Unlink(n) /\ todo' = todo \ {n}
    /\ UNCHANGED <<fp, mem, pc, cur, prior, dir, issued, acked, damage>>

(* The emptied directory itself goes too, unless that fails. *)
CleanupEnd ==
    /\ pc = "cleaning" /\ todo = {} /\ pc' = "ready"
    /\ \/ dir' = "cleaned"
       \/ dir' = "gone" /\ \A n \in Names : disk[n] = Absent
    /\ UNCHANGED <<disk, maybe, fp, mem, cur, prior, todo, issued, acked, damage>>

-----------------------------------------------------------------------------
(* The environment. *)

Closed ==
    /\ pc' = "closed" /\ fp' = None /\ mem' = NoEntries
    /\ cur' = None /\ prior' = None /\ todo' = {} /\ dir' = "live"
    /\ UNCHANGED <<issued, acked, damage>>

(* The process ends, killed at any step or because its run is over. *)
ProcessEnds == pc # "closed" /\ Closed /\ FilesUnchanged

(* Power fails: every file is left with one of the contents it may have. *)
PowerLoss ==
    /\ PowerLossOn
    /\ disk' \in [Names -> UNION {maybe[n] : n \in Names}]
    /\ \A n \in Names : disk'[n] \in maybe[n]
    /\ maybe' = [n \in Names |-> {disk'[n]}]
    /\ Closed

(* Bit rot or a foreign hand: a payload's records change, or a file becomes  *)
(* unreadable or disappears.  The manifest is touched only between sessions. *)
Damage(n) ==
    /\ damage < MaxDamage /\ damage' = damage + 1
    /\ pc \in {"closed", "ready"} /\ (n = Manifest => pc = "closed")
    /\ disk[n] # Absent
    /\ \E content \in {Absent, Garbled} \cup
            IF n = Manifest \/ disk[n] = Garbled THEN {}
            ELSE {[disk[n] EXCEPT !.body = r] : r \in Results} :
         /\ content # disk[n]
         /\ disk' = [disk EXCEPT ![n] = content]
         /\ maybe' = [maybe EXCEPT ![n] = (@ \ {disk[n]}) \cup {content}]
    /\ acked' = {a \in acked : n \notin {a.key, Manifest}}
    /\ UNCHANGED <<fp, mem, pc, cur, prior, todo, dir, issued>>

-----------------------------------------------------------------------------
Open == \E f \in Fingerprints : OpenValid(f) \/ OpenInvalid(f)
Wipe == \E n \in Names : WipeOne(n)
BeginCommit == \E k \in Keys, h \in Hashes, r \in Results, g \in Generations :
                 WritePayload(k, h, r, g)
Clean == \E n \in Names : CleanOne(n)
DamageSome == \E n \in Names : Damage(n)

Next ==
    \/ Open \/ Wipe \/ WriteEmptyManifest \/ SyncEmptyManifest \/ Sweep
    \/ BeginCommit \/ ReplacePayload \/ SyncPayload \/ PublishManifest
    \/ SyncManifest \/ CommitFails
    \/ CleanupBegin \/ Clean \/ CleanupEnd
    \/ ProcessEnds \/ PowerLoss \/ DamageSome

Spec == Init /\ [][Next]_vars

-----------------------------------------------------------------------------
(* What the store promises. *)

(* The entry of key k in a manifest of fingerprint f names a commit that was   *)
(* really issued for this key under this fingerprint.                         *)
EntryVouched(k, f, e) ==
    \E c \in issued : /\ c.key = k /\ c.fp = f
                      /\ c.hash = e.hash /\ c.gen = e.gen
                      /\ Canonical(c.res) = e.digest

(* No manifest ever names a commit that was not issued under its fingerprint: *)
(* not the one on disk, none a power loss may bring back, not the session's    *)
(* copy, not the entry a failed commit is rolled back to                       *)
(* (_load_or_invalidate_manifest drops foreign entries before anything else).  *)
Vouching ==
    /\ \A d \in maybe[Manifest] \ {Absent, Garbled} : \A k \in Keys :
         d.entries[k] # None => EntryVouched(k, d.fp, d.entries[k])
    /\ pc # "closed" => \A k \in Keys : mem[k] # None => EntryVouched(k, fp, mem[k])
    /\ pc \in {"publishing", "published"} /\ prior # None =>
         EntryVouched(cur.key, fp, prior)

(* A hit is never wrong: the entry names a commit of exactly this key, hash  *)
(* and fingerprint, and what load() returns is that commit's result, however *)
(* crashes, torn writes, damage and reopenings were interleaved              *)
(* (AtomicManifestStore: "never a wrong or incomplete hit").                 *)
NeverWrong ==
    pc = "ready" => \A k \in Keys, h \in Hashes :
        Has(k, h) = "hit" =>
            \E c \in issued :
                /\ c.key = k /\ c.hash = h /\ c.fp = fp /\ c.gen = mem[k].gen
                /\ Load(k) = ReadBack[c.res]

(* A commit that returned is there for every later session under the same    *)
(* fingerprint, until the cache is cleaned, damaged or opened under another  *)
(* one (commit(): payload durable before the manifest, manifest durable      *)
(* before it returns).                                                       *)
AckedSurvives ==
    pc = "ready" => \A a \in acked : Has(a.key, a.hash) = "hit"

(* has() reports True only for what the manifest on disk vouches for: a       *)
(* failed commit is rolled back (commit()'s except branch).  After cleanup()  *)
(* the session's copy outlives the manifest, so the promise ends there.       *)
VouchedOnDisk ==
    pc = "ready" /\ dir = "live" => \A k \in Keys, h \in Hashes :
        Has(k, h) = "hit" =>
            /\ disk[Manifest] \notin {Absent, Garbled}
            /\ disk[Manifest].fp = fp
            /\ disk[Manifest].entries[k] = mem[k]

(* Under the open fingerprint, every commit gave key k the same hash. *)
OneHash(k) == \A c, d \in issued :
                 c.key = k /\ d.key = k /\ c.fp = fp /\ d.fp = fp => c.hash = d.hash

(* A torn write (the manifest and a payload of another generation) is a miss  *)
(* that is recomputed, never an error: where the fingerprint in force never   *)
(* saw a key with two hashes, has() does not raise on the hash its own entry  *)
(* carries, whatever an earlier fingerprint left behind (design section 4.4:  *)
(* "generation mismatch -> miss -> recompute").                               *)
TornWriteIsMiss ==
    pc = "ready" => \A k \in Keys :
        mem[k] # None /\ OneHash(k) => Has(k, mem[k].hash) # "collision"
=============================================================================
