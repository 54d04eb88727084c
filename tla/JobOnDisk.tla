------------------------------- MODULE JobOnDisk -------------------------------
(***************************************************************************)
(* The coordinator (Engine) on the durable cache (ManifestStore), as one     *)
(* process after the other runs a job on one cache directory.  The           *)
(* coordinator thread calls the store step by step, while worker threads and  *)
(* the clock go on; the process may be killed between any two steps, and      *)
(* power may fail once it is dead.  Before all that the caller asks the       *)
(* file-system gate (FsGate) whether there may be a cache.                    *)
(*                                                                         *)
(* The result of a payload is the payload itself.  The store variables are    *)
(* those of ManifestStore; the coordinator's are those of Engine, with its pc *)
(* called "at", and its map "stored" is what the files amount to.             *)
(***************************************************************************)
EXTENDS ManifestStore, FsGate

CONSTANTS Payloads, KeyOf, HashOf, SizeOf, SplitsOf, RootLists, MaxWorkers,
          MaxAttempts, MaxSplitDepth, HasSplitPolicy, CleanupOnSuccess,
          Exceptions, Faults, MaxRuns, UnitsOf, Hung,
          Paths           \* where a cache directory may be meant to lie

ASSUME OneJob ==
    /\ Results = Payloads /\ (\E f \in Fingerprints : Fingerprints = {f})
    /\ MaxDamage = 0 /\ ~ReadFaults /\ TmpLike = {} /\ Refused = {}
    /\ Faults           \* the store may raise
    /\ \A r \in Results : ReadBack[r] = r

(* A path ends at the root of one system's files.  It is there, unless it is that  *)
(* of a Windows drive that is not, or not ready: then nothing tells its file system.  *)
ASSUME PathsAssumption ==
    /\ NameLen \in Nat
    /\ \A path \in Paths :
         /\ path \in Seq([exists : BOOLEAN, volume : Volumes]) /\ path # <<>>
         /\ \A i \in DOMAIN path : path[i].volume.os = Root(path).volume.os
         /\ \/ Root(path).exists
            \/ Root(path).volume.os = "windows" /\ Root(path).volume.name = "error"

VARIABLES at, roots, live, ready, delayed, due, inflight, batch, terminal,
          tries, error, stats, folded, job, runs,
          fresh,   \* the store object has not served a run yet
          gate,    \* "unasked", or what fs_cache_enabled answered
          allowed, \* a volume that is not durable was allowed for development
          mounted, \* a volume that is not durable lies in a folder of another drive
          durable  \* whether files are replaced atomically on the cache's volume

coordinator == <<at, roots, live, ready, delayed, due, inflight, batch, terminal,
                 tries, error, stats, folded, job, runs>>

asked == <<gate, allowed, mounted, durable>>
jobVars == <<vars, coordinator, fresh, asked>>

(* The file of key k is the one that this manifest's entry names. *)
Agrees(k, file, doc) ==
    LET e == doc.entries[k] IN
    /\ e # None
    /\ file.key = k /\ file.fp = doc.fp
    /\ file.hash = e.hash /\ file.gen = e.gen
    /\ file.digest = e.digest /\ file.digest = Canonical(ReadFile(file))

BeingCommitted(k) == pc \in Committing /\ cur.key = k

(* The map the files amount to: what a session opened now would serve, save   *)
(* the key whose commit has not returned.                                     *)
Held == [k \in Keys |->
    IF /\ {disk[Manifest], disk[k]} \cap {Absent, Garbled} = {}
       /\ Agrees(k, disk[k], disk[Manifest])
       /\ ~BeingCommitted(k)
    THEN ReadFile(disk[k]) ELSE None]

E == INSTANCE Engine WITH pc <- at, stored <- Held

(* What Engine assumes of the items, the policies and the sentinels. *)
ASSUME EngineAssumptions ==
    /\ E!KeysAssumption /\ E!PayloadsAssumption /\ E!BoundsAssumption
    /\ E!FlagsAssumption /\ E!UnitsAssumption
    /\ E!NoneAssumption /\ E!FuturesAssumption

JobInit ==
    /\ Init /\ E!Init /\ fresh = FALSE
    /\ gate = "unasked" /\ allowed = FALSE /\ mounted = FALSE /\ durable = FALSE

-----------------------------------------------------------------------------
NoRun == at \in {"idle", "returned", "failed"}
StoreIdle == UNCHANGED <<vars, fresh>>

(* The caller asks once: the cache stays on its volume. *)
AskGate ==
    /\ gate = "unasked"
    /\ \E path \in Paths, policy \in FsPolicies :
         /\ gate' = FsCacheEnabled(path, policy)
         /\ durable' = ReallyDurable(path)
         /\ allowed' = (policy = "ALLOW" /\ ~durable')
         /\ mounted' = (FolderMounted(path) /\ ~durable')
    /\ UNCHANGED <<vars, coordinator, fresh>>

(* A process without a run opens the store.  Its constructor works step by step. *)
Construct ==
    /\ gate = "yes" /\ NoRun /\ runs < MaxRuns
    /\ Open \/ Wipe \/ WriteEmptyManifest \/ SyncEmptyManifest \/ Sweep
    /\ fresh' = TRUE
    /\ UNCHANGED coordinator

(* run_checkpointed is called once with each store object.  (With a store that    *)
(* is used again after its commit raised, has() may miss what the manifest on     *)
(* disk already vouches for: the roll-back in memory does not undo the rename.)   *)
BeginRun ==
    /\ pc = "ready" /\ fresh /\ fresh' = FALSE
    /\ UNCHANGED vars
    /\ E!Begin

(* has() raises: the session knows the key under another hash, also when the     *)
(* payload of that entry has been torn away (or Engine's has() would say so).    *)
Collides ==
    /\ at = "dispatch" /\ E!CanDispatch
    /\ Has(E!Key(Head(ready)), E!Hash(Head(ready))) = "collision"

(* The coordinator does anything but wait inside a call of the store; has()    *)
(* and load() change nothing.                                                  *)
Think ==
    /\ pc = "ready" /\ StoreIdle
    /\ E!Thinking \/ E!Submit \/ E!SubmitRaises \/ E!ShutdownDone
    /\ Collides => E!HasRaises

(* The coordinator is about to commit the result of key k. *)
Committable(k) ==
    at = "handle" /\ error = "none" /\ k \in batch /\ inflight[k].st = "ok"

(* store.commit: entered with the result of a done future, ... *)
EnterCommit(k) ==
    /\ Committable(k) /\ Cardinality(issued) + 1 \in Generations
    /\ LET p == inflight[k].ad.p IN
         WritePayload(k, HashOf[p], p, Cardinality(issued) + 1)
    /\ UNCHANGED <<coordinator, fresh>>

InsideCommit ==
    /\ ReplacePayload \/ SyncPayload \/ PublishManifest
    /\ UNCHANGED <<coordinator, fresh>>

(* A mutant: commit() puts the writing of the manifest off and returns. *)
LeaveCommitUnpublished ==
    /\ pc = "publishing" /\ pc' = "ready" /\ acked' = acked \cup {cur}
    /\ cur' = None /\ prior' = None
    /\ UNCHANGED <<disk, maybe, fp, mem, todo, dir, issued, damage, fresh>>
    /\ E!CommitReturned(cur.key)

(* ... and left, by returning or by raising. *)
LeaveCommit == SyncManifest /\ E!CommitReturned(cur.key) /\ UNCHANGED fresh

BreakOffCommit == CommitFails /\ E!CommitRaised(cur.key) /\ UNCHANGED fresh

(* store.cleanup, called once. *)
CleanUp ==
    /\ at = "cleaning" /\ dir = "live"
    /\ CleanupBegin \/ Clean \/ CleanupEnd
    /\ UNCHANGED <<coordinator, fresh>>
ReturnFromCleanup ==
    /\ pc = "ready" /\ dir # "live" /\ StoreIdle /\ E!CleanupDone

(* Worker threads and the clock go on during a call of the store. *)
Meanwhile == StoreIdle /\ ((\E k \in Keys : E!Worker(k)) \/ E!QueueFails \/ E!Tick)

ProcessDies ==
    /\ ProcessEnds /\ fresh' = FALSE
    /\ IF NoRun THEN UNCHANGED coordinator ELSE E!Killed

(* Files are left as some rename or unlink left them; where files are not        *)
(* replaced atomically, those with a pending rename may also be torn.            *)
Torn(n) == IF durable \/ Cardinality(maybe[n]) = 1 THEN {} ELSE {Garbled}
PowerFails ==
    /\ NoRun /\ runs < MaxRuns /\ pc = "closed" /\ gate = "yes"
    /\ PowerLossOn
    /\ disk' \in [Names -> UNION {maybe[n] \cup Torn(n) : n \in Names}]
    /\ \A n \in Names : disk'[n] \in maybe[n] \cup Torn(n)
    /\ maybe' = [n \in Names |-> {disk'[n]}]
    /\ Closed /\ fresh' = FALSE
    /\ E!Killed

(* The last run is over, or there is no cache. *)
NoCache == gate \in {"no", "raises"} /\ UNCHANGED coordinator
Resting == StoreIdle /\ (E!Rest \/ NoCache)

JobNext ==
    \/ AskGate
    \/ /\ \/ Construct \/ BeginRun \/ Think
          \/ (\E k \in Keys : EnterCommit(k)) \/ InsideCommit
          \/ LeaveCommit \/ BreakOffCommit
          \/ CleanUp \/ ReturnFromCleanup
          \/ Meanwhile \/ ProcessDies \/ PowerFails \/ Resting
       /\ UNCHANGED asked

JobSpec == JobInit /\ [][JobNext]_jobVars

-----------------------------------------------------------------------------
(* The files of the cache behave like the atomic map of Engine: every step of  *)
(* the whole system is a step of Engine or invisible to it.  So all that is     *)
(* shown of Engine holds on disk, with crashes inside open, commit and cleanup, *)
(* power failures and no directory fsync (durability.py, "Correctness does not  *)
(* depend on directory-fsync strength").                                       *)
ImplementsEngine == E!Spec

(* The store answers the coordinator as the map would: has() at dispatch, load() *)
(* when results are folded; and a result is committed only where has() still      *)
(* misses.  (has() may raise instead: engine.py routes that as a failed run.)     *)
StoreAnswers ==
    pc = "ready" =>
        /\ at = "dispatch" /\ ready # <<>> =>
             LET ad == ready[1] IN
             Has(E!Key(ad), E!Hash(ad)) \in {E!Has(ad), "collision"}
        /\ at = "fold" => \A k \in E!Unfolded :
             Has(k, terminal[k]) = "hit" /\ Load(k) = Held[k]
        /\ \A k \in Keys : Committable(k) => Has(k, HashOf[inflight[k].ad.p]) = "miss"

(* No cache is ever opened where files are not replaced atomically, unless the   *)
(* caller allowed it (resolve_fs_type: "classify the FS type of the REAL path").   *)
(* False of the code on Windows, where the drive's root is asked about.           *)
FailClosed == pc # "closed" => durable \/ allowed

(* The one exception is a volume in a folder of another drive: everywhere else the *)
(* gate fails closed, whatever the operating system answers, for directories that  *)
(* exist and that do not (durability.py: "a wrong/garbage read can never *enable*  *)
(* caching").                                                                  *)
FailClosedElsewhere == pc # "closed" => durable \/ allowed \/ mounted
=============================================================================
