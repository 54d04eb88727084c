---------------------------- MODULE JobOnDiskProofs ----------------------------
(***************************************************************************)
(* Proofs about JobOnDisk: the file-system gate lets a cache be opened only   *)
(* where files are replaced atomically, for every path and every answer of    *)
(* the operating system, except in the folder of a Windows drive where another *)
(* volume is mounted; and the coordinator on the files of the cache does       *)
(* what Engine does on a map, for any job, number of processes and deaths.    *)
(***************************************************************************)
EXTENDS JobOnDisk, ManifestStoreProofs, SequenceTheorems, WellFoundedInduction

(* The first of some positions. *)
LEMMA LeastIndex ==
    ASSUME NEW S \in SUBSET Nat, S # {}
    PROVE  \E i \in S : \A j \in S : i <= j
<1> DEFINE Less == OpToRel(<, Nat)
<1>1. IsWellFoundedOn(Less, Nat)
  BY NatLessThanWellFounded
<1>2. \A i, j \in Nat : <<i, j>> \in Less <=> i < j
  BY DEF OpToRel
<1> HIDE DEF Less
<1>3. PICK i \in S : \A j \in S : ~ (<<j, i>> \in Less)
  BY <1>1, WFMin
<1>4. ASSUME NEW j \in S
      PROVE  i <= j
  <2>1. i \in Nat /\ j \in Nat
    OBVIOUS
  <2>2. ~ (<<j, i>> \in Less)
    BY <1>3
  <2>3. ~ (j < i)
    BY <1>2, <2>1, <2>2
  <2> QED BY <2>1, <2>3
<1> QED BY <1>4

-----------------------------------------------------------------------------
(* The gate. *)

(* A path has a root, and every directory of it is on a volume. *)
LEMMA PathTypes ==
    ASSUME NEW path \in Paths
    PROVE  /\ Len(path) \in DOMAIN path /\ DOMAIN path = 1 .. Len(path) /\ Len(path) \in Nat
           /\ Root(path).volume \in Volumes
           /\ \A i \in DOMAIN path : path[i].volume \in Volumes
<1> DEFINE Directories == [exists : BOOLEAN, volume : Volumes]
<1>1. path \in Seq(Directories) /\ path # <<>>
  BY PathsAssumption
<1>2. \A directory \in Directories : directory.volume \in Volumes
  OBVIOUS
<1> HIDE DEF Directories
<1>3. /\ Len(path) \in Nat /\ Len(path) \in DOMAIN path /\ DOMAIN path = 1 .. Len(path)
      /\ \A i \in DOMAIN path : path[i] \in Directories
  BY <1>1, EmptySeq, LenProperties, ElementOfSeq
<1> QED BY <1>2, <1>3 DEF Root

(* _nearest_existing finds the lowest directory there is, if the root is there. *)
LEMMA NearestIsLowest ==
    ASSUME NEW path \in Paths
    PROVE  \E i \in DOMAIN path :
             NearestExisting(path) = path[i] /\ (Root(path).exists => LiesIn(path, i))
<1> DEFINE there == {i \in DOMAIN path : path[i].exists}
<1>1. CASE there = {}
  <2>1. NearestExisting(path) = path[Len(path)] /\ ~Root(path).exists
    BY <1>1, PathTypes DEF NearestExisting, Root
  <2> QED BY <2>1, PathTypes
<1>2. CASE there # {}
  <2>1. there \in SUBSET Nat
    BY PathTypes
  <2>2. \E i \in there : \A j \in there : i <= j
    <3> HIDE DEF there
    <3> QED BY <1>2, <2>1, LeastIndex
  <2>3. PICK i \in there : i = CHOOSE n \in there : \A j \in there : n <= j
    BY <2>2
  <2>4. \A j \in there : i <= j
    BY <2>2, <2>3
  <2>5. NearestExisting(path) = path[i]
    BY <1>2, <2>3 DEF NearestExisting
  <2>6. \A j \in 1 .. i - 1 : ~path[j].exists
    BY <2>4, PathTypes
  <2> QED BY <2>5, <2>6 DEF LiesIn
<1> QED BY <1>1, <1>2

(* The only Darwin name of the allowlist that is modelled is "hfs", and it is     *)
(* resolved only from a field that holds this name, in either case of its first    *)
(* letter, and NULs behind it.                                                   *)
Characters == Letters \cup {"_", NUL, Odd}

LEMMA SpelledHfs ==
    ASSUME NEW name \in Seq(Characters), Spelled(name) \in DURABLE_FS_ALLOWLIST
    PROVE  Len(name) = 3 /\ name[1] \in {"h", "H"} /\ name[2] = "f" /\ name[3] = "s"
<1> DEFINE lower == [i \in DOMAIN name |-> IF name[i] = "H" THEN "h" ELSE name[i]]
<1>1. lower = <<"h", "f", "s">>
  BY DEF Spelled, DURABLE_FS_ALLOWLIST
<1>2. DOMAIN name = 1 .. Len(name) /\ Len(name) \in Nat
  BY LenProperties
<1>3. DOMAIN lower = 1 .. 3 /\ lower[1] = "h" /\ lower[2] = "f" /\ lower[3] = "s"
  BY <1>1
<1>4. 1 .. Len(name) = 1 .. 3
  BY <1>2, <1>3
<1>5. Len(name) = 3
  BY <1>2, <1>4
<1>6. \A i \in 1 .. 3 : lower[i] = IF name[i] = "H" THEN "h" ELSE name[i]
  BY <1>2, <1>5
<1> HIDE DEF lower
<1> QED BY <1>3, <1>5, <1>6

LEMMA MacosGate ==
    ASSUME NameLen \in Nat, NEW volume,
           volume.field \in {<<>>} \cup [1 .. NameLen -> Characters],
           MacosFsType(volume) \in DURABLE_FS_ALLOWLIST
    PROVE  \E h \in {"h", "H"} :
             volume.field = <<h, "f", "s">> \o [n \in 1 .. NameLen - 3 |-> NUL]
<1> DEFINE field == volume.field
           ends == {i \in DOMAIN field : field[i] = NUL}
           nul == CHOOSE i \in ends : \A j \in ends : i <= j
           name == SubSeq(field, 1, nul - 1)
<1>1. /\ ends # {} /\ \A i \in nul .. Len(field) : field[i] = NUL
      /\ Spelled(name) \in DURABLE_FS_ALLOWLIST
  BY DEF MacosFsType, DURABLE_FS_ALLOWLIST, Unknown
<1>2. /\ field \in Seq(Characters) /\ Len(field) = NameLen /\ DOMAIN field = 1 .. NameLen
  BY <1>1
<1>3. nul \in ends /\ nul \in 1 .. NameLen
  <2>1. ends \in SUBSET Nat
    BY <1>2
  <2>2. \E i \in ends : \A j \in ends : i <= j
    <3> HIDE DEF ends
    <3> QED BY <1>1, <2>1, LeastIndex
  <2> QED BY <1>2, <2>2
<1> HIDE DEF nul
<1>4. /\ name \in Seq(Characters) /\ Len(name) = nul - 1
      /\ \A i \in 1 .. nul - 1 : name[i] = field[i]
  BY <1>2, <1>3, SubSeqProperties
<1> HIDE DEF field, ends
<1>5. nul = 4 /\ field[1] \in {"h", "H"} /\ field[2] = "f" /\ field[3] = "s"
  <2> HIDE DEF name
  <2>1. Len(name) = 3 /\ name[1] \in {"h", "H"} /\ name[2] = "f" /\ name[3] = "s"
    BY <1>1, <1>4, SpelledHfs
  <2>2. nul = 4
    <3>1. nul \in Int
      BY <1>3
    <3>2. nul - 1 = 3
      BY <1>4, <2>1
    <3> QED BY <3>1, <3>2
  <2>3. name[1] = field[1] /\ name[2] = field[2] /\ name[3] = field[3]
    BY <1>4, <2>2
  <2> QED BY <2>1, <2>2, <2>3
<1>6. PICK h \in {"h", "H"} : field[1] = h
  BY <1>5
<1> DEFINE front == <<h, "f", "s">>
           padding == [n \in 1 .. NameLen - 3 |-> NUL]
<1>7. front \in Seq(Characters) /\ Len(front) = 3
      /\ front[1] = h /\ front[2] = "f" /\ front[3] = "s"
  <2>1. h \in Characters /\ "f" \in Characters /\ "s" \in Characters
    BY DEF Characters, Letters
  <2> QED BY <2>1
<1>8. padding \in Seq(Characters) /\ Len(padding) = NameLen - 3
      /\ \A n \in 1 .. NameLen - 3 : padding[n] = NUL
  <2>1. NUL \in Characters
    BY DEF Characters
  <2>2. PICK m \in Nat : m = NameLen - 3
    BY <1>3, <1>5
  <2>3. padding = [n \in 1 .. m |-> NUL]
    BY <2>2
  <2> HIDE DEF padding
  <2>4. padding \in [1 .. m -> Characters]
    BY <2>1, <2>3
  <2>5. padding \in Seq(Characters) /\ Len(padding) = m
    BY <2>4
  <2> QED BY <2>2, <2>3, <2>5
<1> HIDE DEF front, padding
<1>9. front \o padding \in Seq(Characters) /\ Len(front \o padding) = NameLen
      /\ \A i \in 1 .. NameLen : (front \o padding)[i] = IF i <= 3 THEN front[i] ELSE padding[i - 3]
  <2>1. Len(front) + Len(padding) = NameLen /\ Len(front) = 3
    BY <1>7, <1>8
  <2>2. /\ front \o padding \in Seq(Characters)
        /\ Len(front \o padding) = Len(front) + Len(padding)
        /\ \A i \in 1 .. Len(front) + Len(padding) : (front \o padding)[i] =
             IF i <= Len(front) THEN front[i] ELSE padding[i - Len(front)]
    BY <1>7, <1>8, ConcatProperties
  <2> QED BY <2>1, <2>2
<1>10. ASSUME NEW i \in 1 .. NameLen
       PROVE  field[i] = (front \o padding)[i]
  <2>1. CASE i <= 3
    <3>1. i = 1 \/ i = 2 \/ i = 3
      BY <2>1
    <3> QED BY <1>5, <1>6, <1>7, <1>9, <2>1, <3>1
  <2>2. CASE ~(i <= 3)
    <3>1. field[i] = NUL
      BY <1>1, <1>2, <1>5, <2>2
    <3>2. i - 3 \in 1 .. NameLen - 3
      BY <2>2
    <3>4. (front \o padding)[i] = padding[i - 3]
      BY <1>9, <2>2
    <3>5. padding[i - 3] = NUL
      BY <1>8, <3>2
    <3> QED BY <3>1, <3>4, <3>5
  <2> QED BY <2>1, <2>2
<1>11. field = front \o padding
  BY <1>2, <1>9, <1>10, SeqEqual
<1> QED BY <1>11 DEF field, front, padding

(* Only the name of a fixed drive is looked at. *)
LEMMA FixedDrive ==
    ASSUME NEW drive \in 0 .. 6, drive \notin {0, 1, 2, 4, 5, 6}
    PROVE  drive = 3
OBVIOUS

LEMMA FixedDriveName ==
    ASSUME NEW volume, volume.drive = 3
    PROVE  DriveFsType(volume) = IF volume.name \in {"", "error"} THEN Unknown ELSE volume.name
BY DEF DriveFsType

(* A Windows drive that is resolved to a name of the allowlist is a fixed NTFS one.  *)
LEMMA WindowsGate ==
    ASSUME NEW volume, DriveFsType(volume) \in DURABLE_FS_ALLOWLIST,
           volume.drive \in 0 .. 6, volume.name \in {"ntfs", "fat32", "", "error"}
    PROVE  volume.drive = 3 /\ volume.name = "ntfs"
<1>1. volume.drive = 3
  <2>1. volume.drive \in {0, 1, 2, 4, 5, 6} => DriveFsType(volume) \in {"network", "removable", Unknown}
    BY DEF DriveFsType
  <2>2. \A answer \in {"network", "removable", Unknown} : answer \notin DURABLE_FS_ALLOWLIST
    BY DEF DURABLE_FS_ALLOWLIST, Unknown
  <2>3. volume.drive \notin {0, 1, 2, 4, 5, 6}
    BY <2>1, <2>2
  <2> QED BY <2>3, FixedDrive
<1>2. volume.name = "ntfs"
  <2>1. DriveFsType(volume) = IF volume.name \in {"", "error"} THEN Unknown ELSE volume.name
    BY <1>1, FixedDriveName
  <2> QED BY <2>1 DEF DURABLE_FS_ALLOWLIST, Unknown
<1> QED BY <1>1, <1>2

(* What resolves to a name of the allowlist does replace files atomically, but for   *)
(* the one case in which the volume asked about is not the one the cache is on: the  *)
(* parser of the platform's answer can err only towards "unknown".                  *)
LEMMA GateSound ==
    ASSUME NEW path \in Paths, ResolveFsType(path) \in DURABLE_FS_ALLOWLIST
    PROVE  ReallyDurable(path) \/ FolderMounted(path)
<1>1. PICK i \in DOMAIN path : NearestExisting(path) = path[i] /\ (Root(path).exists => LiesIn(path, i))
  BY NearestIsLowest
<1> DEFINE volume == path[i].volume
           root == Root(path).volume
<1>2. volume \in Volumes /\ root \in Volumes /\ volume.os = root.os
  BY PathTypes, PathsAssumption
<1>3. CASE volume.os = "windows"
  <2>1. DriveFsType(root) \in DURABLE_FS_ALLOWLIST
    BY <1>1, <1>3 DEF ResolveFsType, WindowsFsType
  <2>2. root.drive \in 0 .. 6 /\ root.name \in {"ntfs", "fat32", "", "error"}
    BY <1>2, <1>3 DEF Volumes
  <2>3. root.drive = 3 /\ root.name = "ntfs"
    BY <2>1, <2>2, WindowsGate
  <2>4. LiesIn(path, i)
    BY <1>1, <2>3, PathsAssumption
  <2>5. CASE volume = root
    BY <1>3, <2>3, <2>4, <2>5 DEF ReallyDurable
  <2>6. CASE volume # root
    BY <1>3, <2>4, <2>6 DEF FolderMounted
  <2> QED BY <2>5, <2>6
<1>4. CASE volume.os = "linux"
  <2>1. LiesIn(path, i)
    BY <1>1, <1>2, <1>4, PathsAssumption
  <2>2. LinuxFsType(volume) \in DURABLE_FS_ALLOWLIST
    BY <1>1, <1>4 DEF ResolveFsType
  <2>3. volume.magic \in {"ext", "xfs"}
    BY <2>2 DEF LinuxFsType, DURABLE_FS_ALLOWLIST, FsMagic, Unknown
  <2> QED BY <1>4, <2>1, <2>3 DEF ReallyDurable
<1>5. CASE volume.os = "macos"
  <2>1. LiesIn(path, i)
    BY <1>1, <1>2, <1>5, PathsAssumption
  <2>2. MacosFsType(volume) \in DURABLE_FS_ALLOWLIST
    BY <1>1, <1>5 DEF ResolveFsType
  <2>3. volume.field \in {<<>>} \cup [1 .. NameLen -> Characters]
    BY <1>2, <1>5 DEF Volumes, Characters
  <2>4. \E h \in {"h", "H"} :
          volume.field = <<h, "f", "s">> \o [n \in 1 .. NameLen - 3 |-> NUL]
    BY <2>2, <2>3, MacosGate, PathsAssumption
  <2> QED BY <1>5, <2>1, <2>4 DEF ReallyDurable
<1>6. volume.os \in {"linux", "windows", "macos"}
  BY <1>2 DEF Volumes
<1> QED BY <1>3, <1>4, <1>5, <1>6

-----------------------------------------------------------------------------
(* The gate is asked once, before the first session, and holds ever after.        *)
GateKept ==
    /\ gate = "yes" => durable \/ allowed \/ mounted
    /\ pc # "closed" => gate = "yes"

(* Only the constructor begins a session. *)
LEMMA OnlyConstructOpens ==
    ASSUME JobNext, ~AskGate, ~Construct, pc' # "closed"
    PROVE  pc # "closed"
<1>1. CASE BeginRun
  BY <1>1 DEF BeginRun
<1>2. CASE Think
  BY <1>2 DEF Think
<1>3. ASSUME NEW k \in Keys, EnterCommit(k)
      PROVE  pc # "closed"
  BY <1>3 DEF EnterCommit, WritePayload
<1>4. CASE InsideCommit \/ LeaveCommit \/ BreakOffCommit
  BY <1>4 DEF InsideCommit, LeaveCommit, BreakOffCommit, ReplacePayload, SyncPayload,
              PublishManifest, SyncManifest, CommitFails, Committing
<1>5. CASE CleanUp \/ ReturnFromCleanup
  BY <1>5 DEF CleanUp, ReturnFromCleanup, CleanupBegin, Clean, CleanOne, CleanupEnd
<1>6. CASE Meanwhile \/ Resting
  BY <1>6 DEF Meanwhile, Resting, StoreIdle, vars
<1>7. CASE ProcessDies \/ PowerFails
  BY <1>7 DEF ProcessDies, PowerFails, ProcessEnds, Closed
<1> QED BY <1>1, <1>2, <1>3, <1>4, <1>5, <1>6, <1>7 DEF JobNext

(* A cache is opened only where files are replaced atomically, where the caller      *)
(* allowed it, or on a volume in a folder of another Windows drive, for every path,   *)
(* length of the name field, sequence of processes and number of runs                *)
(* (fs_cache_enabled and the parsers of the three platforms' answers).               *)
THEOREM FailClosedElsewhereHolds == JobSpec => []FailClosedElsewhere
<1>1. JobInit => GateKept
  BY DEF JobInit, Init, GateKept
<1>2. GateKept /\ [JobNext]_jobVars => GateKept'
  <2> SUFFICES ASSUME GateKept, [JobNext]_jobVars
               PROVE  GateKept'
    OBVIOUS
  <2>1. CASE AskGate
    <3>1. PICK path \in Paths, policy \in FsPolicies :
            /\ gate' = FsCacheEnabled(path, policy)
            /\ durable' = ReallyDurable(path)
            /\ allowed' = (policy = "ALLOW" /\ ~durable')
            /\ mounted' = (FolderMounted(path) /\ ~durable')
      BY <2>1 DEF AskGate
    <3>2. gate' = "yes" => ResolveFsType(path) \in DURABLE_FS_ALLOWLIST \/ policy = "ALLOW"
      BY <3>1 DEF FsCacheEnabled, FsPolicies
    <3>3. gate' = "yes" => durable' \/ allowed' \/ mounted'
      BY <3>1, <3>2, GateSound
    <3>4. pc' = "closed"
      BY <2>1 DEF AskGate, GateKept, vars
    <3> QED BY <3>3, <3>4 DEF GateKept
  <2>2. CASE Construct /\ UNCHANGED asked
    BY <2>2 DEF Construct, GateKept, asked
  <2>3. CASE JobNext /\ ~AskGate /\ ~Construct
    <3>1. UNCHANGED asked
      BY <2>3 DEF JobNext
    <3> QED BY <2>3, <3>1, OnlyConstructOpens DEF GateKept, asked
  <2>4. CASE UNCHANGED jobVars
    BY <2>4 DEF jobVars, vars, asked, GateKept
  <2> QED BY <2>1, <2>2, <2>3, <2>4 DEF JobNext
<1>3. GateKept => FailClosedElsewhere
  BY DEF GateKept, FailClosedElsewhere
<1> QED BY <1>1, <1>2, <1>3, PTL DEF JobSpec

-----------------------------------------------------------------------------
(* The coordinator on the files: Engine, and what is proved of it, with the     *)
(* map that the files amount to.                                              *)
EP == INSTANCE EngineCoverageProofs WITH pc <- at, stored <- Held

(* Engine's proofs are about the same steps. *)
LEMMA SameSteps == (E!Init <=> EP!Init) /\ ([E!Next]_(E!vars) <=> [EP!Next]_(EP!vars))
BY DEF E!Init, E!Fresh, E!Next, E!Begin, E!Coordinator, E!Worker,
       E!QueueFails, E!Tick, E!Crash, E!PowerLoss, E!Rest, E!Start, E!Over,
       E!ResetLocals, E!Nothing, E!NoStats, E!Thinking, E!Storing,
       E!AdmitRoot, E!AdmitRootRaises, E!AdmissionDone, E!Again,
       E!WithIdentities, E!KeysOf, E!AdmitAll, E!identity, E!queues,
       E!outside, E!history, E!Resume, E!CanDispatch, E!InFlight, E!Has,
       E!Key, E!Hash, E!Count, E!HasRaises, E!LeaveDispatch, E!Leave,
       E!DispatchDone, E!WaitReturns, E!Wakes, E!Finished, E!SleepReturns,
       E!PromoteMatured, E!SplitSome, E!Split, E!SplitCollides, E!Pop,
       E!Raised, E!WantsSplit, E!ProperSplit, E!StrictlySmaller, E!Admissible,
       E!DistinctKeys, E!Replaced, E!RetrySome, E!Retry, E!WithinBudget,
       E!Inserted, E!FailSome, E!Fail, E!FatalFor, E!Abort, E!RouteSome,
       E!RouteRaises, E!HandleDone, E!FatalExit, E!FoldSome, E!Fold,
       E!Unfolded, E!TerminalKeys, E!FoldRaises, E!Deliver, E!CommitSome,
       E!Commit, E!CommitReturned, E!Succeeded, E!With, E!RaiseSome,
       E!CommitRaises, E!CommitRaised, E!Clean, E!CleanupDone, E!Submit,
       E!CountAttempt, E!SubmitRaises, E!ShutdownDone, E!WorkerStarts,
       E!WorkerEnds, E!Killed, E!HalfCommitted, E!StoreContents, E!Looping,
       E!vars, E!Cardinality, EP!Init, EP!Fresh, EP!Next, EP!Begin,
       EP!Coordinator, EP!Worker, EP!QueueFails, EP!Tick, EP!Crash,
       EP!PowerLoss, EP!Rest, EP!Start, EP!Over, EP!ResetLocals, EP!Nothing,
       EP!NoStats, EP!Thinking, EP!Storing, EP!AdmitRoot, EP!AdmitRootRaises,
       EP!AdmissionDone, EP!Again, EP!WithIdentities, EP!KeysOf, EP!AdmitAll,
       EP!identity, EP!queues, EP!outside, EP!history, EP!Resume,
       EP!CanDispatch, EP!InFlight, EP!Has, EP!Key, EP!Hash, EP!Count,
       EP!HasRaises, EP!LeaveDispatch, EP!Leave, EP!DispatchDone,
       EP!WaitReturns, EP!Wakes, EP!Finished, EP!SleepReturns,
       EP!PromoteMatured, EP!SplitSome, EP!Split, EP!SplitCollides, EP!Pop,
       EP!Raised, EP!WantsSplit, EP!ProperSplit, EP!StrictlySmaller,
       EP!Admissible, EP!DistinctKeys, EP!Replaced, EP!RetrySome, EP!Retry,
       EP!WithinBudget, EP!Inserted, EP!FailSome, EP!Fail, EP!FatalFor,
       EP!Abort, EP!RouteSome, EP!RouteRaises, EP!HandleDone, EP!FatalExit,
       EP!FoldSome, EP!Fold, EP!Unfolded, EP!TerminalKeys, EP!FoldRaises,
       EP!Deliver, EP!CommitSome, EP!Commit, EP!CommitReturned, EP!Succeeded,
       EP!With, EP!RaiseSome, EP!CommitRaises, EP!CommitRaised, EP!Clean,
       EP!CleanupDone, EP!Submit, EP!CountAttempt, EP!SubmitRaises,
       EP!ShutdownDone, EP!WorkerStarts, EP!WorkerEnds, EP!Killed,
       EP!HalfCommitted, EP!StoreContents, EP!Looping, EP!vars, EP!Cardinality

(* What they assume is assumed of the job. *)
LEMMA SameAssumptions ==
    /\ EP!KeysAssumption /\ EP!PayloadsAssumption /\ EP!BoundsAssumption
    /\ EP!FlagsAssumption /\ EP!UnitsAssumption
    /\ EP!NoneAssumption /\ EP!FuturesAssumption
BY EngineAssumptions
   DEF E!IsFiniteSet, EP!IsFiniteSet, E!ExceptionKinds, EP!ExceptionKinds,
       E!DistinctKeys, EP!DistinctKeys, E!Futures, EP!Futures,
       E!Admitted, EP!Admitted

(* So Engine's inductive invariant is kept by its steps on the files. *)
LEMMA EngineInit == ASSUME E!Init PROVE EP!IInv
BY SameSteps, SameAssumptions, EP!InvInit
   DEF EP!IsFiniteSet, EP!ExceptionKinds, EP!DistinctKeys, EP!Futures, EP!Admitted

LEMMA EngineStep ==
    ASSUME EP!IInv, [E!Next]_(E!vars)
    PROVE  EP!IInv'
BY SameSteps, SameAssumptions, EP!InvStep
   DEF EP!IsFiniteSet, EP!ExceptionKinds, EP!DistinctKeys, EP!Futures, EP!Admitted
-----------------------------------------------------------------------------
(* The inductive invariant of the coordinator on the files, in named parts.     *)

(* What a payload file holds, or may hold after a power failure, was committed,   *)
(* and what was committed bears the identity of the work it is the result of.     *)
FromCommits ==
    /\ \A c \in issued : c.key = KeyOf[c.res] /\ c.hash = HashOf[c.res]
    /\ \A k \in Keys : \A file \in maybe[k] \ {Absent, Garbled} :
         \E c \in issued : c.key = k /\ file = PayloadOf(c)

(* A session is opened between runs; a commit is of the future that is handled. *)
PhasesMatch ==
    /\ pc \in {"closed", "wiping", "emptied", "sweeping"} \/ fresh => NoRun
    /\ pc = "cleaning" => at = "cleaning"
    /\ pc \in Committing =>
         /\ Committable(cur.key) /\ cur.res = inflight[cur.key].ad.p
         /\ cur.hash = HashOf[cur.res]

(* Where a session's copy of the entries is that of the manifest on disk: until   *)
(* a commit has failed or a cleanup has begun, except half-way through a commit.  *)
OnDisk(entries) == disk[Manifest] = [fp |-> fp, entries |-> entries]
Running == at \in {"admit", "dispatch", "wait", "handle", "sleep", "closing", "fold"}
           /\ error = "none"
InStep ==
    /\ pc = "wiping" => disk[Manifest] \in {Absent, Garbled} /\ mem = NoEntries
    /\ pc \in {"emptied", "sweeping", "writing", "replaced", "published"} => OnDisk(mem)
    /\ pc = "ready" /\ (fresh \/ Running) => OnDisk(mem)
    /\ pc = "publishing" => OnDisk([mem EXCEPT ![cur.key] = prior])

(* How far a commit has come: it began with a miss. *)
CommitAhead ==
    /\ pc = "writing" => Has(cur.key, cur.hash) = "miss"
    /\ pc \in {"replaced", "publishing", "published"} => disk[cur.key] = PayloadOf(cur)
    /\ pc \in {"publishing", "published"} => mem[cur.key] = EntryOf(cur)

(* While results are committed, has() misses what is in flight. *)
InFlightMisses ==
    at \in E!Looping /\ error = "none" =>
        \A k \in Keys : inflight[k] # None /\ ~BeingCommitted(k) =>
            Has(k, HashOf[inflight[k].ad.p]) = "miss"

StoreInv ==
    /\ TypeOK /\ FromCommits /\ PhasesMatch /\ InStep /\ CommitAhead /\ InFlightMisses

JobInv == EP!IInv /\ StoreInv

(* What Engine's invariant says of the futures and the results. *)
LEMMA EngineFacts ==
    ASSUME EP!IInv
    PROVE  /\ batch \subseteq Keys
           /\ inflight \in [Keys -> E!Futures \cup {None}]
           /\ \A k \in Keys : inflight[k] # None =>
                /\ inflight[k].ad.p \in Payloads
                /\ error = "none" => Held[k] = None /\ KeyOf[inflight[k].ad.p] = k
           /\ error = "none" /\ at = "handle" => \A k \in batch : inflight[k] # None
           /\ error = "none" /\ at = "admit" => \A k \in Keys : inflight[k] = None
           /\ error # "none" => at \in {"handle", "closing", "failed"}
           /\ at = "failed" => error # "none"
           /\ at \in E!Phases
           /\ ready # <<>> => Head(ready).p \in Payloads
<1> USE DEF EP!IInv, EP!TypeInv, EP!TypeOK, EP!InFlight
<1>1. inflight \in [Keys -> E!Futures \cup {None}]
  BY DEF EP!Futures, EP!Admitted, E!Futures, E!Admitted
<1>2. ASSUME NEW k \in Keys, inflight[k] # None
      PROVE  inflight[k].ad.p \in Payloads
  BY <1>2 DEF EP!Futures, EP!Admitted
<1>3. ASSUME NEW k \in Keys, inflight[k] # None, error = "none"
      PROVE  Held[k] = None /\ KeyOf[inflight[k].ad.p] = k
  BY <1>3 DEF EP!Sound, EP!AllExpected, EP!FutureExpected, EP!Key
<1>4. error = "none" /\ at = "handle" => \A k \in batch : inflight[k] # None
  BY DEF EP!BatchIsDone, EP!Finished
<1>5. error = "none" /\ at = "admit" => \A k \in Keys : inflight[k] = None
  BY DEF EP!Sound, EP!Drained
<1>6. /\ error # "none" => at \in {"handle", "closing", "failed"}
      /\ at = "failed" => error # "none"
  BY DEF EP!PhaseErrors
<1>7. ready # <<>> => Head(ready).p \in Payloads
  <2>1. ready \in Seq(EP!Admitted)
    OBVIOUS
  <2>2. ready # <<>> => Head(ready) \in EP!Admitted
    BY <2>1, HeadTailProperties
  <2> QED BY <2>2 DEF EP!Admitted
<1>8. batch \subseteq Keys /\ at \in E!Phases
  BY DEF EP!Phases, E!Phases
<1> QED BY <1>1, <1>2, <1>3, <1>4, <1>5, <1>6, <1>7, <1>8

(* What one job assumes of the store. *)
LEMMA JobFacts ==
    /\ Results = Payloads /\ MaxDamage = 0 /\ ~ReadFaults /\ TmpLike = {} /\ Refused = {}
    /\ Faults /\ \A r \in Results : ReadBack[r] = r
    /\ \A f, g \in Fingerprints : f = g
    /\ \A r \in Results : Canonical(r) = r
    /\ KeyOf \in [Payloads -> Keys] /\ HashOf \in [Payloads -> Hashes]
    /\ None \notin Payloads /\ None \notin EntryRecords
    /\ Manifest \notin Keys
BY OneJob, EngineAssumptions, SentinelAssumption, KeysAssumption
   DEF Canonical, E!PayloadsAssumption, E!NoneAssumption

(* A step of the job but a power failure is one of the store, or none. *)
LEMMA StoreStep ==
    ASSUME JobInv, JobNext, ~PowerFails
    PROVE  [Next]_vars
<1> USE DEF Next
<1>1. CASE AskGate \/ BeginRun \/ Think \/ ReturnFromCleanup \/ Meanwhile \/ Resting
  BY <1>1 DEF AskGate, BeginRun, Think, ReturnFromCleanup, Meanwhile, Resting, StoreIdle
<1>2. CASE Construct
  BY <1>2 DEF Construct
<1>3. ASSUME NEW k \in Keys, EnterCommit(k)
      PROVE  BeginCommit
  <2>1. inflight[k].ad.p \in Payloads
    BY <1>3, EngineFacts DEF JobInv, EnterCommit, Committable
  <2> QED BY <1>3, <2>1, JobFacts DEF EnterCommit, BeginCommit
<1>4. CASE InsideCommit \/ LeaveCommit \/ BreakOffCommit
  BY <1>4 DEF InsideCommit, LeaveCommit, BreakOffCommit
<1>5. CASE CleanUp
  BY <1>5 DEF CleanUp
<1>6. CASE ProcessDies
  BY <1>6 DEF ProcessDies
<1> QED BY <1>1, <1>2, <1>3, <1>4, <1>5, <1>6 DEF JobNext

(* Power fails between two runs, with the directory in any state it may have,     *)
(* torn files included.                                                         *)
LEMMA PowerTypes ==
    ASSUME JobInv, PowerFails
    PROVE  TypeOK'
<1>1. /\ TypeOK /\ disk' \in [Names -> UNION {maybe[n] \cup Torn(n) : n \in Names}]
      /\ \A n \in Names : disk'[n] \in maybe[n] \cup Torn(n)
      /\ maybe' = [n \in Names |-> {disk'[n]}] /\ Closed
  BY DEF JobInv, StoreInv, PowerFails
<1>2. \A n \in Names : disk'[n] \in Contents(n)
  BY <1>1 DEF TypeOK, FilesOK, Torn, Contents
<1>3. FilesOK'
  <2>1. \A n \in Names : Contents(n) \subseteq AnyContents
    BY DEF Contents, AnyContents
  <2>2. DOMAIN disk' = Names /\ disk' = [n \in Names |-> disk'[n]]
    BY <1>1
  <2>3. disk' \in [Names -> AnyContents]
    BY <1>2, <2>1, <2>2
  <2>4. maybe' \in [Names -> SUBSET AnyContents]
    BY <1>1, <1>2, <2>1
  <2> QED BY <1>1, <1>2, <2>3, <2>4 DEF FilesOK, Contents
<1> QED BY <1>1, <1>3 DEF Closed, TypeOK, NoEntries, Entries, Phases, Committing

LEMMA StoreTypes ==
    ASSUME JobInv, [JobNext]_jobVars
    PROVE  TypeOK'
<1>1. CASE JobNext /\ ~PowerFails
  BY <1>1, StoreStep, NextTypes DEF JobInv, StoreInv
<1>2. CASE UNCHANGED jobVars
  BY <1>2, NextTypes DEF JobInv, StoreInv, jobVars
<1> QED BY <1>1, <1>2, PowerTypes

(* A payload that was committed stays one whatever is committed later. *)
LEMMA CommitsStay ==
    ASSUME FromCommits, issued' = issued,
           \A k \in Keys : maybe'[k] \subseteq maybe[k] \cup {Absent, Garbled}
    PROVE  FromCommits'
BY DEF FromCommits, PayloadOf, Canonical

(* Every step keeps what is known of the payload files. *)
LEMMA FromCommitsStep ==
    ASSUME JobInv, [JobNext]_jobVars
    PROVE  FromCommits'
<1>0. /\ TypeOK /\ FilesOK /\ FromCommits /\ PhasesMatch
      /\ Keys \subseteq Names /\ Manifest \in Names /\ Manifest \notin Keys
  BY JobFacts DEF JobInv, StoreInv, TypeOK, Names
<1>a. ASSUME UNCHANGED <<maybe, issued>>
      PROVE  FromCommits'
  BY <1>0, <1>a, CommitsStay
<1>b. ASSUME NEW n \in Names, NEW content \in {Absent, Garbled}, Put(n, content), issued' = issued
      PROVE  FromCommits'
  BY <1>0, <1>b, CommitsStay DEF Put, FilesOK
<1>c. ASSUME NEW content, Put(Manifest, content), issued' = issued
      PROVE  FromCommits'
  BY <1>0, <1>c, CommitsStay DEF Put, FilesOK
<1>d. ASSUME FsyncDir, issued' = issued
      PROVE  FromCommits'
  BY <1>0, <1>d, CommitsStay DEF FsyncDir, FilesOK
<1>1. CASE AskGate \/ BeginRun \/ Think \/ ReturnFromCleanup \/ Meanwhile \/ Resting \/ UNCHANGED jobVars
  BY <1>a, <1>1 DEF AskGate, BeginRun, Think, ReturnFromCleanup, Meanwhile, Resting, StoreIdle,
                    vars, jobVars
<1>2. CASE Construct
  <2>1. CASE Open
    BY <1>a, <2>1 DEF Open, OpenValid, OpenInvalid
  <2>2. CASE Wipe
    BY <1>a, <1>b, <2>2 DEF Wipe, WipeOne, Unlink, FilesUnchanged
  <2>3. CASE WriteEmptyManifest
    BY <1>c, <2>3 DEF WriteEmptyManifest
  <2>4. CASE SyncEmptyManifest
    BY <1>d, <2>4 DEF SyncEmptyManifest
  <2>5. CASE Sweep
    BY <1>0, <2>5, JobFacts, CommitsStay DEF Sweep, FilesOK
  <2> QED BY <1>2, <2>1, <2>2, <2>3, <2>4, <2>5 DEF Construct
<1>3. ASSUME NEW k \in Keys, EnterCommit(k)
      PROVE  FromCommits'
  <2> DEFINE p == inflight[k].ad.p
  <2>1. /\ p \in Payloads /\ KeyOf[p] = k /\ cur'.key = k /\ cur'.hash = HashOf[p] /\ cur'.res = p
        /\ issued' = issued \cup {cur'} /\ UNCHANGED maybe
    BY <1>3, EngineFacts DEF JobInv, EnterCommit, Committable, WritePayload
  <2> HIDE DEF p
  <2> QED BY <1>0, <2>1 DEF FromCommits, PayloadOf, Canonical
<1>4. CASE InsideCommit
  <2>1. CASE ReplacePayload
    <3>1. cur \in issued /\ issued' = issued /\ Put(cur.key, PayloadOf(cur)) /\ cur.key \in Keys
      BY <1>0, <2>1, CommitForms DEF ReplacePayload, TypeOK, Committing
    <3>2. \A k \in Keys : maybe'[k] \subseteq maybe[k] \cup (IF k = cur.key THEN {PayloadOf(cur)} ELSE {})
      BY <1>0, <3>1 DEF Put, FilesOK
    <3>3. ASSUME NEW k \in Keys, NEW file \in maybe'[k] \ {Absent, Garbled}
          PROVE  \E c \in issued' : c.key = k /\ file = PayloadOf(c)
      BY <1>0, <3>1, <3>2, <3>3 DEF FromCommits
    <3>4. \A k \in Keys : \A file \in maybe'[k] \ {Absent, Garbled} :
            \E c \in issued' : c.key = k /\ file = PayloadOf(c)
      BY <3>3
    <3> QED BY <1>0, <3>1, <3>4 DEF FromCommits, PayloadOf, Canonical
  <2>2. CASE SyncPayload
    BY <1>d, <2>2 DEF SyncPayload
  <2>3. CASE PublishManifest
    BY <1>c, <2>3 DEF PublishManifest
  <2> QED BY <1>4, <2>1, <2>2, <2>3 DEF InsideCommit
<1>5. CASE LeaveCommit \/ BreakOffCommit
  BY <1>a, <1>d, <1>5 DEF LeaveCommit, BreakOffCommit, SyncManifest, CommitFails
<1>6. CASE CleanUp
  BY <1>a, <1>b, <1>6 DEF CleanUp, CleanupBegin, Clean, CleanOne, CleanupEnd, Unlink, FilesUnchanged
<1>7. CASE ProcessDies
  BY <1>a, <1>7 DEF ProcessDies, ProcessEnds, Closed, FilesUnchanged
<1>8. CASE PowerFails
  <2>1. \A n \in Names : maybe'[n] \subseteq maybe[n] \cup {Absent, Garbled}
    BY <1>0, <1>8 DEF PowerFails, Torn
  <2> QED BY <1>0, <1>8, <2>1, CommitsStay DEF PowerFails, Closed
<1> QED BY <1>1, <1>2, <1>3, <1>4, <1>5, <1>6, <1>7, <1>8 DEF JobNext

-----------------------------------------------------------------------------
(* What the files amount to, and what has() and load() make of them. *)

(* The result in the file of key k, the commit in progress being no exception. *)
Seen(k) ==
    IF {disk[Manifest], disk[k]} \cap {Absent, Garbled} = {}
       /\ Agrees(k, disk[k], disk[Manifest])
    THEN ReadFile(disk[k]) ELSE None

LEMMA HeldIsSeen ==
    /\ \A k \in Keys : Held[k] = IF BeingCommitted(k) THEN None ELSE Seen(k)
    /\ \A k \in Keys : Held'[k] = IF BeingCommitted(k)' THEN None ELSE Seen(k)'
    /\ Held = [k \in Keys |-> Held[k]] /\ Held' = [k \in Keys |-> Held'[k]]
BY DEF Held, Seen

(* It is that of a commit which bears the identity of the work. *)
LEMMA SeenWasCommitted ==
    ASSUME TypeOK, FromCommits, NEW k \in Keys, Seen(k) # None
    PROVE  \E c \in issued :
             /\ disk[k] = PayloadOf(c) /\ Seen(k) = c.res
             /\ c.res \in Payloads /\ KeyOf[c.res] = k /\ c.hash = HashOf[c.res]
             /\ Agrees(k, disk[k], disk[Manifest]) /\ disk[Manifest] \notin {Absent, Garbled}
<1>1. /\ disk[k] \in maybe[k] \ {Absent, Garbled} /\ Seen(k) = ReadFile(disk[k])
      /\ Agrees(k, disk[k], disk[Manifest]) /\ disk[Manifest] \notin {Absent, Garbled}
  BY DEF Seen, TypeOK, FilesOK, Names
<1>2. PICK c \in issued : c.key = k /\ disk[k] = PayloadOf(c)
  BY <1>1 DEF FromCommits
<1>3. c \in Commits /\ c.key = KeyOf[c.res] /\ c.hash = HashOf[c.res]
  BY DEF TypeOK, FromCommits
<1>4. c.res \in Payloads /\ ReadFile(disk[k]) = c.res
  BY <1>2, <1>3, JobFacts DEF Commits, ReadFile, PayloadOf
<1> QED BY <1>1, <1>2, <1>3, <1>4

(* While the session's copy is that on disk, has() finds and load() loads exactly *)
(* what there is, and for other work has() raises.                               *)
LEMMA HasFindsSeen ==
    ASSUME TypeOK, FromCommits, pc # "closed", OnDisk(mem), NEW k \in Keys, NEW h
    PROVE  /\ Seen(k) # None => /\ Has(k, h) = IF HashOf[Seen(k)] = h THEN "hit" ELSE "collision"
                                /\ Load(k) = Seen(k)
           /\ Seen(k) = None => Has(k, h) # "hit"
<1>1. disk[Manifest] \notin {Absent, Garbled} /\ disk[Manifest].fp = fp
      /\ disk[Manifest].entries = mem
  <2>1. disk[Manifest] \in Documents
    BY DEF TypeOK, OnDisk, Documents
  <2> QED BY <2>1, SentinelAssumption DEF OnDisk
<1>2. ASSUME Seen(k) # None
      PROVE  /\ Has(k, h) = IF HashOf[Seen(k)] = h THEN "hit" ELSE "collision"
             /\ Load(k) = Seen(k)
  <2>1. PICK c \in issued :
             /\ disk[k] = PayloadOf(c) /\ Seen(k) = c.res
             /\ c.res \in Payloads /\ KeyOf[c.res] = k /\ c.hash = HashOf[c.res]
             /\ Agrees(k, disk[k], disk[Manifest]) /\ disk[Manifest] \notin {Absent, Garbled}
    BY <1>2, SeenWasCommitted
  <2>a. disk[k].hash = HashOf[Seen(k)]
    BY <2>1 DEF PayloadOf
  <2>2. /\ mem[k] # None /\ disk[k] \notin {Absent, Garbled}
        /\ disk[k].hash = mem[k].hash /\ disk[k].hash = HashOf[Seen(k)]
        /\ disk[k].key = k /\ disk[k].fp = fp /\ disk[k].gen = mem[k].gen
        /\ disk[k].digest = mem[k].digest /\ disk[k].digest = Canonical(ReadFile(disk[k]))
        /\ Seen(k) = ReadFile(disk[k])
    BY <1>1, <1>2, <2>a, <2>1 DEF Agrees, Seen
  <2>3. ValidStructure(ReadFile(disk[k]), disk[k].schema)
    BY <2>1, JobFacts DEF ValidStructure, ReadFile, PayloadOf
  <2> QED BY <2>2, <2>3 DEF Has, Check, Load
<1>3. ASSUME Has(k, h) = "hit"
      PROVE  Seen(k) # None
  <2>1. /\ mem[k] # None /\ disk[k] \notin {Absent, Garbled} /\ Check(k, h, disk[k], mem[k]) = "hit"
        /\ mem[k].hash = h
    BY <1>3 DEF Has
  <2>2. Agrees(k, disk[k], disk[Manifest])
    BY <1>1, <2>1 DEF Agrees, Check
  <2>3. disk[k] \in Files
    BY <2>1, JobFacts DEF TypeOK, FilesOK, Names, Contents
  <2>4. Seen(k) \in Payloads
    BY <1>1, <2>1, <2>2, <2>3, JobFacts DEF Seen, ReadFile, Files
  <2> QED BY <2>4, JobFacts
<1> QED BY <1>2, <1>3

-----------------------------------------------------------------------------
(* The steps of the job, one by one: each is a step of Engine or changes nothing  *)
(* of it, and keeps the parts of the invariant that tie the coordinator to the     *)
(* store.                                                                        *)
Protocol == PhasesMatch /\ InStep /\ CommitAhead /\ InFlightMisses
EngineStepOrNone == [E!Next]_(E!vars)

LEMMA Unmoved ==
    ASSUME UNCHANGED coordinator, Held' = Held
    PROVE  EngineStepOrNone
BY DEF coordinator, EngineStepOrNone, E!vars

(* What the coordinator does by itself, as far as the store is concerned. *)
LEMMA ThinkEffect ==
    ASSUME JobInv, Think
    PROVE  /\ at \in {"admit", "dispatch", "wait", "handle", "sleep", "closing", "fold"}
           /\ Running' => Running
           /\ at' \in E!Looping /\ error' = "none" => at \in E!Looping \cup {"admit"} /\ error = "none"
           /\ \A k \in Keys : inflight'[k] # None =>
                \/ inflight[k] # None /\ inflight'[k] = inflight[k]
                \/ E!Submit /\ k = E!Key(Head(ready)) /\ inflight'[k].ad = Head(ready)
<1> DEFINE Effect ==
           /\ at \in {"admit", "dispatch", "wait", "handle", "sleep", "closing", "fold"}
           /\ Running' => Running
           /\ at' \in E!Looping /\ error' = "none" => at \in E!Looping \cup {"admit"} /\ error = "none"
<1> DEFINE Kept == \A k \in Keys : inflight'[k] # None =>
                     inflight[k] # None /\ inflight'[k] = inflight[k]
<1>0. inflight \in [Keys -> E!Futures \cup {None}]
  BY EngineFacts DEF JobInv
<1> USE DEF Running, E!Looping
<1>1. CASE E!AdmitRoot \/ E!AdmitRootRaises \/ E!AdmissionDone
  <2>1. Effect
    BY <1>1 DEF E!AdmitRoot, E!AdmitRootRaises, E!AdmissionDone, E!outside
  <2>2. Kept
    BY <1>1 DEF E!AdmitRoot, E!AdmitRootRaises, E!AdmissionDone, E!outside
  <2> QED BY <2>1, <2>2
<1>2. CASE E!Resume \/ E!HasRaises \/ E!DispatchDone \/ E!WaitReturns \/ E!SleepReturns \/ E!SubmitRaises
  <2>1. Effect
    BY <1>2 DEF E!Resume, E!HasRaises, E!DispatchDone, E!WaitReturns, E!SleepReturns, E!SubmitRaises,
                E!LeaveDispatch, E!Leave
  <2>2. Kept
    BY <1>2 DEF E!Resume, E!HasRaises, E!DispatchDone, E!WaitReturns, E!SleepReturns, E!SubmitRaises,
                E!LeaveDispatch
  <2> QED BY <2>1, <2>2
<1>3. ASSUME NEW k \in Keys, E!Pop(k)
      PROVE  at = "handle" /\ error = "none" /\ Kept
  BY <1>0, <1>3 DEF E!Pop
<1>4. CASE E!SplitSome \/ E!RetrySome \/ E!FailSome \/ E!RouteSome
  <2>1. \E k \in Keys : E!Pop(k)
    BY <1>4 DEF E!SplitSome, E!RetrySome, E!FailSome, E!RouteSome, E!Split, E!SplitCollides,
                E!Retry, E!Fail, E!RouteRaises
  <2> QED BY <1>3, <2>1
<1>5. CASE E!HandleDone \/ E!FatalExit \/ E!ShutdownDone
  <2>1. Effect
    BY <1>5 DEF E!HandleDone, E!FatalExit, E!ShutdownDone
  <2>2. Kept
    BY <1>0, <1>5 DEF E!HandleDone, E!FatalExit, E!ShutdownDone, E!Nothing
  <2> QED BY <2>1, <2>2
<1>6. CASE E!FoldSome \/ E!FoldRaises \/ E!Deliver
  <2>1. Effect
    BY <1>6 DEF E!FoldSome, E!Fold, E!FoldRaises, E!Deliver
  <2>2. Kept
    BY <1>6 DEF E!FoldSome, E!Fold, E!FoldRaises, E!Deliver
  <2> QED BY <2>1, <2>2
<1>7. CASE E!Submit
  <2>1. Effect
    BY <1>7 DEF E!Submit
  <2>2. \A k \in Keys : inflight'[k] # None =>
          \/ inflight[k] # None /\ inflight'[k] = inflight[k]
          \/ k = E!Key(Head(ready)) /\ inflight'[k].ad = Head(ready)
    BY <1>0, <1>7 DEF E!Submit
  <2> QED BY <1>7, <2>1, <2>2
<1> QED BY <1>1, <1>2, <1>4, <1>5, <1>6, <1>7 DEF Think, E!Thinking

(* An item is submitted only where has() answers a miss. *)
LEMMA SubmitMisses ==
    ASSUME JobInv, Think, E!Submit, error' = "none"
    PROVE  Has(E!Key(Head(ready)), HashOf[Head(ready).p]) = "miss"
<1> DEFINE ad == Head(ready)
           k == E!Key(ad)
<1>1. /\ at = "dispatch" /\ E!CanDispatch /\ E!Has(ad) = "miss" /\ pc = "ready"
      /\ error = "none"
  BY DEF E!Submit, Think
<1>2. ad.p \in Payloads /\ k \in Keys
  BY <1>1, EngineFacts, JobFacts DEF JobInv, E!CanDispatch, E!Key
<1>3. OnDisk(mem) /\ TypeOK /\ FromCommits
  BY <1>1 DEF JobInv, StoreInv, InStep, Running
<1>4. Seen(k) = None
  <2>1. Held[k] # None => E!Has(ad) \in {"hit", "collision"}
    BY DEF E!Has
  <2> QED BY <1>1, <1>2, <2>1, HeldIsSeen DEF BeingCommitted, Committing
<1>5. Has(k, HashOf[ad.p]) # "hit"
  BY <1>1, <1>2, <1>3, <1>4, HasFindsSeen
<1>6. ~Collides
  BY DEF Think, E!HasRaises, E!LeaveDispatch, E!Leave
<1>7. Has(k, HashOf[ad.p]) # "collision"
  BY <1>1, <1>6 DEF Collides, E!Hash
<1> QED BY <1>5, <1>7 DEF Has, Check

LEMMA ThinkStep ==
    ASSUME JobInv, Think
    PROVE  EngineStepOrNone /\ Protocol'
<1>0. /\ TypeOK /\ PhasesMatch /\ InStep /\ CommitAhead /\ InFlightMisses
      /\ pc = "ready" /\ UNCHANGED <<vars, fresh>>
  BY DEF JobInv, StoreInv, Think, StoreIdle
<1>1. EngineStepOrNone
  BY DEF Think, EngineStepOrNone, E!Next, E!Coordinator
<1>2. PhasesMatch' /\ InStep' /\ CommitAhead'
  <2>1. ~NoRun /\ (Running' => Running)
    BY ThinkEffect DEF NoRun
  <2> QED BY <1>0, <2>1 DEF PhasesMatch, InStep, CommitAhead, OnDisk, vars, Committing
<1>3. InFlightMisses'
  <2> SUFFICES ASSUME at' \in E!Looping, error' = "none", NEW k \in Keys, inflight'[k] # None
               PROVE  Has(k, HashOf[inflight'[k].ad.p]) = "miss"
    BY <1>0 DEF InFlightMisses, Has, Check, vars, E!Looping
  <2>1. at \in E!Looping \cup {"admit"} /\ error = "none"
    BY ThinkEffect
  <2>2. CASE inflight[k] # None /\ inflight'[k] = inflight[k]
    <3>1. at \in E!Looping
      BY <2>1, <2>2, EngineFacts DEF JobInv
    <3> QED BY <1>0, <2>1, <2>2, <3>1 DEF InFlightMisses, BeingCommitted, Committing
  <2>3. CASE E!Submit /\ k = E!Key(Head(ready)) /\ inflight'[k].ad = Head(ready)
    BY <2>3, SubmitMisses
  <2> QED BY <2>2, <2>3, ThinkEffect
<1> QED BY <1>1, <1>2, <1>3 DEF Protocol

(* Workers and the clock leave alone what a call of the store uses. *)
LEMMA MeanwhileStep ==
    ASSUME JobInv, Meanwhile
    PROVE  EngineStepOrNone /\ Protocol'
<1>0. /\ PhasesMatch /\ InStep /\ CommitAhead /\ InFlightMisses
      /\ UNCHANGED <<vars, fresh>>
  BY DEF JobInv, StoreInv, Meanwhile, StoreIdle
<1>1. EngineStepOrNone
  BY DEF Meanwhile, EngineStepOrNone, E!Next
<1>2. /\ UNCHANGED <<at, error, batch>>
      /\ \A k \in Keys : inflight'[k] # None =>
           inflight[k] # None /\ inflight'[k].ad = inflight[k].ad
      /\ \A k \in Keys : inflight[k] # None /\ inflight[k].st = "ok" => inflight'[k] = inflight[k]
  <2>1. CASE (\E k \in Keys : E!Worker(k)) \/ E!QueueFails
    <3>1. (\E k \in Keys : EP!Worker(k)) \/ EP!QueueFails
      BY <2>1 DEF E!Worker, E!WorkerStarts, E!WorkerEnds, E!QueueFails,
                  E!identity, E!queues, E!outside,
                  EP!Worker, EP!WorkerStarts, EP!WorkerEnds, EP!QueueFails,
                  EP!identity, EP!queues, EP!outside
    <3>2. /\ EP!InFlight' = EP!InFlight
          /\ \A j \in EP!InFlight : inflight'[j].ad = inflight[j].ad
          /\ \A j \in EP!Finished : inflight'[j] = inflight[j]
          /\ UNCHANGED <<at, error, batch>>
      BY <3>1, SameAssumptions, EP!WorkersProgress
         DEF EP!IsFiniteSet, EP!ExceptionKinds, EP!DistinctKeys, EP!Futures, EP!Admitted,
             JobInv, EP!IInv, EP!TypeInv
    <3> QED BY <3>2 DEF EP!InFlight, EP!Finished
  <2>2. CASE E!Tick
    BY <2>2 DEF E!Tick
  <2> QED BY <2>1, <2>2 DEF Meanwhile
<1>3. PhasesMatch'
  <2>1. ASSUME pc \in Committing
        PROVE  Committable(cur.key)' /\ inflight'[cur.key] = inflight[cur.key]
    <3>1. Committable(cur.key) /\ cur.key \in Keys /\ inflight[cur.key] # None
      BY <1>0, <2>1, EngineFacts DEF PhasesMatch, Committable, JobInv
    <3> QED BY <1>0, <1>2, <3>1 DEF Committable, vars
  <2> QED BY <1>0, <1>2, <2>1 DEF PhasesMatch, NoRun, vars
<1>4. InStep' /\ CommitAhead'
  BY <1>0, <1>2 DEF InStep, CommitAhead, Running, OnDisk, Has, Check, vars
<1>5. InFlightMisses'
  <2> SUFFICES ASSUME at \in E!Looping, error = "none", NEW k \in Keys,
                      inflight'[k] # None, ~BeingCommitted(k)
               PROVE  Has(k, HashOf[inflight'[k].ad.p]) = "miss"
    BY <1>0, <1>2 DEF InFlightMisses, Has, Check, vars, E!Looping, BeingCommitted
  <2> QED BY <1>0, <1>2 DEF InFlightMisses
<1> QED BY <1>1, <1>3, <1>4, <1>5 DEF Protocol

(* Nothing of the coordinator or the store moves. *)
LEMMA StandsStill ==
    ASSUME JobInv, UNCHANGED <<vars, coordinator, fresh>>
    PROVE  EngineStepOrNone /\ Protocol'
<1>1. Held' = Held
  BY DEF Held, BeingCommitted, Agrees, vars
<1>2. Protocol'
  BY DEF JobInv, StoreInv, Protocol, PhasesMatch, InStep, CommitAhead, InFlightMisses, E!Looping,
         NoRun, Running, OnDisk, Committable, BeingCommitted, Has, Check, vars, coordinator
<1> QED BY <1>1, <1>2, Unmoved

LEMMA QuietStep ==
    ASSUME JobInv, AskGate \/ Resting \/ UNCHANGED jobVars
    PROVE  EngineStepOrNone /\ Protocol'
<1>1. UNCHANGED <<vars, coordinator, fresh>>
  BY DEF AskGate, Resting, StoreIdle, NoCache, E!Rest, E!vars, jobVars, coordinator
<1> QED BY <1>1, StandsStill

LEMMA BeginStep ==
    ASSUME JobInv, BeginRun \/ ReturnFromCleanup
    PROVE  EngineStepOrNone /\ Protocol'
<1>1. EngineStepOrNone
  BY DEF BeginRun, ReturnFromCleanup, EngineStepOrNone, E!Next, E!Coordinator, E!Storing
<1>2. at' \in {"admit", "returned"} /\ pc = "ready" /\ UNCHANGED vars /\ fresh' = FALSE
      /\ (at' = "admit" => OnDisk(mem))
  BY DEF BeginRun, ReturnFromCleanup, E!Begin, E!Start, E!CleanupDone, StoreIdle,
         JobInv, StoreInv, PhasesMatch, InStep, NoRun
<1>3. Protocol'
  BY <1>2 DEF Protocol, PhasesMatch, InStep, CommitAhead, InFlightMisses, E!Looping, Running,
              OnDisk, Committing, vars
<1> QED BY <1>1, <1>3

(* With the same files, and no commit that comes or goes, there is the same. *)
LEMMA SameFiles ==
    ASSUME UNCHANGED disk, pc \notin Committing, pc' \notin Committing
    PROVE  Held' = Held
<1>1. \A k \in Keys : ~BeingCommitted(k) /\ ~BeingCommitted(k)' /\ Seen(k)' = Seen(k)
  BY DEF BeingCommitted, Seen, Agrees, ReadFile
<1>2. \A k \in Keys : Held'[k] = Held[k]
  BY <1>1, HeldIsSeen
<1> QED BY <1>2, HeldIsSeen

(* Opening a cache changes nothing of what it holds: what a wipe removes is there  *)
(* without a manifest that vouches for it.                                        *)
LEMMA ConstructStep ==
    ASSUME JobInv, Construct
    PROVE  EngineStepOrNone /\ Protocol'
<1>0. /\ TypeOK /\ FilesOK /\ InStep /\ NoRun /\ UNCHANGED coordinator /\ fresh' = TRUE
      /\ Keys \subseteq Names /\ Manifest \in Names /\ Manifest \notin Keys
  BY JobFacts DEF JobInv, StoreInv, Construct, TypeOK, Names
<1> DEFINE bad == {Absent, Garbled}
           opening == {"closed", "wiping", "emptied", "sweeping"}
<1>a. ASSUME disk[Manifest] \in bad, disk'[Manifest] \in bad \/ disk'[Manifest].entries = NoEntries,
             pc \in opening, pc' \in opening
      PROVE  Held' = Held
  <2>1. \A k \in Keys : Seen(k) = None /\ Seen(k)' = None
    BY <1>a DEF Seen, Agrees, NoEntries
  <2>2. \A k \in Keys : Held'[k] = Held[k]
    BY <2>1, HeldIsSeen
  <2> QED BY <2>2, HeldIsSeen
<1>b. ASSUME pc \in opening, pc' \in opening \cup {"ready"}, UNCHANGED disk
      PROVE  Held' = Held
  BY <1>b, SameFiles DEF Committing
<1> DEFINE Opened ==
      /\ Held' = Held
      /\ pc' \in {"wiping", "emptied", "sweeping", "ready"}
      /\ pc' = "wiping" => disk'[Manifest] \in bad /\ mem' = NoEntries
      /\ pc' # "wiping" => OnDisk(mem)'
<1>1. ASSUME Open
      PROVE  Opened
  <2>1. PICK f \in Fingerprints : OpenValid(f) \/ OpenInvalid(f)
    BY <1>1 DEF Open
  <2>2. disk[Manifest] \in Documents \cup bad
    BY <1>0 DEF FilesOK, Contents
  <2>3. CASE OpenValid(f)
    <3>1. disk[Manifest] \in Documents /\ disk[Manifest].fp = f
      BY <2>2, <2>3 DEF OpenValid, Usable
    <3>2. disk[Manifest] = [fp |-> f, entries |-> disk[Manifest].entries]
      BY <3>1 DEF Documents
    <3>3. OnDisk(mem)'
      BY <2>3, <3>2 DEF OpenValid, OnDisk
    <3> QED BY <1>b, <2>3, <3>3 DEF OpenValid
  <2>4. CASE OpenInvalid(f)
    <3>1. disk[Manifest] \in bad
      <4>1. disk[Manifest] \in Documents => disk[Manifest].fp = f
        BY JobFacts DEF Documents
      <4> QED BY <2>2, <2>4, <4>1, JobFacts DEF OpenInvalid, Usable
    <3> QED BY <1>b, <2>4, <3>1 DEF OpenInvalid
  <2> QED BY <2>1, <2>3, <2>4
<1>2. ASSUME Wipe
      PROVE  Opened
  <2>1. PICK n \in Names : WipeOne(n)
    BY <1>2 DEF Wipe
  <2>2. disk[Manifest] \in bad /\ mem = NoEntries /\ pc = "wiping" /\ pc' = "wiping" /\ mem' = mem
    BY <1>0, <2>1 DEF WipeOne, InStep
  <2>3. disk'[Manifest] \in bad
    BY <1>0, <2>1, <2>2 DEF WipeOne, Unlink, Put, FilesUnchanged, FilesOK
  <2> QED BY <1>a, <2>2, <2>3
<1>3. ASSUME WriteEmptyManifest
      PROVE  Opened
  <2>1. /\ disk[Manifest] \in bad /\ mem = NoEntries /\ mem' = mem /\ fp' = fp
        /\ pc = "wiping" /\ pc' = "emptied"
    BY <1>0, <1>3 DEF WriteEmptyManifest, InStep
  <2>2. disk'[Manifest] = [fp |-> fp, entries |-> mem]
    BY <1>0, <1>3 DEF WriteEmptyManifest, Put, FilesOK
  <2> QED BY <1>a, <2>1, <2>2 DEF OnDisk
<1>4. ASSUME SyncEmptyManifest
      PROVE  Opened
  BY <1>0, <1>b, <1>4 DEF SyncEmptyManifest, FsyncDir, InStep, OnDisk
<1>5. ASSUME Sweep
      PROVE  Opened
  <2>1. disk' = disk
    <3>1. disk' = [n \in Names |-> disk[n]]
      BY <1>5, JobFacts DEF Sweep
    <3> QED BY <1>0, <3>1 DEF FilesOK
  <2> QED BY <1>0, <1>b, <1>5, <2>1 DEF Sweep, InStep, OnDisk
<1>6. Opened
  BY <1>1, <1>2, <1>3, <1>4, <1>5 DEF Construct
<1>7. Protocol'
  BY <1>0, <1>6 DEF Protocol, PhasesMatch, InStep, CommitAhead, InFlightMisses, E!Looping, NoRun,
                    Committing, coordinator
<1> QED BY <1>0, <1>6, <1>7, Unmoved

(* Entering commit(): the store knows nothing of the key, so nothing is lost from  *)
(* view.                                                                         *)
LEMMA EnterStep ==
    ASSUME JobInv, NEW k \in Keys, EnterCommit(k)
    PROVE  EngineStepOrNone /\ Protocol'
<1> DEFINE p == inflight[k].ad.p
<1>0. /\ PhasesMatch /\ InStep /\ InFlightMisses /\ Committable(k) /\ Committable(k)'
      /\ at = "handle" /\ error = "none" /\ inflight[k] # None /\ Held[k] = None
      /\ UNCHANGED <<coordinator, fresh, disk, fp, mem>>
      /\ pc = "ready" /\ pc' = "writing" /\ Has(k, HashOf[p]) = "miss"
      /\ cur'.key = k /\ cur'.hash = HashOf[p] /\ cur'.res = p
  BY EngineFacts DEF JobInv, StoreInv, EnterCommit, Committable, WritePayload, coordinator
<1>1. Held' = Held
  <2>1. \A j \in Keys : /\ ~BeingCommitted(j) /\ (BeingCommitted(j)' <=> j = k)
                        /\ Seen(j)' = Seen(j)
    BY <1>0 DEF BeingCommitted, Committing, Seen, Agrees, ReadFile
  <2>2. \A j \in Keys : Held'[j] = Held[j]
    BY <1>0, <2>1, HeldIsSeen
  <2> QED BY <2>2, HeldIsSeen
<1>2. PhasesMatch'
  BY <1>0 DEF PhasesMatch, coordinator, NoRun
<1>3. InStep' /\ CommitAhead'
  <2>1. OnDisk(mem)
    BY <1>0 DEF InStep, Running
  <2>2. Has(cur.key, cur.hash)' = "miss"
    BY <1>0 DEF Has, Check
  <2> QED BY <1>0, <2>1, <2>2 DEF InStep, CommitAhead, OnDisk
<1>4. InFlightMisses'
  <2>1. \A j \in Keys : ~BeingCommitted(j)
    BY <1>0 DEF BeingCommitted, Committing
  <2> QED BY <1>0, <2>1 DEF InFlightMisses, E!Looping, Has, Check, coordinator
<1> QED BY <1>0, <1>1, <1>2, <1>3, <1>4, Unmoved DEF Protocol

(* What is known half-way through commit(). *)
LEMMA CommitFacts ==
    ASSUME JobInv, pc \in Committing
    PROVE  /\ cur \in issued /\ cur \in Commits /\ cur.key \in Keys /\ cur.fp = fp
           /\ Committable(cur.key) /\ cur.res = inflight[cur.key].ad.p /\ cur.hash = HashOf[cur.res]
           /\ at = "handle" /\ error = "none" /\ ~NoRun /\ ~fresh /\ cur.key \in batch
           /\ inflight[cur.key].st = "ok" /\ inflight[cur.key] # None
           /\ PayloadOf(cur) \in Files /\ PayloadOf(cur) \notin {Absent, Garbled}
           /\ EntryOf(cur) # None /\ ReadFile(PayloadOf(cur)) = cur.res /\ cur.res \in Payloads
           /\ Held[cur.key] = None
<1>1. /\ cur \in issued /\ cur \in Commits /\ cur.fp = fp
      /\ Committable(cur.key) /\ cur.res = inflight[cur.key].ad.p /\ cur.hash = HashOf[cur.res]
  BY DEF JobInv, StoreInv, TypeOK, PhasesMatch
<1>2. /\ PayloadOf(cur) \in Files /\ PayloadOf(cur) \notin {Absent, Garbled}
      /\ EntryOf(cur) # None /\ cur.key \in Keys
  BY <1>1, CommitForms, SentinelAssumption
<1>3. cur.res \in Payloads /\ ReadFile(PayloadOf(cur)) = cur.res
  BY <1>1, JobFacts DEF Commits, ReadFile, PayloadOf
<1>4. /\ at = "handle" /\ error = "none" /\ ~NoRun /\ ~fresh /\ cur.key \in batch
      /\ inflight[cur.key].st = "ok" /\ inflight[cur.key] # None
  BY <1>1, EngineFacts DEF Committable, NoRun, JobInv, StoreInv, PhasesMatch
<1>5. Held[cur.key] = None
  BY <1>2, HeldIsSeen DEF BeingCommitted
<1> QED BY <1>1, <1>2, <1>3, <1>4, <1>5

(* Until the commit returns, its key is kept from view and the other keys see the    *)
(* same payload and the same entry.                                               *)
LEMMA InsideStep ==
    ASSUME JobInv, InsideCommit
    PROVE  EngineStepOrNone /\ Protocol'
<1>0. /\ pc \in {"writing", "replaced", "publishing"} /\ pc' \in {"replaced", "publishing", "published"}
      /\ UNCHANGED <<coordinator, fresh, cur, fp>>
  BY DEF InsideCommit, ReplacePayload, SyncPayload, PublishManifest
<1>1. /\ TypeOK /\ FilesOK /\ mem \in Entries /\ PhasesMatch /\ InStep /\ CommitAhead /\ InFlightMisses
      /\ Keys \subseteq Names /\ Manifest \in Names /\ Manifest \notin Keys
      /\ cur.key \in Keys /\ cur.key # Manifest /\ ~NoRun /\ ~fresh
  BY <1>0, CommitFacts, JobFacts DEF JobInv, StoreInv, TypeOK, Names, Committing
<1> DEFINE Others ==
      \A k \in Keys : k # cur.key =>
        /\ disk'[k] = disk[k] /\ mem'[k] = mem[k]
        /\ Seen(k)' = Seen(k)
<1> DEFINE Ahead == Others /\ InStep' /\ CommitAhead'
<1>2. ASSUME ReplacePayload
      PROVE  Ahead
  <2>1. /\ disk'[cur.key] = PayloadOf(cur) /\ \A n \in Names : n # cur.key => disk'[n] = disk[n]
        /\ mem' = mem /\ pc = "writing" /\ pc' = "replaced"
    BY <1>1, <1>2 DEF ReplacePayload, Put, FilesOK
  <2>2. Others
    BY <1>1, <2>1 DEF Seen, Agrees, ReadFile
  <2>3. InStep' /\ CommitAhead'
    BY <1>0, <1>1, <2>1 DEF InStep, CommitAhead, OnDisk, PayloadOf, Canonical
  <2> QED BY <2>2, <2>3
<1>3. ASSUME SyncPayload
      PROVE  Ahead
  <2>1. /\ disk' = disk /\ mem' = [mem EXCEPT ![cur.key] = EntryOf(cur)] /\ prior' = mem[cur.key]
        /\ pc = "replaced" /\ pc' = "publishing"
    BY <1>3 DEF SyncPayload, FsyncDir
  <2>2. Others
    BY <1>1, <2>1 DEF Seen, Agrees, ReadFile, Entries
  <2>3. [mem' EXCEPT ![cur.key] = prior'] = mem /\ mem'[cur.key] = EntryOf(cur)
    BY <1>1, <2>1 DEF Entries
  <2>4. disk'[Manifest] = [fp |-> fp, entries |-> mem] /\ disk'[cur.key] = PayloadOf(cur)
    BY <1>1, <2>1 DEF InStep, CommitAhead, OnDisk
  <2>5. InStep'
    BY <1>0, <2>1, <2>3, <2>4 DEF InStep, OnDisk
  <2>6. CommitAhead'
    BY <1>0, <2>1, <2>3, <2>4 DEF CommitAhead, PayloadOf, EntryOf, Canonical
  <2> QED BY <2>2, <2>5, <2>6
<1>4. ASSUME PublishManifest
      PROVE  Ahead
  <2>1. /\ disk'[Manifest] = [fp |-> fp, entries |-> mem]
        /\ \A n \in Names : n # Manifest => disk'[n] = disk[n]
        /\ mem' = mem /\ pc = "publishing" /\ pc' = "published"
    BY <1>1, <1>4 DEF PublishManifest, Put, FilesOK
  <2>2. disk[Manifest] = [fp |-> fp, entries |-> [mem EXCEPT ![cur.key] = prior]]
    BY <1>1, <2>1 DEF InStep, OnDisk
  <2>3. disk[Manifest] \notin {Absent, Garbled} /\ disk'[Manifest] \notin {Absent, Garbled}
    <3>1. fp \in Fingerprints /\ prior \in EntryRecords \cup {None}
      BY <1>1, <2>1 DEF TypeOK
    <3>2. disk[Manifest] \in Documents /\ disk'[Manifest] \in Documents
      BY <1>1, <2>1, <2>2, <3>1 DEF Documents, Entries
    <3> QED BY <3>2, SentinelAssumption
  <2>4. Others
    <3>1. ASSUME NEW k \in Keys, k # cur.key
          PROVE  disk'[Manifest].entries[k] = disk[Manifest].entries[k]
      BY <1>1, <2>1, <2>2, <3>1 DEF Entries
    <3>2. disk'[Manifest].fp = disk[Manifest].fp
      BY <2>1, <2>2
    <3> QED BY <1>1, <2>1, <2>3, <3>1, <3>2 DEF Seen, Agrees, ReadFile
  <2>5. InStep'
    BY <1>0, <2>1 DEF InStep, OnDisk
  <2>6. CommitAhead'
    BY <1>0, <1>1, <2>1 DEF CommitAhead, PayloadOf, EntryOf, Canonical
  <2> QED BY <2>4, <2>5, <2>6
<1>5. Ahead
  BY <1>2, <1>3, <1>4 DEF InsideCommit
<1>6. Held' = Held
  <2>1. \A k \in Keys : BeingCommitted(k) <=> k = cur.key
    BY <1>0 DEF BeingCommitted, Committing
  <2>2. \A k \in Keys : BeingCommitted(k)' <=> k = cur.key
    BY <1>0 DEF BeingCommitted, Committing
  <2>3. \A k \in Keys : Held'[k] = Held[k]
    BY <1>5, <2>1, <2>2, HeldIsSeen
  <2> QED BY <2>3, HeldIsSeen
<1>7. PhasesMatch'
  BY <1>0, <1>1 DEF PhasesMatch, Committable, coordinator, Committing
<1>8. InFlightMisses'
  <2> SUFFICES ASSUME at \in E!Looping, error = "none", NEW k \in Keys, inflight[k] # None,
                      k # cur.key
               PROVE  Has(k, HashOf[inflight[k].ad.p])' = "miss"
    BY <1>0 DEF InFlightMisses, E!Looping, coordinator, BeingCommitted, Committing
  <2>1. Has(k, HashOf[inflight[k].ad.p]) = "miss"
    BY <1>1 DEF InFlightMisses, BeingCommitted
  <2> QED BY <1>0, <1>5, <2>1 DEF Has, Check, coordinator
<1> QED BY <1>0, <1>5, <1>6, <1>7, <1>8, Unmoved DEF Protocol

(* However commit() ends, the files hold the result or what they held before; once *)
(* the manifest is published they hold it.                                        *)
LEMMA CommitEnds ==
    ASSUME JobInv, pc \in Committing, UNCHANGED disk, pc' \notin Committing
    PROVE  /\ Held' \in {Held, E!With(cur.key)}
           /\ pc = "published" => Held' = E!With(cur.key)
<1> DEFINE k == cur.key
<1>0. TypeOK /\ FromCommits /\ InStep /\ CommitAhead
  BY DEF JobInv, StoreInv
<1>1. \A j \in Keys : Seen(j)' = Seen(j) /\ ~BeingCommitted(j)' /\ (BeingCommitted(j) <=> j = k)
  BY DEF Seen, Agrees, ReadFile, BeingCommitted
<1>2. Held' = [Held EXCEPT ![k] = Seen(k)]
  <2>1. \A j \in Keys : Held'[j] = IF j = k THEN Seen(k) ELSE Held[j]
    BY <1>1, HeldIsSeen
  <2> QED BY <2>1, HeldIsSeen
<1>3. CASE pc = "writing"
  <2>1. Seen(k) = None
    BY <1>0, <1>3, CommitFacts, HasFindsSeen DEF InStep, CommitAhead
  <2> QED BY <1>2, <1>3, <2>1, CommitFacts, HeldIsSeen
<1>4. CASE pc \in {"replaced", "publishing", "published"}
  <2>1. disk[k] = PayloadOf(cur) /\ Seen(k) \in {None, cur.res}
    BY <1>0, <1>4, CommitFacts DEF CommitAhead, Seen
  <2>2. ASSUME pc = "published"
        PROVE  Seen(k) = cur.res
    <3>1. /\ disk[Manifest] = [fp |-> fp, entries |-> mem] /\ mem[k] = EntryOf(cur)
          /\ disk[Manifest] \in Documents
      BY <1>0, <2>2 DEF InStep, CommitAhead, OnDisk, TypeOK, Documents
    <3>2. Agrees(k, PayloadOf(cur), disk[Manifest])
      BY <3>1, CommitFacts, JobFacts DEF Agrees, PayloadOf, EntryOf, Commits
    <3> QED BY <2>1, <3>1, <3>2, CommitFacts, SentinelAssumption DEF Seen
  <2>3. E!With(k) = [Held EXCEPT ![k] = cur.res]
    BY CommitFacts DEF E!With
  <2> QED BY <1>2, <2>1, <2>2, <2>3, CommitFacts, HeldIsSeen
<1> QED BY <1>3, <1>4 DEF Committing

(* commit() returns: the result is there, and in the session's copy. *)
LEMMA LeaveStep ==
    ASSUME JobInv, LeaveCommit
    PROVE  EngineStepOrNone /\ Protocol'
<1>0. /\ pc = "published" /\ pc' = "ready" /\ UNCHANGED <<disk, fp, mem, fresh>>
      /\ E!CommitReturned(cur.key)
      /\ PhasesMatch /\ InStep /\ InFlightMisses
  BY DEF JobInv, StoreInv, LeaveCommit, SyncManifest, FsyncDir
<1>1. Held' = E!With(cur.key)
  BY <1>0, CommitEnds DEF Committing
<1>2. EngineStepOrNone
  <2>1. E!Commit(cur.key) /\ cur.key \in Keys
    BY <1>0, <1>1, CommitFacts DEF E!Commit, Committing
  <2> QED BY <2>1 DEF EngineStepOrNone, E!Next, E!Coordinator, E!Storing, E!CommitSome
<1>3. /\ at' = "handle" /\ error' = "none" /\ ~fresh' /\ ~NoRun'
      /\ inflight' = [inflight EXCEPT ![cur.key] = None]
  BY <1>0, CommitFacts DEF E!CommitReturned, E!Pop, NoRun, Committing
<1>4. PhasesMatch' /\ InStep' /\ CommitAhead'
  BY <1>0, <1>3 DEF PhasesMatch, InStep, CommitAhead, OnDisk, Committing
<1>5. InFlightMisses'
  <2> SUFFICES ASSUME NEW k \in Keys, inflight'[k] # None
               PROVE  Has(k, HashOf[inflight[k].ad.p])' = "miss"
    BY DEF InFlightMisses
  <2>1. k # cur.key /\ inflight'[k] = inflight[k] /\ inflight[k] # None
    BY <1>3, EngineFacts DEF JobInv
  <2>2. Has(k, HashOf[inflight[k].ad.p]) = "miss"
    BY <1>0, <2>1, CommitFacts DEF InFlightMisses, BeingCommitted, Committing, E!Looping
  <2> QED BY <1>0, <2>1, <2>2 DEF Has, Check
<1> QED BY <1>2, <1>4, <1>5 DEF Protocol

(* commit() raises: the run is over, whatever the files hold. *)
LEMMA BreakOffStep ==
    ASSUME JobInv, BreakOffCommit
    PROVE  EngineStepOrNone /\ Protocol'
<1>0. /\ pc \in Committing /\ pc' = "ready" /\ UNCHANGED <<disk, fresh>>
      /\ E!CommitRaised(cur.key)
  BY DEF BreakOffCommit, CommitFails
<1>1. Held' \in {Held, E!With(cur.key)}
  BY <1>0, CommitEnds DEF Committing
<1>2. EngineStepOrNone
  <2>1. E!CommitRaises(cur.key) /\ cur.key \in Keys
    BY <1>0, <1>1, CommitFacts DEF E!CommitRaises
  <2> QED BY <2>1 DEF EngineStepOrNone, E!Next, E!Coordinator, E!Storing, E!RaiseSome
<1>3. error' = "raised" /\ ~fresh'
  BY <1>0, CommitFacts DEF E!CommitRaised, E!Leave
<1>4. Protocol'
  BY <1>0, <1>3 DEF Protocol, PhasesMatch, InStep, CommitAhead, InFlightMisses, Running, Committing
<1> QED BY <1>2, <1>4

(* cleanup() takes results away one by one. *)
LEMMA CleanUpStep ==
    ASSUME JobInv, CleanUp
    PROVE  EngineStepOrNone /\ Protocol'
<1>0. /\ at = "cleaning" /\ pc \in {"ready", "cleaning"} /\ pc' \in {"ready", "cleaning"}
      /\ UNCHANGED <<coordinator, fresh>> /\ ~NoRun /\ ~fresh
      /\ FilesOK /\ Keys \subseteq Names
  BY DEF CleanUp, CleanupBegin, Clean, CleanOne, CleanupEnd, NoRun, JobInv, StoreInv, PhasesMatch,
         TypeOK, Names
<1>1. EngineStepOrNone
  <2>1. CASE UNCHANGED disk
    BY <1>0, <2>1, SameFiles, Unmoved DEF Committing
  <2>2. ASSUME NEW n \in Names, Put(n, Absent)
        PROVE  EngineStepOrNone
    <3>1. \A m \in Names : disk'[m] = IF m = n THEN Absent ELSE disk[m]
      BY <1>0, <2>2 DEF Put, FilesOK
    <3>2. Manifest \in Names
      BY DEF Names
    <3>3. \A k \in Keys : Seen(k)' = None \/ Seen(k)' = Seen(k)
      BY <1>0, <3>1, <3>2 DEF Seen, Agrees, ReadFile
    <3>4. \A k \in Keys : Held'[k] = None \/ Held'[k] = Held[k]
      BY <1>0, <3>3, HeldIsSeen DEF BeingCommitted, Committing
    <3>5. Held' = [k \in Keys |-> IF k \in {j \in Keys : Held'[j] = None} THEN None ELSE Held[k]]
      <4>1. \A k \in Keys : Held'[k] = IF k \in {j \in Keys : Held'[j] = None} THEN None ELSE Held[k]
        BY <3>4
      <4> QED BY <4>1, HeldIsSeen
    <3>6. E!Clean
      <4>1. {j \in Keys : Held'[j] = None} \in SUBSET Keys
        OBVIOUS
      <4> QED BY <1>0, <3>5, <4>1
              DEF E!Clean, coordinator, E!identity, E!queues, E!outside
    <3> QED BY <3>6 DEF EngineStepOrNone, E!Next, E!Coordinator, E!Storing
  <2> QED BY <2>1, <2>2 DEF CleanUp, CleanupBegin, Clean, CleanOne, CleanupEnd, Unlink, FilesUnchanged
<1>2. Protocol'
  BY <1>0 DEF Protocol, PhasesMatch, InStep, CommitAhead, InFlightMisses, Running, NoRun, Committing,
              coordinator, E!Looping
<1> QED BY <1>1, <1>2

(* The process dies, half-way through commit() perhaps. *)
LEMMA DieStep ==
    ASSUME JobInv, ProcessDies
    PROVE  EngineStepOrNone /\ Protocol'
<1>0. /\ pc' = "closed" /\ fresh' = FALSE /\ UNCHANGED disk /\ pc' \notin Committing
      /\ IF NoRun THEN UNCHANGED coordinator ELSE E!Killed
  BY DEF ProcessDies, ProcessEnds, Closed, FilesUnchanged, Committing
<1>1. EngineStepOrNone
  <2>1. CASE NoRun
    <3>1. pc \notin Committing
      BY <2>1, CommitFacts
    <3> QED BY <1>0, <2>1, <3>1, SameFiles, Unmoved
  <2>2. CASE ~NoRun
    <3>1. Held' \in {Held} \cup E!HalfCommitted
      <4>1. CASE pc \in Committing
        <5>1. E!With(cur.key) \in E!HalfCommitted
          BY <4>1, CommitFacts DEF E!HalfCommitted, E!Succeeded
        <5> QED BY <1>0, <4>1, <5>1, CommitEnds
      <4>2. CASE pc \notin Committing
        BY <1>0, <4>2, SameFiles
      <4> QED BY <4>1, <4>2
    <3>2. E!Crash
      BY <1>0, <2>2, <3>1 DEF E!Crash, E!Over, NoRun
    <3> QED BY <3>2 DEF EngineStepOrNone, E!Next
  <2> QED BY <2>1, <2>2
<1>2. NoRun'
  BY <1>0 DEF NoRun, coordinator, E!Killed
<1>3. Protocol'
  BY <1>0, <1>2 DEF Protocol, PhasesMatch, InStep, CommitAhead, InFlightMisses, NoRun, Committing,
                    E!Looping
<1> QED BY <1>1, <1>3

(* Power fails: what is left was committed once, if it is vouched for. *)
LEMMA PowerStep ==
    ASSUME JobInv, PowerFails
    PROVE  EngineStepOrNone /\ Protocol'
<1>0. /\ NoRun /\ runs < MaxRuns /\ PowerLossOn /\ E!Killed /\ pc' = "closed" /\ fresh' = FALSE
      /\ \A n \in Names : disk'[n] \in maybe[n] \cup {Garbled}
      /\ FromCommits /\ TypeOK /\ Keys \subseteq Names
  BY DEF PowerFails, Closed, Torn, JobInv, StoreInv, Names
<1>1. ASSUME NEW k \in Keys, Held'[k] # None
      PROVE  Held'[k] \in Payloads /\ KeyOf[Held'[k]] = k
  <2>1. disk'[k] \notin {Absent, Garbled} /\ Held'[k] = ReadFile(disk'[k])
    BY <1>1, HeldIsSeen DEF Seen, ReadFile
  <2>2. PICK c \in issued : c.key = k /\ disk'[k] = PayloadOf(c)
    BY <1>0, <2>1 DEF FromCommits
  <2>3. c.res \in Payloads /\ KeyOf[c.res] = k
    BY <1>0, <2>2, JobFacts DEF TypeOK, FromCommits, Commits
  <2>4. ReadFile(disk'[k]) = c.res
    BY <2>2, <2>3, JobFacts DEF ReadFile, PayloadOf
  <2> QED BY <2>1, <2>3, <2>4
<1>2. Held' \in E!StoreContents
  <2>1. Held' \in [Keys -> Payloads \cup {None}]
    <3>1. \A k \in Keys : Held'[k] \in Payloads \cup {None}
      BY <1>1
    <3> HIDE DEF Held
    <3> QED BY <3>1, HeldIsSeen
  <2> QED BY <1>1, <2>1 DEF E!StoreContents
<1>3. E!PowerLoss
  BY <1>0, <1>2 DEF E!PowerLoss, E!Over, NoRun
<1>4. Protocol'
  BY <1>0 DEF E!Killed, Protocol, PhasesMatch, InStep, CommitAhead, InFlightMisses, NoRun, Committing,
              E!Looping
<1> QED BY <1>3, <1>4 DEF EngineStepOrNone, E!Next

-----------------------------------------------------------------------------
(* The files implement the map. *)

LEMMA JobStep ==
    ASSUME JobInv, [JobNext]_jobVars
    PROVE  EngineStepOrNone /\ JobInv'
<1>1. EngineStepOrNone /\ Protocol'
  BY QuietStep, ThinkStep, MeanwhileStep, BeginStep, ConstructStep, EnterStep, InsideStep, LeaveStep,
     BreakOffStep, CleanUpStep, DieStep, PowerStep DEF JobNext
<1>2. EP!IInv'
  BY <1>1, EngineStep DEF JobInv, EngineStepOrNone
<1>3. TypeOK' /\ FromCommits'
  BY StoreTypes, FromCommitsStep
<1> QED BY <1>1, <1>2, <1>3 DEF JobInv, StoreInv, Protocol

LEMMA JobStarts == JobInit => E!Init /\ JobInv
<1> SUFFICES ASSUME JobInit
             PROVE  JobInv
  BY DEF JobInit
<1>1. TypeOK
  BY InitTypes DEF JobInit
<1>2. EP!IInv
  BY EngineInit DEF JobInit
<1>3. at = "idle" /\ pc = "closed" /\ ~fresh /\ issued = {} /\ maybe = [n \in Names |-> {Absent}]
  BY DEF JobInit, Init, E!Init
<1>4. FromCommits
  BY <1>3 DEF FromCommits, Names
<1>5. PhasesMatch /\ InStep /\ CommitAhead /\ InFlightMisses
  BY <1>3 DEF PhasesMatch, InStep, CommitAhead, InFlightMisses, NoRun, Committing, E!Looping
<1> QED BY <1>1, <1>2, <1>4, <1>5 DEF JobInv, StoreInv

(* The invariant holds throughout, and Engine's with the map the files amount to.     *)
THEOREM JobInvariant == JobSpec => []JobInv
BY JobStarts, JobStep, PTL DEF JobSpec

(* The coordinator on the cache directory, through any number of processes that     *)
(* die inside any call of the store and of power failures, does what it does on a   *)
(* map that a commit changes atomically (run_checkpointed on                        *)
(* AtomicManifestStore).                                                          *)
THEOREM FilesImplementEngine == JobSpec => ImplementsEngine
<1>1. JobInv /\ [JobNext]_jobVars => [E!Next]_(E!vars)
  BY JobStep DEF EngineStepOrNone
<1> QED BY <1>1, JobStarts, JobInvariant, PTL DEF JobSpec, ImplementsEngine, E!Spec

(* In the states of the invariant the store answers as the map would: before the    *)
(* fold Engine's invariant says that every result is there.                       *)
LEMMA AnswersAsMap ==
    ASSUME JobInv
    PROVE  StoreAnswers
<1> SUFFICES ASSUME pc = "ready"
             PROVE  StoreAnswers!2
  BY DEF StoreAnswers
<1>0. /\ TypeOK /\ FromCommits /\ InStep /\ InFlightMisses
      /\ \A k \in Keys : Seen(k) = Held[k]
  BY HeldIsSeen DEF JobInv, StoreInv, BeingCommitted, Committing
<1>1. ASSUME at = "dispatch", ready # <<>>
      PROVE  LET ad == ready[1] IN Has(E!Key(ad), E!Hash(ad)) \in {E!Has(ad), "collision"}
  <2> DEFINE ad == ready[1]
             k == E!Key(ad)
  <2>1. k \in Keys
    BY <1>1, EngineFacts, JobFacts DEF JobInv, E!Key
  <2>2. OnDisk(mem)
    BY <1>0, <1>1, EngineFacts DEF JobInv, InStep, Running
  <2>3. /\ Held[k] # None => Has(k, E!Hash(ad)) = IF HashOf[Held[k]] = E!Hash(ad) THEN "hit"
                                                  ELSE "collision"
        /\ Held[k] = None => Has(k, E!Hash(ad)) # "hit"
    BY <1>0, <2>1, <2>2, HasFindsSeen
  <2>4. Has(k, E!Hash(ad)) \in {"hit", "miss", "collision"}
    BY DEF Has, Check
  <2> QED BY <2>3, <2>4 DEF E!Has
<1>2. ASSUME at = "fold", NEW k \in E!Unfolded
      PROVE  Has(k, terminal[k]) = "hit" /\ Load(k) = Held[k]
  <2>1. k \in Keys /\ terminal[k] # None /\ error = "none"
    BY <1>2, EngineFacts DEF JobInv, E!Unfolded, E!TerminalKeys
  <2>2. Held[k] # None /\ HashOf[Held[k]] = terminal[k]
    <3>1. k \in EP!Outstanding \/ EP!Settled(k)
      BY <1>2, <2>1 DEF JobInv, EP!IInv, EP!Sound, EP!Covered, EP!TerminalKeys
    <3>2. ready = <<>> /\ delayed = <<>> /\ EP!InFlight = {}
      BY <1>2, <2>1 DEF JobInv, EP!IInv, EP!Sound, EP!Drained
    <3>3. EP!Outstanding = {}
      BY <3>2 DEF EP!Outstanding, EP!ReadyKeys, EP!DelayedKeys
    <3> QED BY <3>1, <3>3 DEF EP!Settled
  <2>3. OnDisk(mem)
    BY <1>0, <1>2, <2>1 DEF InStep, Running
  <2> QED BY <1>0, <2>1, <2>2, <2>3, HasFindsSeen
<1>3. ASSUME NEW k \in Keys, Committable(k)
      PROVE  Has(k, HashOf[inflight[k].ad.p]) = "miss"
  <2>1. inflight[k] # None
    BY <1>3, EngineFacts DEF JobInv, Committable
  <2> QED BY <1>0, <1>3, <2>1
          DEF InFlightMisses, Committable, E!Looping, BeingCommitted, Committing
<1> QED BY <1>1, <1>2, <1>3

(* has() and load() answer the coordinator as the map would, and a result is          *)
(* committed only where has() misses (engine.py's dispatch, commit and fold).        *)
THEOREM StoreAnswersHolds == JobSpec => []StoreAnswers
BY AnswersAsMap, JobInvariant, PTL

(* So a job on the cache directory keeps, across all its processes, what Engine      *)
(* promises of a job on the map: no work is lost or held twice, an output covers      *)
(* every unit of the items exactly as often as they do, the counters add up, the      *)
(* retry budget is kept, and what is committed is neither computed again nor lost      *)
(* but by cleanup or a power failure.                                               *)
THEOREM JobKeepsPromises ==
    JobSpec => /\ [](E!NothingLost /\ E!ExactCoverage /\ E!Accounting /\ E!RetryBudget)
               /\ E!CommittedForGood
<1>1. JobSpec => EP!Spec
  BY FilesImplementEngine, SameSteps, PTL DEF ImplementsEngine, E!Spec, EP!Spec
<1>2. EP!Spec => /\ []EP!NothingLost /\ []EP!ExactCoverage /\ []EP!Accounting
                 /\ []EP!RetryBudget /\ EP!CommittedForGood
  BY SameAssumptions, EP!NothingLostHolds, EP!CoverageHolds, EP!AccountingHolds, EP!RetryBudgetHolds,
     EP!CommittedForGoodHolds
  DEF EP!IsFiniteSet, EP!ExceptionKinds, EP!DistinctKeys, EP!Futures, EP!Admitted
<1>3. /\ E!NothingLost <=> EP!NothingLost
      /\ E!ExactCoverage <=> EP!ExactCoverage
      /\ E!Accounting <=> EP!Accounting
      /\ E!RetryBudget <=> EP!RetryBudget
  BY DEF E!NothingLost, E!ExactCoverage, E!Accounting, E!RetryBudget,
      E!Outstanding, E!ReadyKeys, E!DelayedKeys, E!InFlight,
      E!TerminalKeys, E!Settled, E!Key, E!Cardinality, EP!NothingLost,
      EP!ExactCoverage, EP!Accounting, EP!RetryBudget, EP!Outstanding,
      EP!ReadyKeys, EP!DelayedKeys, EP!InFlight, EP!TerminalKeys,
      EP!Settled, EP!Key, EP!Cardinality
<1>4. E!CommittedForGood <=> EP!CommittedForGood
  BY DEF E!CommittedForGood, E!PowerLoss, E!Over, E!Killed, E!ResetLocals,
      E!Nothing, E!NoStats, E!StoreContents, E!vars, EP!CommittedForGood,
      EP!PowerLoss, EP!Over, EP!Killed, EP!ResetLocals, EP!Nothing,
      EP!NoStats, EP!StoreContents, EP!vars
<1> QED BY <1>1, <1>2, <1>3, <1>4, PTL
=============================================================================
