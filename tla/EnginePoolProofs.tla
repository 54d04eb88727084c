---------------------------- MODULE EnginePoolProofs ----------------------------
(***************************************************************************)
(* Proofs about EnginePool: the coordinator with its threads is still the     *)
(* coordinator, and no worker context is torn down while work may use it, for *)
(* any number of workers and any faults.                                      *)
(***************************************************************************)
EXTENDS EnginePool, EngineProofs

Late == {"fold", "cleaning", "returned", "failed"}

(* Threads are counted right, and never more than max_workers. *)
PoolCounts ==
    /\ starting \in Nat /\ created \in Nat /\ torn \in Nat
    /\ starting + created <= MaxWorkers
    /\ Cardinality(Executing) <= created /\ torn <= created

Threadless == starting = 0 /\ created = 0 /\ torn = 0 /\ ~joined

(* What is there of the pool and its work in each phase. *)
PoolPhases ==
    /\ pc \in {"idle", "admit"} => Threadless /\ InFlight = {}
    /\ pc \in Looping => ~joined
    /\ pc \in Late => starting = 0 /\ torn = created /\ InFlight = {}
    /\ joined => starting = 0 /\ InFlight = Finished
    /\ torn > 0 => joined

PoolInv == TypeInv /\ PoolCounts /\ PoolPhases

(* Every step with threads is a step of the coordinator. *)
LEMMA PoolStepIsStep ==
    ASSUME [PoolNext]_poolVars
    PROVE  [Next]_vars
BY DEF PoolNext, PoolBegin, PoolCoordinator, PoolThinking, PoolSubmit, PoolSubmitRaises,
       Joined, TearDown, PoolClosed, Setup, SetupReturns, SetupRaises, ThreadTakes,
       ThreadEnds, PoolCrash, PoolRest, Next, Coordinator, Worker, poolVars

(* What holds of the coordinator holds of it with its threads: EnginePool adds  *)
(* the worker contexts to run_checkpointed, and changes nothing of it.         *)
THEOREM PoolImplementsEngine == PoolSpec => Spec
<1>1. PoolInit => Init
  BY DEF PoolInit
<1>2. [PoolNext]_poolVars => [Next]_vars
  BY PoolStepIsStep
<1> QED BY <1>1, <1>2, PTL DEF PoolSpec, Spec

LEMMA ExecutingFinite ==
    /\ IsFiniteSet(Executing) /\ Cardinality(Executing) \in Nat
    /\ \A S \in SUBSET Executing : IsFiniteSet(S) /\ Cardinality(S) <= Cardinality(Executing)
                                   /\ Cardinality(S) \in Nat
<1>1. Executing \in SUBSET InFlight
  BY DEF Executing
<1>2. IsFiniteSet(Executing)
  BY <1>1, KeySetsFinite, FS_Subset
<1> QED BY <1>2, FS_Subset, FS_CardinalityType

(* Fewer executions are no problem. *)
LEMMA FewerExecute ==
    ASSUME Cardinality(Executing) <= created, created \in Nat, created' = created,
           Executing' \subseteq Executing
    PROVE  Cardinality(Executing') <= created'
<1>1. Cardinality(Executing') <= Cardinality(Executing) /\ Cardinality(Executing') \in Nat
      /\ Cardinality(Executing) \in Nat
  BY ExecutingFinite
<1> QED BY <1>1

(* What the coordinator does by itself, in each phase. *)
LEMMA ThinkingPhases ==
    ASSUME TypeInv, Thinking \/ Storing
    PROVE  \/ /\ pc = "admit" /\ pc' \in {"admit", "failed", "dispatch", "closing"}
              /\ inflight' = inflight
           \/ pc \in Looping /\ pc' \in Looping \cup {"closing"} /\ Executing' \subseteq Executing
           \/ pc \in Late /\ pc' \in Late /\ inflight' = inflight
<1> USE DEF Looping, Late
<1>1. CASE AdmitRoot \/ AdmitRootRaises \/ AdmissionDone
  BY <1>1 DEF AdmitRoot, AdmitRootRaises, AdmissionDone, Again
<1>2. CASE FoldSome \/ FoldRaises \/ Deliver \/ Clean \/ CleanupDone
  BY <1>2 DEF FoldSome, Fold, FoldRaises, Deliver, Clean, CleanupDone
<1>3. CASE Resume \/ HasRaises \/ DispatchDone \/ WaitReturns \/ SleepReturns \/ HandleDone
  BY <1>3 DEF Resume, HasRaises, DispatchDone, WaitReturns, SleepReturns, HandleDone,
              LeaveDispatch, Leave, Again, Executing, InFlight
<1>4. CASE FatalExit
  <2>1. \A k \in Keys : inflight'[k] = None \/ inflight'[k] = inflight[k]
    BY <1>4 DEF FatalExit
  <2> QED BY <1>4, <2>1 DEF FatalExit, Executing, InFlight
<1>5. CASE SplitSome \/ RetrySome \/ FailSome \/ RouteSome \/ CommitSome \/ RaiseSome
  <2>1. PICK k \in Keys : Pop(k) /\ pc' \in {"handle", "closing"}
    BY <1>5 DEF SplitSome, Split, SplitCollides, RetrySome, Retry, FailSome, Fail,
                RouteSome, RouteRaises, CommitSome, Commit, CommitReturned, RaiseSome,
                CommitRaises, CommitRaised, Pop, Leave
  <2>2. \A j \in Keys : inflight'[j] = None \/ inflight'[j] = inflight[j]
    BY <2>1, PopsDone
  <2> QED BY <2>1, <2>2 DEF Pop, Executing, InFlight
<1> QED BY <1>1, <1>2, <1>3, <1>4, <1>5 DEF Thinking, Storing

(* Without threads the counts are right. *)
LEMMA EmptyPoolCounts ==
    /\ Threadless /\ Executing = {} => PoolCounts
    /\ Threadless' /\ Executing' = {} => PoolCounts'
<1>1. Cardinality({}) = 0
  BY FS_EmptySet
<1>2. MaxWorkers \in Nat
  BY BoundsAssumption
<1> QED BY <1>1, <1>2 DEF Threadless, PoolCounts

LEMMA PoolInvInit == PoolInit => PoolInv
<1> SUFFICES ASSUME PoolInit
             PROVE  PoolInv
  OBVIOUS
<1>1. Threadless /\ pc = "idle" /\ InFlight = {} /\ Executing = {} /\ TypeInv
  BY InitType DEF PoolInit, Init, Fresh, Nothing, InFlight, Executing,
                   NoPool, Threadless
<1>2. PoolCounts
  BY <1>1, EmptyPoolCounts
<1> QED BY <1>1, <1>2 DEF PoolPhases, Threadless, PoolInv, Looping, Late

(* A run begins or is killed without threads. *)
LEMMA PoolAnew ==
    ASSUME PoolInv, PoolBegin \/ PoolCrash
    PROVE  PoolCounts' /\ PoolPhases'
<1>1. /\ Threadless' /\ pc' \in {"idle", "admit"} /\ InFlight' = {} /\ Executing' = {}
  BY DEF PoolBegin, PoolCrash, Begin, Start, Crash, Killed, ResetLocals, Nothing, DropPool,
         Threadless, InFlight, Executing
<1>2. PoolCounts'
  BY <1>1, EmptyPoolCounts
<1> QED BY <1>1, <1>2 DEF PoolPhases, Threadless, Looping, Late

LEMMA PoolThinks ==
    ASSUME PoolInv, PoolThinking
    PROVE  PoolCounts' /\ PoolPhases'
<1>1. UNCHANGED pool /\ (Thinking \/ Storing)
  BY DEF PoolThinking
<1>2. PoolCounts /\ PoolPhases /\ TypeInv
  BY DEF PoolInv
<1>3. CASE inflight' = inflight
  <2>1. InFlight' = InFlight /\ Executing' = Executing /\ Finished' = Finished
    BY <1>3 DEF InFlight, Executing, Finished
  <2>2. PoolCounts'
    BY <1>1, <1>2, <2>1 DEF PoolCounts, pool
  <2> QED BY <1>1, <1>2, <2>1, <2>2, ThinkingPhases
          DEF PoolPhases, pool, Threadless, Looping, Late
<1>4. CASE pc \in Looping /\ pc' \in Looping \cup {"closing"} /\ Executing' \subseteq Executing
  <2>1. Cardinality(Executing') <= created'
    BY <1>1, <1>2, <1>4, FewerExecute DEF PoolCounts, pool
  <2>2. PoolCounts'
    BY <1>1, <1>2, <2>1 DEF PoolCounts, pool
  <2>3. pc' \notin Late \cup {"idle", "admit"} /\ ~joined
    BY <1>2, <1>4 DEF PoolPhases, Looping, Late
  <2>4. UNCHANGED <<torn, joined>> /\ ~ (torn > 0)
    BY <1>1, <1>2, <2>3 DEF pool, PoolPhases
  <2> QED BY <2>2, <2>3, <2>4 DEF PoolPhases
<1> QED BY <1>1, <1>2, <1>3, <1>4, ThinkingPhases

(* What is submitted is queued, and starts at most one thread. *)
LEMMA PoolSubmits ==
    ASSUME PoolInv, PoolSubmit \/ PoolSubmitRaises
    PROVE  PoolCounts' /\ PoolPhases'
<1>1. PoolCounts /\ PoolPhases /\ TypeOK /\ pc = "dispatch"
      /\ UNCHANGED <<created, broken, joined, torn>>
  BY DEF PoolInv, TypeInv, PoolSubmit, PoolSubmitRaises, Submit, SubmitRaises, pool
<1>2. starting' \in Nat /\ starting' + created' <= MaxWorkers
  BY <1>1, BoundsAssumption DEF PoolCounts, PoolSubmit, PoolSubmitRaises, pool
<1>3. Executing' \subseteq Executing /\ pc' \in {"dispatch", "closing"}
  <2>1. CASE PoolSubmit
    <3>1. /\ pc' = pc
          /\ inflight' = [inflight EXCEPT ![Key(Head(ready))] =
                             [ad |-> Head(ready), st |-> "queued"]]
      BY <2>1 DEF PoolSubmit, Submit
    <3>2. \A j \in Keys : \/ inflight'[j] = inflight[j]
                          \/ inflight'[j] = [ad |-> Head(ready), st |-> "queued"]
      BY <1>1, <3>1 DEF TypeOK
    <3>3. \A j \in Keys : inflight'[j].st = "running" => inflight'[j] = inflight[j]
      BY <3>2
    <3> QED BY <1>1, <3>1, <3>3 DEF Executing, InFlight
  <2>2. CASE PoolSubmitRaises
    BY <2>2 DEF PoolSubmitRaises, SubmitRaises, LeaveDispatch, Leave, Executing, InFlight
  <2> QED BY <2>1, <2>2
<1>4. Cardinality(Executing') <= created'
  BY <1>1, <1>3, FewerExecute DEF PoolCounts
<1>5. PoolCounts'
  BY <1>1, <1>2, <1>4 DEF PoolCounts
<1> QED BY <1>1, <1>3, <1>5 DEF PoolPhases, PoolCounts, Looping, Late

(* A thread is set up, or breaks the pool. *)
LEMMA PoolSetsUp ==
    ASSUME PoolInv, Setup
    PROVE  PoolCounts' /\ PoolPhases'
<1>1. PoolCounts /\ PoolPhases /\ TypeOK /\ starting > 0 /\ starting' = starting - 1
      /\ pc' = pc /\ UNCHANGED <<joined, torn>>
  BY DEF PoolInv, TypeInv, Setup, SetupReturns, SetupRaises, vars, QueueFails
<1>2. pc \notin Late \cup {"idle", "admit"} /\ ~joined
  BY <1>1 DEF PoolPhases, PoolCounts, Threadless
<1>3. Executing' = Executing
  <2>1. CASE SetupReturns
    BY <2>1 DEF SetupReturns, vars, Executing, InFlight
  <2>2. CASE SetupRaises
    <3>1. \A j \in Keys : inflight'[j] =
            IF inflight[j] # None /\ inflight[j].st = "queued"
            THEN [inflight[j] EXCEPT !.st = "raised"] ELSE inflight[j]
      BY <2>2 DEF SetupRaises, QueueFails
    <3>2. \A j \in InFlight : inflight[j] \in Futures
      BY <1>1, FutureTypes
    <3>3. \A f \in Futures : [f EXCEPT !.st = "raised"].st = "raised"
      BY DEF Futures
    <3> QED BY <3>1, <3>2, <3>3 DEF Executing, InFlight
  <2> QED BY <2>1, <2>2 DEF Setup
<1>4. created' \in {created, created + 1}
  BY <1>1 DEF Setup, SetupReturns, SetupRaises, PoolCounts
<1>5. /\ Cardinality(Executing) \in Nat /\ starting \in Nat /\ created \in Nat
      /\ torn \in Nat /\ MaxWorkers \in Nat
  BY <1>1, ExecutingFinite, BoundsAssumption DEF PoolCounts
<1>6. /\ starting' \in Nat /\ created' \in Nat /\ starting' + created' <= MaxWorkers
      /\ Cardinality(Executing) <= created' /\ torn <= created'
  <2>1. starting + created <= MaxWorkers /\ Cardinality(Executing) <= created
        /\ torn <= created /\ starting > 0 /\ starting' = starting - 1
    BY <1>1 DEF PoolCounts
  <2>2. CASE created' = created
    BY <1>5, <2>1, <2>2
  <2>3. CASE created' = created + 1
    BY <1>5, <2>1, <2>3
  <2> QED BY <1>4, <2>2, <2>3
<1>7. PoolCounts'
  BY <1>1, <1>3, <1>4, <1>6 DEF PoolCounts
<1> QED BY <1>1, <1>2, <1>7 DEF PoolPhases

(* A thread takes what is queued, or ends what it runs. *)
LEMMA PoolRuns ==
    ASSUME PoolInv, NEW k \in Keys, ThreadTakes(k) \/ ThreadEnds(k)
    PROVE  PoolCounts' /\ PoolPhases'
<1>1. PoolCounts /\ PoolPhases /\ TypeOK /\ pc' = pc /\ UNCHANGED pool
  BY DEF PoolInv, TypeInv, ThreadTakes, ThreadEnds, WorkerStarts, WorkerEnds
<1>2. /\ k \in InFlight /\ k \notin Finished
      /\ \E st \in {"running", "ok", "raised"} :
           /\ inflight' = [inflight EXCEPT ![k].st = st]
           /\ st = "running" => IdleThreads > 0
  BY DEF ThreadTakes, ThreadEnds, WorkerStarts, WorkerEnds, InFlight, Finished
<1>3. ~joined /\ pc \notin Late \cup {"idle", "admit"}
  BY <1>1, <1>2 DEF PoolPhases, PoolCounts
<1>4. Cardinality(Executing') <= created
  <2>1. PICK st \in {"running", "ok", "raised"} :
          inflight' = [inflight EXCEPT ![k].st = st] /\ (st = "running" => IdleThreads > 0)
    BY <1>2
  <2>2. \A j \in Keys : j # k => inflight'[j] = inflight[j]
    BY <2>1
  <2>3. Executing' \subseteq Executing \cup {k}
    BY <2>2 DEF Executing, InFlight
  <2>4. CASE st = "running"
    <3>1. Cardinality(Executing) \in Nat /\ created \in Nat
      BY <1>1, ExecutingFinite DEF PoolCounts
    <3>2. Cardinality(Executing) + 1 <= created
      BY <2>1, <2>4, <3>1 DEF IdleThreads
    <3>3. IsFiniteSet(Executing \cup {k})
          /\ Cardinality(Executing \cup {k}) \in {Cardinality(Executing), Cardinality(Executing) + 1}
      BY ExecutingFinite, FS_AddElement
    <3>4. Cardinality(Executing') <= Cardinality(Executing \cup {k})
          /\ IsFiniteSet(Executing')
      BY <2>3, <3>3, FS_Subset
    <3>5. Cardinality(Executing') \in Nat
      BY <3>4, FS_CardinalityType
    <3> QED BY <3>1, <3>2, <3>3, <3>4, <3>5
  <2>5. CASE st # "running"
    <3>1. inflight[k] \in Futures
      BY <1>1, <1>2, FutureTypes
    <3>2. inflight'[k].st = st
      BY <1>1, <1>2, <2>1, <3>1 DEF TypeOK, Futures, InFlight
    <3>3. Executing' \subseteq Executing
      BY <2>2, <2>5, <3>2 DEF Executing, InFlight
    <3> QED BY <1>1, <3>3, FewerExecute DEF PoolCounts, pool
  <2> QED BY <2>4, <2>5
<1>5. PoolCounts'
  BY <1>1, <1>4 DEF PoolCounts, pool
<1> QED BY <1>1, <1>3, <1>5 DEF PoolPhases, pool

(* The pool is joined, its contexts are torn down, the run goes on. *)
LEMMA PoolCloses ==
    ASSUME PoolInv, Joined \/ TearDown \/ PoolClosed
    PROVE  PoolCounts' /\ PoolPhases'
<1>1. PoolCounts /\ PoolPhases /\ TypeOK
  BY DEF PoolInv, TypeInv
<1>2. CASE Joined
  <2>1. UNCHANGED <<pc, inflight, starting, created, broken, torn>> /\ joined'
        /\ pc = "closing" /\ starting = 0 /\ InFlight = Finished
    BY <1>2 DEF Joined, vars
  <2> QED BY <1>1, <2>1 DEF PoolCounts, PoolPhases, Executing, InFlight, Finished, Looping,
                            Late
<1>3. CASE TearDown
  <2>1. UNCHANGED <<pc, inflight, starting, created, broken, joined>> /\ torn' = torn + 1
        /\ joined /\ torn < created
    BY <1>3 DEF TearDown, vars
  <2>2. torn + 1 \in Nat /\ torn + 1 <= created
    BY <1>1, <2>1 DEF PoolCounts
  <2>3. pc \notin Late \cup {"idle", "admit"}
    BY <1>1, <2>1 DEF PoolCounts, PoolPhases, Threadless
  <2>4. InFlight' = InFlight /\ Executing' = Executing /\ Finished' = Finished
    BY <2>1 DEF Executing, InFlight, Finished
  <2> QED BY <1>1, <2>1, <2>2, <2>3, <2>4 DEF PoolCounts, PoolPhases
<1>4. CASE PoolClosed
  <2>1. UNCHANGED pool /\ joined /\ torn = created /\ inflight' = Nothing
        /\ pc' \in {"fold", "failed"}
    BY <1>4 DEF PoolClosed, ShutdownDone
  <2>2. InFlight' = {} /\ Executing' = {} /\ Finished' = {}
    BY <2>1 DEF InFlight, Executing, Finished, Nothing
  <2>3. PoolCounts'
    BY <1>1, <2>1, <2>2, FS_EmptySet DEF PoolCounts, pool
  <2> QED BY <1>1, <2>1, <2>2, <2>3 DEF PoolPhases, pool, Looping, Late
<1> QED BY <1>2, <1>3, <1>4

LEMMA PoolInvStep ==
    ASSUME PoolInv, [PoolNext]_poolVars
    PROVE  PoolInv'
<1>1. TypeInv'
  BY PoolStepIsStep, TypeStep DEF PoolInv
<1>2. CASE PoolRest \/ UNCHANGED poolVars
  <2>1. UNCHANGED <<pc, inflight, pool>>
    BY <1>2 DEF PoolRest, Rest, Tick, vars, poolVars, queues, identity
  <2> QED BY <1>1, <2>1 DEF PoolInv, PoolCounts, PoolPhases, pool, Threadless, Executing,
                            InFlight, Finished
<1> QED BY <1>1, <1>2, PoolAnew, PoolThinks, PoolSubmits, PoolSetsUp, PoolRuns, PoolCloses
        DEF PoolNext, PoolCoordinator, PoolInv

THEOREM PoolInvariant == PoolSpec => []PoolInv
BY PoolInvInit, PoolInvStep, PTL DEF PoolSpec

(* A worker context lives as long as work may use it, and each is torn down     *)
(* once before the run ends: pool.shutdown before the teardown loop over        *)
(* created (run_checkpointed's finally).                                       *)
THEOREM ContextsHold == PoolSpec => []ContextsOutliveWork
<1>1. ASSUME PoolInv
      PROVE  ContextsOutliveWork
  <2>1. PoolCounts /\ PoolPhases
    BY <1>1 DEF PoolInv
  <2>2. Cardinality(Executing) <= created /\ created <= MaxWorkers
    BY <2>1, BoundsAssumption DEF PoolCounts
  <2>3. torn > 0 => starting = 0 /\ Executing = {} /\ Queued = {}
    BY <2>1 DEF PoolPhases, Executing, Queued, Finished
  <2>4. pc \in {"fold", "cleaning", "returned", "failed"} => torn = created
    BY <2>1 DEF PoolPhases, Late
  <2> QED BY <2>2, <2>3, <2>4 DEF ContextsOutliveWork
<1> QED BY <1>1, PoolInvariant, PTL
=============================================================================
