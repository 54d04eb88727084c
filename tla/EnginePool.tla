------------------------------- MODULE EnginePool -------------------------------
(***************************************************************************)
(* The coordinator with the threads its executions run on: the worker        *)
(* contexts of run_checkpointed (_init_worker, created, worker_teardown) and  *)
(* what it relies on in concurrent.futures.ThreadPoolExecutor.               *)
(*                                                                         *)
(* Threads are counted, not named.  A thread runs worker_setup, then takes    *)
(* queued futures one after the other until the pool is shut down, so every   *)
(* initialised thread stands for one context.                                *)
(***************************************************************************)
EXTENDS Engine

VARIABLES
    starting,  \* threads inside worker_setup
    created,   \* contexts in the list "created": threads whose setup returned
    broken,    \* a worker_setup has raised
    joined,    \* pool.shutdown(wait=True) has returned
    torn       \* contexts that worker_teardown was called with

pool == <<starting, created, broken, joined, torn>>
poolVars == <<vars, pool>>

Queued == {k \in InFlight : inflight[k].st = "queued"}
Executing == {k \in InFlight : inflight[k].st = "running"}
IdleThreads == created - Cardinality(Executing)

NoPool ==
    starting = 0 /\ created = 0 /\ broken = FALSE /\ joined = FALSE /\ torn = 0
DropPool ==
    starting' = 0 /\ created' = 0 /\ broken' = FALSE /\ joined' = FALSE /\ torn' = 0

PoolInit == Init /\ NoPool

(* A run begins without a pool, and one that is killed takes its threads along. *)
PoolBegin == Begin /\ DropPool
PoolCrash == Crash /\ DropPool

(* submit starts a thread unless there are max_workers, or one is idle and not  *)
(* spoken for by an earlier future; it may start one that was not needed.       *)
PoolSubmit ==
    /\ ~broken /\ Submit
    /\ \/ starting + created < MaxWorkers /\ starting' = starting + 1
       \/ /\ starting + created = MaxWorkers \/ IdleThreads > Cardinality(Queued)
          /\ UNCHANGED starting
    /\ UNCHANGED <<created, broken, joined, torn>>

PoolSubmitRaises == broken /\ SubmitRaises /\ UNCHANGED pool

SetupReturns ==
    /\ starting > 0 /\ starting' = starting - 1
    /\ created' = created + 1
    /\ UNCHANGED <<vars, broken, joined, torn>>

(* A mutant: the queued futures are left to threads that do not exist. *)
SetupRaisesQuietly ==
    /\ Faults /\ starting > 0 /\ starting' = starting - 1 /\ broken' = TRUE
    /\ UNCHANGED <<vars, created, joined, torn>>

(* The thread ends without a context, and no further one is started. *)
SetupRaises ==
    /\ starting > 0 /\ starting' = starting - 1
    /\ broken' = TRUE /\ QueueFails
    /\ UNCHANGED <<created, joined, torn>>

ThreadTakes(k) == IdleThreads > 0 /\ WorkerStarts(k) /\ UNCHANGED pool
ThreadEnds(k) == WorkerEnds(k) /\ UNCHANGED pool

(* A mutant: the pool is shut down without waiting for its threads. *)
NotJoined ==
    /\ pc = "closing" /\ ~joined /\ joined' = TRUE
    /\ UNCHANGED <<vars, starting, created, broken, torn>>

(* pool.shutdown(wait=True) returns: every future is run, every thread ended. *)
Joined ==
    /\ pc = "closing" /\ ~joined /\ joined' = TRUE
    /\ starting = 0 /\ InFlight = Finished
    /\ UNCHANGED <<vars, starting, created, broken, torn>>

(* worker_teardown is called with the next context; what it raises is ignored. *)
TearDown ==
    /\ joined /\ torn < created /\ torn' = torn + 1
    /\ UNCHANGED <<vars, starting, created, broken, joined>>

PoolClosed == joined /\ torn = created /\ ShutdownDone /\ UNCHANGED pool

PoolRest == (Rest \/ Tick) /\ UNCHANGED pool
PoolThinking == (Thinking \/ Storing) /\ UNCHANGED pool

(* What the coordinator thread does, and what one worker thread does. *)
PoolCoordinator ==
    PoolThinking \/ PoolSubmit \/ PoolSubmitRaises \/ Joined \/ TearDown \/ PoolClosed
Setup == SetupReturns \/ SetupRaises

PoolNext ==
    \/ PoolBegin \/ PoolCoordinator \/ Setup
    \/ \E k \in Keys : ThreadTakes(k) \/ ThreadEnds(k)
    \/ PoolCrash \/ PoolRest

(* The coordinator goes on, the clock advances, worker_setup comes to an end, an *)
(* idle thread takes something that is queued, and of the executions that do not  *)
(* hang some one ends.  (Every key has a budget, so none waits for ever.)         *)
PoolSpec ==
    /\ PoolInit /\ [][PoolNext]_poolVars
    /\ WF_poolVars(PoolCoordinator) /\ WF_poolVars(Tick /\ UNCHANGED pool)
    /\ WF_poolVars(Setup)
    /\ WF_poolVars(\E k \in Keys : ThreadTakes(k))
    /\ WF_poolVars(\E k \in Keys : ThreadEnds(k) /\ inflight[k].ad.p \notin Hung)

-----------------------------------------------------------------------------
(* A worker context is private to one execution, lives as long as one may use   *)
(* it, and is torn down exactly once, also when the run fails or another         *)
(* worker_setup raised (run_checkpointed: created, pool.shutdown before the       *)
(* teardown loop).                                                               *)
ContextsOutliveWork ==
    /\ Cardinality(Executing) <= created /\ created <= MaxWorkers
    /\ torn > 0 => starting = 0 /\ Executing = {} /\ Queued = {}
    /\ pc \in {"fold", "cleaning", "returned", "failed"} => torn = created
=============================================================================
