------------------------- MODULE EngineRefinementProofs -------------------------
(***************************************************************************)
(* Engine implements BatchJob, for any items, splitters, failures, crashes   *)
(* and re-runs: the proof follows the refinement mapping step by step.        *)
(***************************************************************************)
EXTENDS EngineRefinement, EngineProofs

(* The abstract state in each phase. *)
Fails == error # "none"
Idles == error = "none" /\ pc \in {"idle", "admit"}
Runs == error = "none" /\ pc \in Looping \cup {"closing", "fold"}
HasDelivered == error = "none" /\ pc \in {"cleaning", "returned"}

LEMMA Views ==
    ASSUME TypeOK, PhaseErrors
    PROVE  /\ Fails => Status = "failed" /\ Leaves = Nothing /\ Pending = {}
                       /\ Delivered = {}
           /\ Idles => Status = "idle" /\ Leaves = Nothing /\ Pending = {}
                       /\ Delivered = {}
           /\ Runs => Status = "running" /\ Leaves = terminal /\ Pending = Outstanding
                      /\ Delivered = {}
           /\ HasDelivered => Status = "delivered" /\ Leaves = terminal
                      /\ Pending = Outstanding
                      /\ Delivered = {folded[i] : i \in DOMAIN folded}
           /\ Fails \/ Idles \/ Runs \/ HasDelivered
BY DEF TypeOK, Phases, PhaseErrors, Fails, Idles, Runs, HasDelivered, Looping,
       Status, Underway, Leaves, Pending, Delivered

LEMMA ViewsNext ==
    ASSUME TypeOK', PhaseErrors'
    PROVE  /\ Fails' => Status' = "failed" /\ Leaves' = Nothing /\ Pending' = {}
                        /\ Delivered' = {}
           /\ Idles' => Status' = "idle" /\ Leaves' = Nothing /\ Pending' = {}
                        /\ Delivered' = {}
           /\ Runs' => Status' = "running" /\ Leaves' = terminal'
                       /\ Pending' = Outstanding' /\ Delivered' = {}
           /\ HasDelivered' => Status' = "delivered" /\ Leaves' = terminal'
                       /\ Pending' = Outstanding'
                       /\ Delivered' = {folded'[i] : i \in DOMAIN folded'}
           /\ Fails' \/ Idles' \/ Runs' \/ HasDelivered'
BY DEF TypeOK, Phases, PhaseErrors, Fails, Idles, Runs, HasDelivered, Looping,
       Status, Underway, Leaves, Pending, Delivered

LEMMA RefinesInit == Init => Job!Init
BY DEF Init, Fresh, Job!Init, Job!Nothing, Status, Underway, Leaves, Pending, Delivered,
       Nothing

(* A commit that is cut off leaves at most its own result. *)
LEMMA CutOff ==
    ASSUME IInv, error = "none", NEW k \in InFlight, stored' = With(k),
           Pending = Outstanding, Leaves = terminal
    PROVE  Job!BrokenOff
<1>1. k \in Keys /\ inflight[k].ad.p \in Payloads
  BY FutureTypes DEF IInv, TypeInv
<1>2. /\ KeyOf[inflight[k].ad.p] = k /\ stored[k] = None
      /\ HashOf[inflight[k].ad.p] = terminal[k]
  BY SoundWork DEF Work, AllExpected, FutureExpected, Key, Hash
<1>3. k \in Outstanding
  BY DEF Outstanding
<1> QED BY <1>1, <1>2, <1>3 DEF Job!BrokenOff, With

(* A run that begins, and a process that ends, are a reset. *)
LEMMA RefinesReset ==
    ASSUME IInv, IInv', Begin \/ Crash \/ PowerLoss
    PROVE  Job!Reset
<1>1. Anew /\ Idles'
  BY DEF Begin, Start, Crash, PowerLoss, Killed, Anew, ResetLocals, Idles
<1>2. Status' = "idle" /\ Leaves' = Job!Nothing /\ Pending' = {} /\ Delivered' = {}
  BY <1>1, ViewsNext DEF IInv, TypeInv, Job!Nothing, Nothing
<1>3. CASE Begin
  BY <1>2, <1>3 DEF Begin, Start, Job!Reset, Job!BrokenOff
<1>4. CASE PowerLoss
  BY <1>2, <1>4 DEF PowerLoss, StoreContents, Job!Reset
<1>5. CASE Crash
  <2>1. CASE stored' = stored
    BY <1>2, <2>1 DEF Job!Reset, Job!BrokenOff
  <2>2. CASE stored' # stored
    <3>1. PICK k \in batch : pc = "handle" /\ error = "none" /\ stored' = With(k)
      BY <1>5, <2>2 DEF Crash, HalfCommitted
    <3>2. k \in InFlight /\ Runs
      BY <3>1 DEF IInv, TypeInv, BatchIsDone, Finished, Runs, Looping
    <3>3. Job!BrokenOff
      BY <3>1, <3>2, CutOff, Views DEF IInv, TypeInv
    <3> QED BY <1>2, <3>3 DEF Job!Reset
  <2> QED BY <2>1, <2>2
<1> QED BY <1>3, <1>4, <1>5

(* A step that ends with an error is the failure of the job, unless it had     *)
(* failed before.                                                             *)
LEMMA RefinesFail ==
    ASSUME IInv, IInv', [Next]_vars, error' # "none", ~(Begin \/ Crash \/ PowerLoss)
    PROVE  Job!Fail \/ UNCHANGED Job!jobVars
<1>1. Status' = "failed" /\ Leaves' = Job!Nothing /\ Leaves' = Nothing /\ Pending' = {}
      /\ Delivered' = {}
  BY ViewsNext DEF IInv, TypeInv, Fails, Job!Nothing, Nothing
<1>2. CASE error # "none"
  <2>1. stored' = stored
    <3>1. pc # "cleaning" /\ ~CommitSome /\ ~RaiseSome
      BY <1>2 DEF IInv, PhaseErrors, CommitSome, Commit, CommitReturned, RaiseSome,
                  CommitRaises, CommitRaised, Pop
    <3>2. CASE Storing
      BY <3>1, <3>2 DEF Storing, Clean, CleanupDone
    <3>3. CASE AdmitRoot \/ AdmitRootRaises \/ AdmissionDone \/ Resume \/ HasRaises \/ DispatchDone
               \/ WaitReturns \/ SleepReturns \/ HandleDone \/ FatalExit
      BY <3>3 DEF AdmitRoot, AdmitRootRaises, AdmissionDone, Resume, HasRaises, LeaveDispatch,
         DispatchDone, WaitReturns, SleepReturns, HandleDone, FatalExit
    <3>4. CASE SplitSome \/ RetrySome \/ FailSome \/ RouteSome
      BY <3>4 DEF SplitSome, Split, SplitCollides, RetrySome, Retry, FailSome, Fail,
         RouteSome, RouteRaises
    <3>5. CASE FoldSome \/ FoldRaises \/ Deliver \/ Submit \/ SubmitRaises \/ ShutdownDone
      BY <3>5 DEF FoldSome, Fold, FoldRaises, Deliver, Submit, SubmitRaises, LeaveDispatch,
         ShutdownDone
    <3>6. CASE (\E k \in Keys : Worker(k)) \/ QueueFails \/ Tick \/ Rest \/ UNCHANGED vars
      BY <3>6 DEF Worker, WorkerStarts, WorkerEnds, QueueFails, Tick, Rest, vars
    <3> QED BY <3>2, <3>3, <3>4, <3>5, <3>6 DEF Next, Coordinator, Thinking
  <2>2. Status = "failed" /\ Leaves = Nothing /\ Pending = {} /\ Delivered = {}
    BY <1>2, Views DEF IInv, TypeInv, Fails
  <2> QED BY <1>1, <2>1, <2>2 DEF Job!jobVars
<1>3. CASE error = "none"
  <2>1. (Idles \/ Runs) /\ (stored' = stored
           \/ \E k \in InFlight : stored' = With(k) /\ Runs)
    <3>1. CASE \/ AdmitRootRaises \/ HasRaises \/ SubmitRaises \/ FoldRaises
               \/ FailSome \/ RouteSome \/ SplitSome
      BY <1>3, <3>1 DEF AdmitRootRaises, HasRaises, SubmitRaises, FoldRaises, FailSome,
         Fail, RouteSome, RouteRaises, SplitSome, SplitCollides, Split, Pop, LeaveDispatch,
         outside, Idles, Runs, Looping
    <3>2. CASE RaiseSome
      <4>1. PICK k \in Keys : Pop(k) /\ stored' \in {stored, With(k)}
        BY <3>2 DEF RaiseSome, CommitRaises, CommitRaised
      <4>2. k \in InFlight /\ Runs
        BY <4>1, PopEffect DEF IInv, Pop, Runs, Looping
      <4> QED BY <4>1, <4>2
    <3>3. ASSUME \/ AdmitRoot \/ AdmissionDone \/ Resume \/ DispatchDone \/ WaitReturns
                 \/ SleepReturns \/ RetrySome \/ HandleDone \/ FoldSome \/ Deliver
                 \/ CommitSome \/ Clean \/ CleanupDone \/ Submit \/ ShutdownDone
                 \/ QueueFails \/ Tick \/ UNCHANGED vars \/ FatalExit
                 \/ \E k \in Keys : Worker(k)
          PROVE  FALSE
      BY <1>3, <3>3 DEF AdmitRoot, AdmissionDone, Resume, DispatchDone, WaitReturns,
         SleepReturns, RetrySome, Retry, HandleDone, FoldSome, Fold, Deliver, CommitSome,
         Commit, CommitReturned, Clean, CleanupDone, Submit, ShutdownDone, QueueFails,
         Tick, vars, FatalExit, Worker, WorkerStarts, WorkerEnds
    <3> QED BY <3>1, <3>2, <3>3 DEF Next, Coordinator, Thinking, Storing, Rest
  <2>2. Status \in {"idle", "running"} /\ Delivered = {}
        /\ (Runs => Leaves = terminal /\ Pending = Outstanding)
    BY <2>1, Views DEF IInv, TypeInv
  <2>3. Job!BrokenOff
    BY <1>3, <2>1, <2>2, CutOff DEF Job!BrokenOff
  <2> QED BY <1>1, <2>2, <2>3 DEF Job!Fail
<1> QED BY <1>2, <1>3

(* When all items are admitted, the job has its leaves. *)
LEMMA RefinesBegin ==
    ASSUME IInv, IInv', AdmissionDone, error = "none"
    PROVE  \E ps \in SUBSET Payloads : Job!Begin(ps)
<1> DEFINE ps == {a.p : a \in Items(ready)}
<1>1. /\ pc = "admit" /\ Idles /\ Runs'
      /\ UNCHANGED <<terminal, ready, delayed, inflight, stored>>
  BY DEF AdmissionDone, Again, Idles, Runs, Looping, identity, queues
<1>2. Work /\ Drained /\ TypeOK
  BY SoundWork DEF IInv, TypeInv
<1>3. \A a \in Items(ready) : a \in Admitted /\ a.p \in Payloads /\ Key(a) \in Keys
                              /\ Hash(a) \in Hashes /\ terminal[Key(a)] = Hash(a)
  BY <1>2, QueueTypes, ItemTypes DEF TypeOK, Work, AllExpected, Expected
<1>4. \A a, b \in Items(ready) : Key(a) = Key(b) => a = b
  BY <1>2 DEF Work, Apart, OneEach, Items
<1>5. Job!OneKeyEach(ps)
  BY <1>4 DEF Job!OneKeyEach, Key
<1>6. Job!KeySet(ps) = ReadyKeys
  BY KeysOfItems DEF Job!KeySet, Key
<1>7. terminal = Job!Identities(Job!Nothing, ps)
  <2>1. ASSUME NEW k \in ReadyKeys
        PROVE  terminal[k] = HashOf[CHOOSE p \in ps : KeyOf[p] = k]
    <3>1. PICK a \in Items(ready) : Key(a) = k
      BY <2>1, KeysOfItems
    <3>2. a.p = CHOOSE p \in ps : KeyOf[p] = k
      BY <1>4, <3>1 DEF Key
    <3> QED BY <1>3, <3>1, <3>2 DEF Hash
  <2>2. ASSUME NEW k \in Keys \ ReadyKeys
        PROVE  terminal[k] = None
    BY <1>1, <1>2, <2>2 DEF Drained, TerminalKeys
  <2>3. terminal \in [Keys -> Hashes \cup {None}]
    BY <1>2 DEF TypeOK
  <2> HIDE DEF ps
  <2> QED BY <1>6, <2>1, <2>2, <2>3 DEF Job!Identities, Job!Nothing
<1>8. Outstanding' = ReadyKeys
  BY <1>1, <1>2 DEF Drained, Outstanding, ReadyKeys, DelayedKeys, InFlight
<1>9. /\ Status = "idle" /\ Delivered = {} /\ Status' = "running" /\ Leaves' = terminal'
      /\ Pending' = Outstanding' /\ Delivered' = {}
  BY <1>1, Views, ViewsNext DEF IInv, TypeInv
<1>10. ps \in SUBSET Payloads
  BY <1>3
<1> HIDE DEF ps
<1> QED BY <1>1, <1>5, <1>6, <1>7, <1>8, <1>9, <1>10 DEF Job!Begin

(* An item that is resumed is skipped; one that is committed is settled. *)
LEMMA RefinesSkip ==
    ASSUME IInv, IInv', Resume, error = "none"
    PROVE  \E k \in Keys : Job!Skip(k)
<1>1. Runs /\ Runs' /\ UNCHANGED <<terminal, stored>>
  BY DEF Resume, Runs, Looping, identity
<1>2. PICK a \in Admitted : a = Head(ready)
  BY SoundWork, TakeReady DEF IInv, TypeInv, Resume, CanDispatch, Work, Apart
<1>3. Outstanding' = Outstanding \ {Key(a)} /\ Key(a) \in Outstanding /\ Settled(Key(a))
      /\ Key(a) \in Keys
  BY <1>2, KeptResume, ItemTypes
<1>4. /\ Status = "running" /\ Delivered = {} /\ Leaves = terminal /\ Pending = Outstanding
      /\ Status' = "running" /\ Leaves' = terminal' /\ Pending' = Outstanding'
      /\ Delivered' = {}
  BY <1>1, Views, ViewsNext DEF IInv, TypeInv
<1> QED BY <1>1, <1>3, <1>4 DEF Job!Skip, Settled

LEMMA RefinesSettle ==
    ASSUME IInv, IInv', NEW k \in Keys, Commit(k), error = "none"
    PROVE  \E p \in Payloads : Job!Settle(k, p)
<1>1. Pop(k) /\ Runs /\ Runs' /\ terminal' = terminal /\ stored' = With(k)
  BY DEF Commit, CommitReturned, Pop, Runs, Looping, identity
<1>2. k \in InFlight /\ inflight[k].ad.p \in Payloads
  BY <1>1, PopEffect, FutureTypes DEF IInv, TypeInv
<1>3. /\ KeyOf[inflight[k].ad.p] = k /\ stored[k] = None
      /\ HashOf[inflight[k].ad.p] = terminal[k]
  BY <1>2, SoundWork DEF Work, AllExpected, FutureExpected, Key, Hash
<1>4. Outstanding' = Outstanding \ {k} /\ k \in Outstanding
  BY <1>2, KeptCommit DEF Outstanding
<1>5. /\ Status = "running" /\ Delivered = {} /\ Leaves = terminal /\ Pending = Outstanding
      /\ Status' = "running" /\ Leaves' = terminal' /\ Pending' = Outstanding'
      /\ Delivered' = {}
  BY <1>1, Views, ViewsNext DEF IInv, TypeInv
<1> QED BY <1>1, <1>2, <1>3, <1>4, <1>5 DEF Job!Settle, With

(* Children take the place of their parent. *)
LEMMA RefinesReplace ==
    ASSUME IInv, IInv', NEW k \in Keys, NEW exc \in Exceptions,
           NEW children \in UNION {SplitsOf[p] : p \in Payloads},
           Split(k, exc, children), error = "none"
    PROVE  \E ps \in SUBSET Payloads : Job!Replace(k, ps)
<1> DEFINE ps == {children[i] : i \in DOMAIN children}
<1>1. /\ Pop(k) /\ Runs /\ Runs' /\ stored' = stored
      /\ Admissible(children) /\ children # <<>>
      /\ terminal' = WithIdentities([terminal EXCEPT ![k] = None], children)
  BY DEF Split, Pop, Runs, Looping, ProperSplit, Replaced, outside
<1>2. children \in Seq(Payloads) /\ DOMAIN children = 1 .. Len(children)
      /\ Len(children) \in Nat
  BY PayloadsAssumption, LenProperties
<1>3. ps \in SUBSET Payloads /\ ps # {}
  <2>1. 1 \in DOMAIN children
    BY <1>1, <1>2, EmptySeq
  <2> QED BY <1>2, <2>1
<1>4. \A i, j \in DOMAIN children : KeyOf[children[i]] = KeyOf[children[j]] => i = j
  BY <1>1 DEF Admissible, DistinctKeys
<1>5. Job!OneKeyEach(ps)
  BY <1>4 DEF Job!OneKeyEach
<1>6. Job!KeySet(ps) = KeysOf(children)
  BY DEF Job!KeySet, KeysOf
<1>7. terminal' = Job!Identities([terminal EXCEPT ![k] = None], ps)
  <2>1. ASSUME NEW j \in KeysOf(children)
        PROVE  HashOf[children[CHOOSE i \in DOMAIN children : KeyOf[children[i]] = j]]
                 = HashOf[CHOOSE p \in ps : KeyOf[p] = j]
    <3>1. PICK i \in DOMAIN children : KeyOf[children[i]] = j
      BY <2>1 DEF KeysOf
    <3>2. i = CHOOSE n \in DOMAIN children : KeyOf[children[n]] = j
      BY <1>4, <3>1
    <3>3. children[i] = CHOOSE p \in ps : KeyOf[p] = j
      BY <1>4, <3>1
    <3> QED BY <3>2, <3>3
  <2> HIDE DEF ps
  <2> QED BY <1>1, <1>6, <2>1 DEF Job!Identities, WithIdentities
<1>8. /\ Outstanding' = (Outstanding \ {k}) \cup KeysOf(children) /\ k \in Outstanding
      /\ KeysOf(children) \cap TerminalKeys = {}
  BY <1>1, PopEffect, KeptSplit DEF IInv, Outstanding
<1>9. \A p \in ps : terminal[KeyOf[p]] = None
  BY <1>3, <1>6, <1>8, PayloadsAssumption DEF TerminalKeys, Job!KeySet
<1>10. /\ Status = "running" /\ Delivered = {} /\ Leaves = terminal /\ Pending = Outstanding
       /\ Status' = "running" /\ Leaves' = terminal' /\ Pending' = Outstanding'
       /\ Delivered' = {}
  BY <1>1, Views, ViewsNext DEF IInv, TypeInv
<1> HIDE DEF ps
<1> QED BY <1>1, <1>3, <1>5, <1>6, <1>7, <1>8, <1>9, <1>10 DEF Job!Replace

(* Exactly the results of the leaves are delivered. *)
LEMMA RefinesDeliver ==
    ASSUME IInv, IInv', Deliver, error = "none"
    PROVE  Job!Deliver
<1>1. /\ pc = "fold" /\ Unfolded = {} /\ Runs /\ HasDelivered'
      /\ UNCHANGED <<terminal, ready, delayed, inflight, stored, folded>>
  BY DEF Deliver, Runs, HasDelivered, identity, queues, outside
<1>2. Work /\ Drained /\ FoldedFromStore
  BY SoundWork
<1>3. Outstanding = {} /\ Outstanding' = Outstanding
  BY <1>1, <1>2 DEF Drained, Outstanding, ReadyKeys, DelayedKeys, InFlight
<1>4. \A k \in TerminalKeys : Settled(k)
  BY <1>1, <1>2, <1>3 DEF Work, Covered
<1>5. {folded[i] : i \in DOMAIN folded} = {stored[k] : k \in TerminalKeys}
  <2>1. ASSUME NEW i \in DOMAIN folded
        PROVE  folded[i] \in {stored[k] : k \in TerminalKeys}
    BY <1>1, <1>2 DEF FoldedFromStore
  <2>2. ASSUME NEW k \in TerminalKeys
        PROVE  \E i \in DOMAIN folded : folded[i] = stored[k]
    <3>1. PICK i \in DOMAIN folded : KeyOf[folded[i]] = k
      BY <1>1 DEF Unfolded
    <3> QED BY <1>1, <1>2, <3>1 DEF FoldedFromStore
  <2> QED BY <2>1, <2>2
<1>6. /\ Status = "running" /\ Leaves = terminal /\ Pending = Outstanding
      /\ Status' = "delivered" /\ Leaves' = terminal' /\ Pending' = Outstanding'
      /\ Delivered' = {folded'[i] : i \in DOMAIN folded'}
  BY <1>1, Views, ViewsNext DEF IInv, TypeInv
<1> QED BY <1>1, <1>3, <1>4, <1>5, <1>6 DEF Job!Deliver, Settled, TerminalKeys

LEMMA RefinesForget ==
    ASSUME IInv, IInv', Clean, error = "none"
    PROVE  Job!Forget
<1>1. /\ HasDelivered /\ HasDelivered' /\ CleanupOnSuccess
      /\ UNCHANGED <<terminal, ready, delayed, inflight, folded>>
  BY DEF Clean, HasDelivered, IInv, PhaseErrors, identity, queues, outside
<1>2. Outstanding' = Outstanding
  BY <1>1 DEF Outstanding, ReadyKeys, DelayedKeys, InFlight
<1>3. UNCHANGED <<Status, Leaves, Pending, Delivered>> /\ Status = "delivered"
  BY <1>1, <1>2, Views, ViewsNext DEF IInv, TypeInv
<1> QED BY <1>1, <1>3 DEF Clean, Job!Forget

(* A step that keeps the outstanding keys, the leaves and the store is        *)
(* invisible to the job.                                                      *)
LEMMA Invisible ==
    ASSUME IInv, IInv', UNCHANGED stored,
           \/ Idles /\ Idles'
           \/ Runs /\ Runs' /\ terminal' = terminal /\ Outstanding' = Outstanding
           \/ /\ HasDelivered /\ HasDelivered' /\ terminal' = terminal
              /\ Outstanding' = Outstanding /\ folded' = folded
    PROVE  UNCHANGED Job!jobVars
<1>1. UNCHANGED <<Status, Leaves, Pending, Delivered>>
  BY Views, ViewsNext DEF IInv, TypeInv
<1> QED BY <1>1 DEF Job!jobVars

LEMMA RefinesStutter ==
    ASSUME IInv, IInv', error = "none", error' = "none",
           \/ AdmitRoot \/ Submit \/ SleepReturns \/ HandleDone \/ RetrySome
           \/ DispatchDone \/ WaitReturns \/ FoldSome \/ ShutdownDone \/ CleanupDone
           \/ Tick \/ QueueFails \/ UNCHANGED vars \/ \E k \in Keys : Worker(k)
    PROVE  UNCHANGED Job!jobVars
<1>1. CASE AdmitRoot
  <2>1. Idles /\ Idles' /\ stored' = stored
    BY <1>1 DEF AdmitRoot, Idles
  <2> QED BY <2>1, Invisible
<1>2. CASE Submit \/ SleepReturns \/ HandleDone \/ RetrySome
  <2>1. Runs /\ Runs' /\ UNCHANGED <<terminal, stored>>
    BY <1>2 DEF Submit, SleepReturns, HandleDone, RetrySome, Retry, Pop, Again, Runs,
                Looping, identity
  <2>2. Outstanding' = Outstanding
    BY <1>2, KeptSubmit, KeptPromote, KeptRetry DEF RetrySome
  <2> QED BY <2>1, <2>2, Invisible
<1>3. CASE DispatchDone \/ WaitReturns \/ FoldSome \/ Tick
  <2>1. Runs /\ Runs' /\ UNCHANGED <<terminal, stored, ready, delayed, inflight>>
    BY <1>3 DEF DispatchDone, WaitReturns, FoldSome, Fold, Tick, Runs, Looping, identity,
                queues
  <2>2. Outstanding' = Outstanding
    BY <2>1 DEF Outstanding, ReadyKeys, DelayedKeys, InFlight
  <2> QED BY <2>1, <2>2, Invisible
<1>4. CASE ShutdownDone
  <2>1. Runs /\ Runs' /\ UNCHANGED <<terminal, stored, ready, delayed>>
        /\ inflight' = Nothing /\ InFlight = {}
    BY <1>4, SoundWork DEF ShutdownDone, Drained, Runs, identity, queues
  <2>2. Outstanding' = Outstanding
    BY <2>1 DEF Outstanding, ReadyKeys, DelayedKeys, InFlight, Nothing
  <2> QED BY <2>1, <2>2, Invisible
<1>5. CASE CleanupDone
  <2>1. HasDelivered /\ HasDelivered' /\ folded' = folded
        /\ UNCHANGED <<terminal, stored, ready, delayed, inflight>>
    BY <1>5 DEF CleanupDone, HasDelivered, identity, queues, outside
  <2>2. Outstanding' = Outstanding
    BY <2>1 DEF Outstanding, ReadyKeys, DelayedKeys, InFlight
  <2> QED BY <2>1, <2>2, Invisible
<1>6. CASE QueueFails \/ UNCHANGED vars \/ \E k \in Keys : Worker(k)
  <2>1. UNCHANGED <<pc, terminal, stored, ready, delayed, folded>> /\ InFlight' = InFlight
    BY <1>6, WorkersProgress
       DEF IInv, TypeInv, vars, InFlight, identity, queues, outside
  <2>2. Outstanding' = Outstanding
    BY <2>1 DEF Outstanding, ReadyKeys, DelayedKeys
  <2>3. Idles \/ Runs \/ HasDelivered
    BY Views DEF IInv, TypeInv, Fails
  <2>4. (Idles /\ Idles') \/ (Runs /\ Runs') \/ (HasDelivered /\ HasDelivered')
    BY <2>1, <2>3 DEF Idles, Runs, HasDelivered
  <2> QED BY <2>1, <2>2, <2>4, Invisible
<1> QED BY <1>1, <1>2, <1>3, <1>4, <1>5, <1>6

LEMMA RefinesStep ==
    ASSUME IInv, IInv', [Next]_vars
    PROVE  [Job!Next]_(Job!jobVars)
<1>1. CASE Begin \/ Crash \/ PowerLoss
  BY <1>1, RefinesReset DEF Job!Next
<1>2. CASE error' # "none" /\ ~(Begin \/ Crash \/ PowerLoss)
  BY <1>2, RefinesFail DEF Job!Next
<1>3. CASE error' = "none" /\ ~(Begin \/ Crash \/ PowerLoss)
  <2>1. CASE error # "none"
    <3>1. \/ AdmitRoot \/ AdmitRootRaises \/ AdmissionDone \/ Resume \/ HasRaises
          \/ DispatchDone \/ WaitReturns \/ SleepReturns \/ HandleDone \/ FatalExit
          \/ Submit \/ SubmitRaises \/ ShutdownDone \/ Deliver \/ CleanupDone \/ Clean
          \/ FoldSome \/ FoldRaises \/ Tick \/ QueueFails \/ SplitSome \/ RetrySome
          \/ FailSome \/ RouteSome \/ CommitSome \/ RaiseSome \/ UNCHANGED vars
          \/ \E k \in Keys : Worker(k)
      BY <1>3 DEF Next, Coordinator, Thinking, Storing, Rest
    <3> QED BY <1>3, <2>1, <3>1 DEF AdmitRoot, AdmitRootRaises, AdmissionDone, Resume,
         HasRaises, DispatchDone, WaitReturns, SleepReturns, HandleDone, FatalExit, Submit,
         SubmitRaises, ShutdownDone, Deliver, CleanupDone, Clean, FoldSome, Fold,
         FoldRaises, Tick, QueueFails, SplitSome, Split, SplitCollides, RetrySome, Retry,
         FailSome, Fail, RouteSome, RouteRaises, CommitSome, Commit, CommitReturned,
         RaiseSome, CommitRaises, CommitRaised, Pop, vars, Worker, WorkerStarts,
         WorkerEnds, LeaveDispatch, Leave, Abort
  <2>2. CASE error = "none"
    <3>1. CASE \/ AdmitRoot \/ Submit \/ SleepReturns \/ HandleDone \/ RetrySome
               \/ DispatchDone \/ WaitReturns \/ FoldSome \/ ShutdownDone \/ CleanupDone
               \/ Tick \/ QueueFails \/ UNCHANGED vars \/ \E k \in Keys : Worker(k)
      BY <1>3, <2>2, <3>1, RefinesStutter
    <3>2. CASE AdmissionDone
      BY <2>2, <3>2, RefinesBegin DEF Job!Next
    <3>3. CASE Resume
      BY <2>2, <3>3, RefinesSkip DEF Job!Next
    <3>4. CASE CommitSome
      BY <2>2, <3>4, RefinesSettle DEF Job!Next, CommitSome
    <3>5. CASE SplitSome
      <4>1. ASSUME NEW k \in Keys, NEW exc, NEW children, SplitCollides(k, exc, children)
            PROVE  error' # "none"
        BY <4>1 DEF SplitCollides, Leave
      <4> QED BY <1>3, <2>2, <3>5, <4>1, RefinesReplace DEF Job!Next, SplitSome
    <3>6. CASE Deliver
      BY <2>2, <3>6, RefinesDeliver DEF Job!Next
    <3>7. CASE Clean
      BY <2>2, <3>7, RefinesForget DEF Job!Next
    <3>8. ASSUME \/ AdmitRootRaises \/ HasRaises \/ SubmitRaises \/ RaiseSome \/ FailSome
                 \/ RouteSome \/ FatalExit \/ FoldRaises
          PROVE  error' # "none"
      BY <3>8 DEF AdmitRootRaises, HasRaises, SubmitRaises, LeaveDispatch, Leave,
                  RaiseSome, CommitRaises, CommitRaised, FailSome, Fail, Abort, RouteSome,
                  RouteRaises, FatalExit, FoldRaises
    <3> QED BY <1>3, <3>1, <3>2, <3>3, <3>4, <3>5, <3>6, <3>7, <3>8
            DEF Next, Coordinator, Thinking, Storing, Rest
  <2> QED BY <2>1, <2>2
<1> QED BY <1>1, <1>2, <1>3

(* A run of run_checkpointed is a run of the abstract job: nothing is settled   *)
(* twice, delivered unsettled, or lost with a failure or a crash.              *)
THEOREM EngineImplementsBatchJob == Spec => ImplementsBatchJob
<1>1. Init => Job!Init
  BY RefinesInit
<1>2. IInv /\ IInv' /\ [Next]_vars => [Job!Next]_(Job!jobVars)
  BY RefinesStep
<1> QED BY <1>1, <1>2, Invariant, PTL DEF Spec, ImplementsBatchJob, Job!Spec
=============================================================================
