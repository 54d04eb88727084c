------------------------------ MODULE EngineProofs ------------------------------
(***************************************************************************)
(* Proofs about Engine, for any payloads, keys, item lists, splitters,       *)
(* faults and number of runs: no work is lost or held twice, the counters    *)
(* add up, the retry budget is kept, and what is committed stays.             *)
(***************************************************************************)
EXTENDS EngineQueues

-----------------------------------------------------------------------------
(* The inductive invariant, in named parts. *)

(* Only done futures are handled. *)
BatchIsDone == pc = "handle" /\ error = "none" => batch \subseteq Finished

(* Every result is stored under its own key. *)
StoreKeyed == stored \in StoreContents

(* Which errors go with which phases; results are folded in the last ones;     *)
(* only a run that was asked to cleans up.                                     *)
PhaseErrors ==
    /\ pc = "cleaning" => CleanupOnSuccess
    /\ error # "none" => pc \in {"handle", "closing", "failed"}
    /\ pc = "failed" => error # "none"
    /\ folded # <<>> => pc \in {"fold", "cleaning", "returned", "failed"}

(* What is to be folded is live under the same hash, and only a live key has  *)
(* been tried.                                                               *)
TerminalIsLive ==
    \A k \in Keys : /\ terminal[k] # None => live[k] = terminal[k]
                    /\ live[k] = None => tries[k] = 0

(* An outstanding item is the one its key is to be folded with. *)
Expected(queue) == \A a \in Items(queue) : terminal[Key(a)] = Hash(a)
FutureExpected(k) ==
    /\ Key(inflight[k].ad) = k /\ stored[k] = None
    /\ terminal[k] = Hash(inflight[k].ad)
AllExpected ==
    /\ Expected(ready) /\ Expected(delayed)
    /\ \A k \in InFlight : FutureExpected(k)

(* No key is outstanding twice. *)
Apart ==
    /\ OneEach(ready) /\ OneEach(delayed)
    /\ ReadyKeys \cap DelayedKeys = {}
    /\ InFlight \cap (ReadyKeys \cup DelayedKeys) = {}

(* A key that is not outstanding has its result, until that may be cleaned up. *)
Covered ==
    pc \notin {"cleaning", "returned"} =>
        \A k \in TerminalKeys : k \in Outstanding \/ Settled(k)

(* The loop has ended because nothing is left; nothing is dispatched while     *)
(* items are admitted.                                                        *)
Drained ==
    /\ pc \in {"closing", "fold", "cleaning", "returned"} =>
         ready = <<>> /\ delayed = <<>> /\ InFlight = {}
    /\ pc = "admit" => delayed = <<>> /\ InFlight = {} /\ TerminalKeys \subseteq ReadyKeys

(* Every execution and every key to be folded is accounted for. *)
Ended == stats.committed + stats.retries + stats.splits
Results == stats.committed + stats.resumed
Waiting == Len(ready) + Len(delayed)
Balanced ==
    /\ stats.attempts = Ended + Cardinality(InFlight)
    /\ Results + Waiting + Cardinality(InFlight) = Cardinality(TerminalKeys)

(* What has been folded are results to be folded, as the store has them. *)
FoldedFromStore ==
    pc = "fold" => \A i \in DOMAIN folded :
        /\ KeyOf[folded[i]] \in TerminalKeys
        /\ folded[i] = stored[KeyOf[folded[i]]]

Sound ==
    error = "none" =>
        /\ TerminalIsLive /\ AllExpected /\ Apart /\ Covered /\ Drained
        /\ Balanced /\ FoldedFromStore

TypeInv == TypeOK /\ BatchIsDone
IInv == TypeInv /\ StoreKeyed /\ PhaseErrors /\ Sound /\ RetryBudget

-----------------------------------------------------------------------------
(* Types. *)

(* A future in flight, and what is about it. *)
LEMMA FutureTypes ==
    ASSUME TypeOK, NEW k \in InFlight
    PROVE  /\ k \in Keys /\ inflight[k] \in Futures
           /\ inflight[k].ad \in Admitted
           /\ inflight[k].st \in {"queued", "running", "ok", "raised"}
           /\ inflight[k].ad.p \in Payloads /\ inflight[k].ad.depth \in Nat
BY DEF TypeOK, InFlight, Futures, Admitted

(* A future that is popped was done; the others stay. *)
LEMMA PopsDone ==
    ASSUME TypeInv, NEW k \in Keys, Pop(k)
    PROVE  /\ k \in InFlight /\ k \in Finished
           /\ inflight' \in [Keys -> Futures \cup {None}]
           /\ batch' \subseteq Keys
           /\ \A j \in Keys : inflight'[j] = IF j = k THEN None ELSE inflight[j]
           /\ batch' \subseteq {j \in Keys : inflight'[j] # None
                                          /\ inflight'[j].st \in {"ok", "raised"}}
BY DEF TypeInv, TypeOK, BatchIsDone, Pop, Finished, InFlight

(* A list of one root item. *)
LEMMA FirstRoot ==
    ASSUME TypeOK, roots # <<>>
    PROVE  /\ Head(roots) \in Payloads /\ Tail(roots) \in Seq(Payloads)
           /\ <<Head(roots)>> \in Seq(Payloads) /\ DOMAIN <<Head(roots)>> = {1}
           /\ <<Head(roots)>>[1] = Head(roots) /\ Len(<<Head(roots)>>) = 1
           /\ KeysOf(<<Head(roots)>>) = {KeyOf[Head(roots)]}
           /\ KeyOf[Head(roots)] \in Keys /\ HashOf[Head(roots)] \in Hashes
<1>1. Head(roots) \in Payloads /\ Tail(roots) \in Seq(Payloads)
  BY HeadTailProperties DEF TypeOK
<1>2. <<Head(roots)>> \in Seq(Payloads) /\ Len(<<Head(roots)>>) = 1
      /\ <<Head(roots)>>[1] = Head(roots)
  BY <1>1
<1>3. DOMAIN <<Head(roots)>> = {1}
  BY <1>2, LenProperties
<1> QED BY <1>1, <1>2, <1>3, PayloadsAssumption DEF KeysOf

LEMMA InitType == Init => TypeInv
BY DEF Init, Fresh, TypeInv, TypeOK, BatchIsDone, Nothing, NoStats, Phases

(* Fresh locals have their types. *)
LEMMA ResetTypes ==
    ASSUME ResetLocals, pc' \in {"idle", "admit"}, runs' \in Nat,
           roots' \in Seq(Payloads), job' \in Seq(Payloads),
           stored' \in [Keys -> Payloads \cup {None}]
    PROVE  TypeInv'
BY DEF ResetLocals, Nothing, NoStats, TypeInv, TypeOK, BatchIsDone, Phases

(* One counter goes up by one. *)
LEMMA Counts ==
    ASSUME TypeOK,
           NEW field \in {"attempts", "committed", "resumed", "retries", "splits"},
           Count(field)
    PROVE  /\ stats' \in [attempts : Nat, committed : Nat, resumed : Nat,
                          retries : Nat, splits : Nat]
           /\ stats'.attempts = stats.attempts + (IF field = "attempts" THEN 1 ELSE 0)
           /\ stats'.committed = stats.committed + (IF field = "committed" THEN 1 ELSE 0)
           /\ stats'.resumed = stats.resumed + (IF field = "resumed" THEN 1 ELSE 0)
           /\ stats'.retries = stats.retries + (IF field = "retries" THEN 1 ELSE 0)
           /\ stats'.splits = stats.splits + (IF field = "splits" THEN 1 ELSE 0)
<1> DEFINE Stats == [attempts : Nat, committed : Nat, resumed : Nat, retries : Nat,
                     splits : Nat]
<1>1. stats \in Stats
  BY DEF TypeOK
<1>2. stats' = [stats EXCEPT ![field] = @ + 1]
  BY DEF Count
<1>3. CASE field = "attempts"
  BY <1>1, <1>2, <1>3
<1>4. CASE field = "committed"
  BY <1>1, <1>2, <1>4
<1>5. CASE field = "resumed"
  BY <1>1, <1>2, <1>5
<1>6. CASE field = "retries"
  BY <1>1, <1>2, <1>6
<1>7. CASE field = "splits"
  BY <1>1, <1>2, <1>7
<1> QED BY <1>3, <1>4, <1>5, <1>6, <1>7

(* Promotion empties the front of delayed. *)
LEMMA Promotes ==
    ASSUME TypeOK, PromoteMatured
    PROVE  /\ ready' = ready \o Front(delayed, due)
           /\ delayed' = Back(delayed, due) /\ due' = 0
           /\ ready' \in Seq(Admitted) /\ delayed' \in Seq(Admitted)
           /\ due' \in 0 .. Len(delayed')
<1>1. ready' = ready \o Front(delayed, due) /\ delayed' = Back(delayed, due) /\ due' = 0
  BY DEF PromoteMatured, Front, Back
<1>2. Front(delayed, due) \in Seq(Admitted) /\ Back(delayed, due) \in Seq(Admitted)
  BY CutQueue DEF TypeOK
<1>3. ready' \in Seq(Admitted)
  BY <1>1, <1>2, JoinQueues DEF TypeOK
<1> QED BY <1>1, <1>2, <1>3, QueueTypes

(* The types are kept while a run starts and its items are admitted. *)
LEMMA TypeAdmit ==
    ASSUME TypeInv, Begin \/ AdmitRoot \/ AdmitRootRaises \/ AdmissionDone
    PROVE  TypeInv'
<1>1. ASSUME NEW items \in RootLists, Start(items)
      PROVE  TypeInv'
  <2>1. items \in Seq(Payloads)
    BY PayloadsAssumption
  <2>2. /\ ResetLocals /\ pc' = "admit" /\ roots' = items /\ job' = items
        /\ runs' = runs + 1 /\ stored' = stored
    BY <1>1 DEF Start
  <2>3. runs' \in Nat /\ stored' \in [Keys -> Payloads \cup {None}]
    BY <2>2 DEF TypeInv, TypeOK
  <2> QED BY <2>1, <2>2, <2>3, ResetTypes
<1> USE DEF TypeInv, TypeOK, BatchIsDone, Phases
<1>2. CASE AdmitRoot
  <2>1. AdmitAll(<<Head(roots)>>, 0) \in Seq(Admitted)
    BY <1>2, FirstRoot, AdmitAllItems DEF AdmitRoot
  <2>2. ready' \in Seq(Admitted)
    BY <1>2, <2>1, JoinQueues DEF AdmitRoot
  <2>3. live' \in [Keys -> Hashes \cup {None}] /\ terminal' \in [Keys -> Hashes \cup {None}]
    BY <1>2, FirstRoot, Identified DEF AdmitRoot
  <2> QED BY <1>2, <2>2, <2>3, FirstRoot DEF AdmitRoot, history
<1>3. CASE AdmitRootRaises
  BY <1>3 DEF AdmitRootRaises, identity, queues, outside
<1>4. CASE AdmissionDone
  BY <1>4 DEF AdmissionDone, Again, identity, queues, outside
<1> QED BY <1>1, <1>2, <1>3, <1>4 DEF Begin
(* They are kept by dispatching and waiting. *)
LEMMA TypeDispatch ==
    ASSUME TypeInv,
           \/ Resume \/ Submit \/ HasRaises \/ SubmitRaises \/ DispatchDone
           \/ WaitReturns \/ SleepReturns
    PROVE  TypeInv'
<1> USE DEF TypeInv, TypeOK, BatchIsDone, Phases
<1>1. CASE Resume
  <2>1. Tail(ready) \in Seq(Admitted)
    BY <1>1, TakeHead DEF Resume, CanDispatch
  <2> QED BY <1>1, <2>1, Counts DEF Resume, identity, outside
<1>2. CASE Submit
  <2>1. Tail(ready) \in Seq(Admitted) /\ Head(ready) \in Admitted
    BY <1>2, TakeHead DEF Submit, CanDispatch
  <2>2. [ad |-> Head(ready), st |-> "queued"] \in Futures
    BY <2>1 DEF Futures
  <2> QED BY <1>2, <2>1, <2>2, Counts DEF Submit, CountAttempt, identity, outside
<1>3. CASE HasRaises \/ SubmitRaises
  <2>1. Tail(ready) \in Seq(Admitted)
    BY <1>3, TakeHead DEF HasRaises, SubmitRaises, CanDispatch
  <2> QED BY <1>3, <2>1 DEF HasRaises, SubmitRaises, LeaveDispatch, Leave, identity, outside
<1>4. CASE DispatchDone
  BY <1>4 DEF DispatchDone, identity, queues, outside
<1>5. CASE WaitReturns
  BY <1>5 DEF WaitReturns, Finished, InFlight, identity, queues, outside
<1>6. CASE SleepReturns
  BY <1>6, Promotes DEF SleepReturns, Again, identity, outside
<1> QED BY <1>1, <1>2, <1>3, <1>4, <1>5, <1>6

(* They are kept by handling a done future. *)
LEMMA TypeHandle ==
    ASSUME TypeInv,
           \/ CommitSome \/ RaiseSome \/ SplitSome \/ RetrySome \/ FailSome
           \/ RouteSome \/ HandleDone \/ FatalExit
    PROVE  TypeInv'
<1> USE DEF TypeInv, TypeOK, BatchIsDone, Phases, Finished, InFlight
<1>1. ASSUME NEW k \in Keys, Pop(k)
      PROVE  /\ With(k) \in [Keys -> Payloads \cup {None}]
             /\ inflight' \in [Keys -> Futures \cup {None}]
             /\ batch' \subseteq Keys /\ batch' \subseteq Finished'
             /\ inflight[k].ad \in Admitted
  BY <1>1, PopsDone, FutureTypes DEF With
<1>2. ASSUME NEW k \in Keys, Commit(k)
      PROVE  TypeInv'
  <2>1. Pop(k)
    BY <1>2 DEF Commit, CommitReturned
  <2> QED BY <1>2, <2>1, <1>1, Counts DEF Commit, CommitReturned, identity, queues, outside
<1>3. ASSUME NEW k \in Keys, CommitRaises(k)
      PROVE  TypeInv'
  <2>1. Pop(k)
    BY <1>3 DEF CommitRaises, CommitRaised
  <2> QED BY <1>3, <2>1, <1>1 DEF CommitRaises, CommitRaised, Leave, identity, queues, outside
<1>4. ASSUME NEW k \in Keys, NEW exc \in Exceptions,
             NEW children \in UNION {SplitsOf[p] : p \in Payloads},
             Split(k, exc, children)
      PROVE  TypeInv'
  <2>1. Pop(k) /\ Admissible(children)
    BY <1>4 DEF Split
  <2>2. children \in Seq(Payloads)
    BY PayloadsAssumption
  <2>3. inflight[k].ad.depth + 1 \in Nat
    BY <2>1, <1>1 DEF Admitted
  <2>4. ready' \in Seq(Admitted)
    BY <1>4, <2>2, <2>3, AdmitAllItems, JoinQueues DEF Split
  <2>5. [terminal EXCEPT ![k] = None] \in [Keys -> Hashes \cup {None}]
    OBVIOUS
  <2>6. live' \in [Keys -> Hashes \cup {None}] /\ terminal' \in [Keys -> Hashes \cup {None}]
    BY <1>4, <2>1, <2>2, <2>5, Identified DEF Split, Replaced, Admissible, DistinctKeys
  <2> QED BY <1>4, <2>1, <2>4, <2>6, <1>1, Counts DEF Split, outside
<1>5. ASSUME NEW k \in Keys, NEW exc \in Exceptions, NEW children, SplitCollides(k, exc, children)
      PROVE  TypeInv'
  <2>1. Pop(k)
    BY <1>5 DEF SplitCollides
  <2> QED BY <1>5, <2>1, <1>1 DEF SplitCollides, Leave, identity, queues, outside
<1>6. ASSUME NEW k \in Keys, NEW exc \in Exceptions, NEW i \in 1 .. Len(delayed) + 1,
             Retry(k, exc, i)
      PROVE  TypeInv'
  <2>1. Pop(k)
    BY <1>6 DEF Retry
  <2>2. delayed' \in Seq(Admitted) /\ Len(delayed') = Len(delayed) + 1
    BY <1>6, <2>1, <1>1, InsertItem DEF Retry
  <2>3. due' \in 0 .. Len(delayed')
    BY <1>6, <2>2, QueueTypes DEF Retry
  <2>4. tries' \in [Keys -> Nat]
    BY <1>6 DEF Retry
  <2>5. pc' = "handle" /\ stats' \in [attempts : Nat, committed : Nat, resumed : Nat,
                                     retries : Nat, splits : Nat]
    BY <1>6, <2>1, Counts DEF Retry, Pop
  <2> QED BY <1>6, <2>1, <2>2, <2>3, <2>4, <2>5, <1>1 DEF Retry, identity, outside
<1>7. ASSUME NEW k \in Keys, NEW exc \in Exceptions, Fail(k, exc)
      PROVE  TypeInv'
  <2>1. Pop(k)
    BY <1>7 DEF Fail
  <2>2. tries' \in [Keys -> Nat]
    BY <1>7 DEF Fail
  <2> QED BY <1>7, <2>1, <2>2, <1>1 DEF Fail, Abort, identity, queues, outside
<1>8. ASSUME NEW k \in Keys, RouteRaises(k)
      PROVE  TypeInv'
  <2>1. Pop(k)
    BY <1>8 DEF RouteRaises
  <2> QED BY <1>8, <2>1, <1>1 DEF RouteRaises, Leave, identity, queues, outside
<1>9. CASE HandleDone
  BY <1>9, Promotes DEF HandleDone, Again, identity, outside
<1>10. CASE FatalExit
  BY <1>10, Promotes DEF FatalExit, identity, outside
<1> QED BY <1>2, <1>3, <1>4, <1>5, <1>6, <1>7, <1>8, <1>9, <1>10
        DEF CommitSome, RaiseSome, SplitSome, RetrySome, FailSome, RouteSome
(* They are kept by shutting down, folding, delivering and cleaning up. *)
LEMMA TypeEnd ==
    ASSUME TypeInv,
           \/ ShutdownDone \/ FoldSome \/ FoldRaises \/ Deliver \/ Clean \/ CleanupDone
    PROVE  TypeInv'
<1> USE DEF TypeInv, TypeOK, BatchIsDone, Phases
<1>1. CASE ShutdownDone
  BY <1>1 DEF ShutdownDone, Nothing, identity, queues, outside
<1>2. ASSUME NEW k \in Keys, Fold(k)
      PROVE  TypeInv'
  <2>1. folded' \in Seq(Payloads)
    BY <1>2, AppendProperties DEF Fold
  <2> QED BY <1>2, <2>1 DEF Fold, identity, queues, history
<1>3. CASE FoldRaises
  BY <1>3 DEF FoldRaises, identity, queues, outside
<1>4. CASE Deliver \/ CleanupDone
  BY <1>4 DEF Deliver, CleanupDone, identity, queues, outside
<1>5. CASE Clean
  BY <1>5 DEF Clean, identity, queues, outside
<1> QED BY <1>1, <1>2, <1>3, <1>4, <1>5 DEF FoldSome

(* Workers change how far their futures are, and nothing else about them; what  *)
(* is done stays as it is.                                                     *)
LEMMA WorkersProgress ==
    ASSUME TypeOK, (\E k \in Keys : Worker(k)) \/ QueueFails
    PROVE  /\ inflight' \in [Keys -> Futures \cup {None}] /\ InFlight' = InFlight
           /\ \A j \in InFlight : inflight'[j].ad = inflight[j].ad
           /\ \A j \in Finished : inflight'[j] = inflight[j]
           /\ UNCHANGED <<pc, identity, queues, batch, tries, error, stats, stored, outside>>
<1>1. /\ inflight \in [Keys -> Futures \cup {None}]
      /\ \A j \in InFlight : inflight[j] \in Futures /\ inflight[j] # None
  BY DEF TypeOK, InFlight
<1>2. ASSUME NEW f \in Futures, NEW st \in {"queued", "running", "ok", "raised"}
      PROVE  /\ [f EXCEPT !.st = st] \in Futures /\ [f EXCEPT !.st = st] # None
             /\ [f EXCEPT !.st = st].ad = f.ad
  BY FuturesAssumption DEF Futures
<1>3. ASSUME NEW k \in InFlight, NEW st \in {"running", "ok", "raised"},
             inflight[k].st \in {"queued", "running"},
             inflight' = [inflight EXCEPT ![k] = [inflight[k] EXCEPT !.st = st]]
      PROVE  /\ inflight' \in [Keys -> Futures \cup {None}] /\ InFlight' = InFlight
             /\ \A j \in InFlight : inflight'[j].ad = inflight[j].ad
             /\ \A j \in Finished : inflight'[j] = inflight[j]
  <2>1. /\ [inflight[k] EXCEPT !.st = st] \in Futures
        /\ [inflight[k] EXCEPT !.st = st] # None
        /\ [inflight[k] EXCEPT !.st = st].ad = inflight[k].ad
    BY <1>1, <1>2
  <2>2. k \notin Finished
    BY <1>3 DEF Finished
  <2> QED BY <1>1, <1>3, <2>1, <2>2 DEF InFlight, Finished
<1>4. ASSUME NEW k \in Keys, WorkerStarts(k)
      PROVE  k \in InFlight /\ inflight[k].st = "queued"
             /\ inflight' = [inflight EXCEPT ![k] = [inflight[k] EXCEPT !.st = "running"]]
  BY <1>4 DEF WorkerStarts, InFlight
<1>5. ASSUME NEW k \in Keys, WorkerEnds(k)
      PROVE  k \in InFlight /\ inflight[k].st = "running"
             /\ \E st \in {"ok", "raised"} :
                  inflight' = [inflight EXCEPT ![k] = [inflight[k] EXCEPT !.st = st]]
  BY <1>5 DEF WorkerEnds, InFlight
<1>6. CASE \E k \in Keys : Worker(k)
  BY <1>3, <1>4, <1>5, <1>6 DEF Worker, WorkerStarts, WorkerEnds
<1>7. CASE QueueFails
  <2>1. \A j \in Keys : inflight'[j] =
          IF inflight[j] # None /\ inflight[j].st = "queued"
          THEN [inflight[j] EXCEPT !.st = "raised"] ELSE inflight[j]
    BY <1>7 DEF QueueFails
  <2>2. ASSUME NEW j \in Keys
        PROVE  /\ inflight'[j] \in Futures \cup {None}
               /\ inflight'[j] # None <=> inflight[j] # None
               /\ j \in InFlight => inflight'[j].ad = inflight[j].ad
               /\ j \in Finished => inflight'[j] = inflight[j]
    BY <1>1, <1>2, <2>1 DEF InFlight, Finished
  <2>3. inflight' \in [Keys -> Futures \cup {None}]
    BY <1>7, <2>2 DEF QueueFails
  <2> QED BY <1>7, <2>2, <2>3 DEF QueueFails, InFlight, Finished
<1> QED BY <1>6, <1>7

(* They are kept by the workers, the clock, and the end of the process. *)
LEMMA TypeOutside ==
    ASSUME TypeInv,
           \/ \E k \in Keys : Worker(k)
           \/ QueueFails \/ Tick \/ Crash \/ PowerLoss \/ UNCHANGED vars
    PROVE  TypeInv'
<1>1. CASE Crash
  <2>1. ASSUME NEW k \in batch, pc = "handle", error = "none"
        PROVE  With(k) \in [Keys -> Payloads \cup {None}]
    <3>1. k \in InFlight
      BY <2>1 DEF TypeInv, BatchIsDone, Finished
    <3> QED BY <3>1, FutureTypes DEF With, TypeInv, TypeOK
  <2>2. stored' \in [Keys -> Payloads \cup {None}]
    BY <1>1, <2>1 DEF Crash, HalfCommitted, TypeInv, TypeOK
  <2>3. ResetLocals /\ pc' = "idle" /\ roots' = <<>> /\ job' = <<>> /\ runs' = runs
    BY <1>1 DEF Crash, Killed
  <2>4. runs' \in Nat
    BY <2>3 DEF TypeInv, TypeOK
  <2> QED BY <2>2, <2>3, <2>4, ResetTypes
<1>2. CASE PowerLoss
  <2>1. stored' \in [Keys -> Payloads \cup {None}]
    BY <1>2 DEF PowerLoss, StoreContents
  <2>2. ResetLocals /\ pc' = "idle" /\ roots' = <<>> /\ job' = <<>> /\ runs' = runs
    BY <1>2 DEF PowerLoss, Killed
  <2>3. runs' \in Nat
    BY <2>2 DEF TypeInv, TypeOK
  <2> QED BY <2>1, <2>2, <2>3, ResetTypes
<1>3. CASE (\E k \in Keys : Worker(k)) \/ QueueFails
  <2>1. /\ inflight' \in [Keys -> Futures \cup {None}]
        /\ \A j \in Finished : inflight'[j] = inflight[j]
        /\ UNCHANGED <<pc, identity, queues, batch, tries, error, stats, stored, outside>>
    BY <1>3, WorkersProgress DEF TypeInv
  <2>2. Finished \subseteq Finished'
    BY <2>1 DEF Finished, InFlight
  <2> QED BY <2>1, <2>2 DEF TypeInv, TypeOK, BatchIsDone, identity, queues, outside
<1> USE DEF TypeInv, TypeOK, BatchIsDone, Phases
<1>4. CASE Tick
  <2>1. due \in Int /\ due >= 0 /\ due < Len(delayed) /\ Len(delayed) \in Nat
    BY <1>4, QueueTypes DEF Tick
  <2>2. due' \in 0 .. Len(delayed')
    BY <1>4, <2>1 DEF Tick
  <2> QED BY <1>4, <2>2 DEF Tick, Finished, InFlight, identity, outside
<1>5. CASE UNCHANGED vars
  BY <1>5 DEF vars, Finished, InFlight
<1> QED BY <1>1, <1>2, <1>3, <1>4, <1>5

(* Every step keeps the types. *)
LEMMA TypeStep ==
    ASSUME TypeInv, [Next]_vars
    PROVE  TypeInv'
BY TypeAdmit, TypeDispatch, TypeHandle, TypeEnd, TypeOutside
   DEF Next, Coordinator, Thinking, Storing, Rest

(* The coordinator's variables keep their types, whatever the callbacks, the  *)
(* splitter and the earlier runs do (run_checkpointed's locals and the store). *)
THEOREM TypeCorrect == Spec => []TypeOK
<1>1. Init => TypeInv
  BY InitType
<1>2. TypeInv /\ [Next]_vars => TypeInv'
  BY TypeStep
<1>3. TypeInv => TypeOK
  BY DEF TypeInv
<1> QED BY <1>1, <1>2, <1>3, PTL DEF Spec
-----------------------------------------------------------------------------
(* What the steps do to the work, in terms of sets of items. *)

(* A run begins or is killed; a step ends with an error; a step leaves the    *)
(* work and what is known of it alone; a step does something to it.           *)
Anew == ResetLocals /\ pc' \in {"idle", "admit"}
Quiet ==
    /\ UNCHANGED <<live, terminal, ready, delayed, tries, stats, stored, error>>
    /\ InFlight' = InFlight /\ \A k \in InFlight : inflight'[k].ad = inflight[k].ad
    /\ pc \in {"cleaning", "returned"} => pc' \in {"cleaning", "returned"}
Moves ==
    \/ AdmitRoot \/ Resume \/ Submit \/ SleepReturns \/ HandleDone
    \/ CommitSome \/ RetrySome \/ Clean
    \/ \E k \in Keys, exc \in Exceptions :
         \E children \in UNION {SplitsOf[p] : p \in Payloads} : Split(k, exc, children)

LEMMA StepCases ==
    ASSUME IInv, [Next]_vars
    PROVE  Anew \/ error' # "none" \/ (error = "none" /\ (Quiet \/ Moves))
<1> USE DEF IInv, PhaseErrors
<1>1. ASSUME Begin \/ Crash \/ PowerLoss
      PROVE  Anew
  BY <1>1 DEF Begin, Start, Crash, PowerLoss, Killed, Anew
<1>2. ASSUME \/ AdmitRootRaises \/ HasRaises \/ SubmitRaises \/ RaiseSome \/ FailSome
             \/ RouteSome \/ FatalExit \/ FoldRaises
      PROVE  error' # "none"
  BY <1>2 DEF AdmitRootRaises, HasRaises, SubmitRaises, LeaveDispatch, Leave, RaiseSome,
              CommitRaises, CommitRaised, FailSome, Fail, Abort, RouteSome, RouteRaises,
              FatalExit, FoldRaises
<1>3. ASSUME SplitSome
      PROVE  error' # "none" \/ Moves
  BY <1>3 DEF SplitSome, SplitCollides, Leave, Moves
<1>4. ASSUME \/ AdmitRoot \/ Resume \/ Submit \/ SleepReturns \/ HandleDone
             \/ CommitSome \/ RetrySome \/ Clean \/ SplitSome
      PROVE  error' = error \/ error' # "none"
  BY <1>4 DEF AdmitRoot, Resume, Submit, SleepReturns, HandleDone, CommitSome, Commit,
              CommitReturned, RetrySome, Retry, Clean, SplitSome, SplitCollides, Split,
              Leave
<1>5. ASSUME \/ AdmissionDone \/ DispatchDone \/ WaitReturns \/ FoldSome \/ Deliver
             \/ CleanupDone \/ Tick \/ UNCHANGED vars
      PROVE  Quiet
  BY <1>5 DEF AdmissionDone, DispatchDone, WaitReturns, FoldSome, Fold, Deliver,
              CleanupDone, Tick, vars, Quiet, InFlight, Looping, identity, queues
<1>6. ASSUME ShutdownDone
      PROVE  Quiet \/ error' # "none"
  <2>1. CASE error = "none"
    <3>1. InFlight = {}
      BY <1>6, <2>1 DEF ShutdownDone, Sound, Drained
    <3> QED BY <1>6, <3>1 DEF ShutdownDone, Quiet, InFlight, Nothing, identity, queues
  <2> QED BY <1>6, <2>1 DEF ShutdownDone
<1>7. ASSUME (\E k \in Keys : Worker(k)) \/ QueueFails
      PROVE  Quiet
  BY <1>7, WorkersProgress DEF Quiet, TypeInv, identity, queues
<1>8. Quiet => error' = error
  BY DEF Quiet
<1> QED BY <1>1, <1>2, <1>3, <1>4, <1>5, <1>6, <1>7, <1>8
        DEF Next, Coordinator, Thinking, Storing, Rest, Moves

(* The keys of the queues are the keys of their items. *)
LEMMA KeysOfItems ==
    /\ ReadyKeys = {Key(a) : a \in Items(ready)}
    /\ DelayedKeys = {Key(a) : a \in Items(delayed)}
    /\ ReadyKeys' = {Key(a) : a \in Items(ready')}
    /\ DelayedKeys' = {Key(a) : a \in Items(delayed')}
BY DEF ReadyKeys, DelayedKeys, Items

(* What is outstanding is to be folded, and so it is live. *)
LEMMA OutstandingLive ==
    ASSUME IInv, error = "none"
    PROVE  /\ \A a \in Items(ready) \cup Items(delayed) :
                a \in Admitted /\ Key(a) \in TerminalKeys /\ live[Key(a)] # None
           /\ \A k \in InFlight : k \in TerminalKeys /\ live[k] # None
           /\ Outstanding \subseteq TerminalKeys
<1> USE DEF IInv, Sound
<1>1. \A h \in Hashes : h # None
  BY NoneAssumption
<1>2. ASSUME NEW a \in Items(ready) \cup Items(delayed)
      PROVE  a \in Admitted /\ Key(a) \in TerminalKeys /\ live[Key(a)] # None
  <2>1. a \in Admitted
    BY <1>2, QueueTypes DEF TypeInv, TypeOK
  <2>2. Key(a) \in Keys /\ Hash(a) \in Hashes
    BY <2>1, ItemTypes
  <2>3. terminal[Key(a)] = Hash(a)
    BY <1>2 DEF AllExpected, Expected
  <2> QED BY <1>1, <2>1, <2>2, <2>3 DEF TerminalKeys, TerminalIsLive
<1>3. ASSUME NEW k \in InFlight
      PROVE  k \in TerminalKeys /\ live[k] # None
  <2>1. k \in Keys /\ Hash(inflight[k].ad) \in Hashes
    BY <1>3, FutureTypes, ItemTypes DEF TypeInv
  <2>2. terminal[k] = Hash(inflight[k].ad)
    BY <1>3 DEF AllExpected, FutureExpected
  <2> QED BY <1>1, <2>1, <2>2 DEF TerminalKeys, TerminalIsLive
<1>4. Outstanding \subseteq TerminalKeys
  BY <1>2, <1>3, KeysOfItems DEF Outstanding
<1> QED BY <1>2, <1>3, <1>4
(* Taking the head of ready. *)
LEMMA TakeReady ==
    ASSUME TypeOK, ready # <<>>, ready' = Tail(ready), OneEach(ready)
    PROVE  /\ Head(ready) \in Items(ready) /\ Head(ready) \in Admitted
           /\ Items(ready) = Items(ready') \cup {Head(ready)}
           /\ OneEach(ready') /\ Len(ready') = Len(ready) - 1
           /\ \A a \in Items(ready') : Key(a) # Key(Head(ready))
BY TakeHead DEF TypeOK

(* Admitting the first root. *)
LEMMA AdmitRootEffect ==
    ASSUME TypeOK, AdmitRoot, OneEach(ready)
    PROVE  \E a \in Admitted :
             /\ Items(ready') = Items(ready) \cup {a} /\ Len(ready') = Len(ready) + 1
             /\ Key(a) \notin ReadyKeys => OneEach(ready')
             /\ live[Key(a)] = None
             /\ live' = [live EXCEPT ![Key(a)] = Hash(a)]
             /\ terminal' = [terminal EXCEPT ![Key(a)] = Hash(a)]
<1> DEFINE list == <<Head(roots)>>
           a == AdmitAll(list, 0)[1]
<1>1. roots # <<>> /\ live[KeyOf[Head(roots)]] = None
  BY DEF AdmitRoot
<1>2. /\ list \in Seq(Payloads) /\ DOMAIN list = {1} /\ Len(list) = 1
      /\ list[1] = Head(roots) /\ KeysOf(list) = {KeyOf[Head(roots)]}
  BY <1>1, FirstRoot
<1>3. /\ live' = WithIdentities(live, list) /\ terminal' = WithIdentities(terminal, list)
      /\ ready' = ready \o AdmitAll(list, 0)
  BY DEF AdmitRoot
<1> HIDE DEF list
<1>4. /\ AdmitAll(list, 0) \in Seq(Admitted) /\ Len(AdmitAll(list, 0)) = 1
      /\ DOMAIN AdmitAll(list, 0) = {1}
      /\ Key(a) = KeyOf[Head(roots)] /\ Hash(a) = HashOf[Head(roots)]
  <2>1. 0 \in Nat /\ 1 \in DOMAIN list
    BY <1>2
  <2> QED BY <1>2, <2>1, AdmitAllItems
<1>5. a \in Admitted /\ Items(AdmitAll(list, 0)) = {a} /\ OneEach(AdmitAll(list, 0))
  BY <1>4, QueueTypes DEF Items, OneEach
<1>6. ASSUME NEW map \in [Keys -> Hashes \cup {None}]
      PROVE  WithIdentities(map, list) = [map EXCEPT ![Key(a)] = Hash(a)]
  <2>1. \A i, j \in DOMAIN list : KeyOf[list[i]] = KeyOf[list[j]] => i = j
    BY <1>2
  <2>2. /\ WithIdentities(map, list) \in [Keys -> Hashes \cup {None}]
        /\ WithIdentities(map, list)[Key(a)] = Hash(a)
        /\ \A k \in Keys : k # Key(a) => WithIdentities(map, list)[k] = map[k]
    BY <1>2, <1>4, <2>1, Identified
  <2> QED BY <1>5, <2>2, ItemTypes
<1>7. /\ live' = [live EXCEPT ![Key(a)] = Hash(a)]
      /\ terminal' = [terminal EXCEPT ![Key(a)] = Hash(a)]
  BY <1>3, <1>6 DEF TypeOK
<1> HIDE DEF a
<1>8. /\ Items(ready') = Items(ready) \cup {a} /\ Len(ready') = Len(ready) + 1
      /\ Key(a) \notin ReadyKeys => OneEach(ready')
  BY <1>3, <1>4, <1>5, JoinQueues, KeysOfItems DEF TypeOK
<1> QED BY <1>1, <1>4, <1>5, <1>7, <1>8

(* Promoting: the items only change queues. *)
LEMMA PromoteEffect ==
    ASSUME TypeOK, PromoteMatured, OneEach(ready), OneEach(delayed),
           ReadyKeys \cap DelayedKeys = {}
    PROVE  /\ Items(ready') \cup Items(delayed') = Items(ready) \cup Items(delayed)
           /\ OneEach(ready') /\ OneEach(delayed')
           /\ ReadyKeys' \cap DelayedKeys' = {}
           /\ Len(ready') + Len(delayed') = Len(ready) + Len(delayed)
<1> DEFINE front == Front(delayed, due)
           back == Back(delayed, due)
<1>1. ready' = ready \o front /\ delayed' = back
  BY Promotes
<1>2. /\ front \in Seq(Admitted) /\ Len(front) = due
      /\ back \in Seq(Admitted) /\ Len(back) = Len(delayed) - due
      /\ Items(delayed) = Items(front) \cup Items(back)
      /\ OneEach(front) /\ OneEach(back)
      /\ \A a \in Items(front), b \in Items(back) : Key(a) # Key(b)
  BY CutQueue DEF TypeOK
<1> HIDE DEF front, back
<1>3. \A a \in Items(ready), b \in Items(delayed) : Key(a) # Key(b)
  BY KeysOfItems
<1>4. /\ Items(ready') = Items(ready) \cup Items(front) /\ OneEach(ready')
      /\ Len(ready') = Len(ready) + Len(front)
  BY <1>1, <1>2, <1>3, JoinQueues DEF TypeOK
<1>5. \A a \in Items(ready'), b \in Items(delayed') : Key(a) # Key(b)
  BY <1>1, <1>2, <1>3, <1>4
<1>6. ReadyKeys' \cap DelayedKeys' = {}
  BY <1>5, KeysOfItems
<1>7. Len(ready') + Len(delayed') = Len(ready) + Len(delayed)
  <2>1. Len(ready) \in Nat /\ Len(delayed) \in Nat /\ due \in Int
    BY QueueTypes DEF TypeOK
  <2>2. Len(ready') = Len(ready) + due /\ Len(delayed') = Len(delayed) - due
    BY <1>1, <1>2, <1>4
  <2> QED BY <2>1, <2>2
<1> QED BY <1>1, <1>2, <1>4, <1>6, <1>7

(* Popping a future. *)
LEMMA PopEffect ==
    ASSUME TypeInv, NEW k \in Keys, Pop(k)
    PROVE  /\ k \in InFlight /\ InFlight' = InFlight \ {k}
           /\ \A j \in InFlight' : inflight'[j] = inflight[j]
           /\ inflight[k].ad \in Admitted
BY PopsDone, FutureTypes DEF InFlight, TypeInv

(* A split: the children come in, with identities of their own. *)
LEMMA SplitEffect ==
    ASSUME TypeInv, NEW k \in Keys, NEW exc,
           NEW children \in UNION {SplitsOf[p] : p \in Payloads},
           Split(k, exc, children), OneEach(ready)
    PROVE  LET new == Items(AdmitAll(children, inflight[k].ad.depth + 1)) IN
           /\ children \in Seq(Payloads) /\ children # <<>>
           /\ new \subseteq Admitted
           /\ Items(ready') = Items(ready) \cup new
           /\ Len(ready') = Len(ready) + Len(children)
           /\ KeysOf(children) = {Key(c) : c \in new}
           /\ Cardinality(KeysOf(children)) = Len(children)
           /\ IsFiniteSet(KeysOf(children))
           /\ KeysOf(children) \cap ReadyKeys = {} => OneEach(ready')
           /\ \A c \in new : /\ live[Key(c)] = None
                             /\ live'[Key(c)] = Hash(c) /\ terminal'[Key(c)] = Hash(c)
           /\ \A j \in Keys \ KeysOf(children) :
                live'[j] = live[j] /\ terminal'[j] = IF j = k THEN None ELSE terminal[j]
<1> DEFINE admitted == AdmitAll(children, inflight[k].ad.depth + 1)
           new == Items(admitted)
<1>1. /\ Pop(k) /\ Admissible(children) /\ children # <<>>
      /\ live' = WithIdentities(live, children)
      /\ terminal' = WithIdentities([terminal EXCEPT ![k] = None], children)
      /\ ready' = ready \o admitted
  BY DEF Split, ProperSplit, Replaced
<1>2. children \in Seq(Payloads)
  BY PayloadsAssumption
<1>3. inflight[k].ad.depth + 1 \in Nat
  BY <1>1, PopEffect, ItemTypes
<1>4. /\ admitted \in Seq(Admitted) /\ Len(admitted) = Len(children)
      /\ DOMAIN admitted = DOMAIN children
      /\ \A i \in DOMAIN children : /\ Key(admitted[i]) = KeyOf[children[i]]
                                    /\ Hash(admitted[i]) = HashOf[children[i]]
  BY <1>2, <1>3, AdmitAllItems
<1> HIDE DEF admitted
<1>5. \A i, j \in DOMAIN children : KeyOf[children[i]] = KeyOf[children[j]] => i = j
  BY <1>1 DEF Admissible, DistinctKeys
<1>6. IsFiniteSet(KeysOf(children)) /\ Cardinality(KeysOf(children)) = Len(children)
  BY <1>2, <1>5, ListLength
<1>7. KeysOf(children) = {Key(c) : c \in new}
  BY <1>4 DEF KeysOf, Items
<1>8. OneEach(admitted)
  BY <1>4, <1>5 DEF OneEach
<1>9. /\ new \subseteq Admitted /\ Items(ready') = Items(ready) \cup new
      /\ Len(ready') = Len(ready) + Len(children)
  <2>1. ready \in Seq(Admitted)
    BY DEF TypeInv, TypeOK
  <2>2. Items(admitted) \subseteq Admitted
    BY <1>4, QueueTypes
  <2> QED BY <1>1, <1>4, <2>1, <2>2, JoinQueues
<1>10. ASSUME KeysOf(children) \cap ReadyKeys = {}
       PROVE  OneEach(ready')
  <2>1. \A a \in Items(ready), c \in Items(admitted) : Key(a) # Key(c)
    BY <1>7, <1>10, KeysOfItems
  <2> QED BY <1>1, <1>4, <1>8, <2>1, JoinQueues DEF TypeInv, TypeOK
<1>11. ASSUME NEW map \in [Keys -> Hashes \cup {None}]
       PROVE  /\ \A i \in DOMAIN children :
                   WithIdentities(map, children)[KeyOf[children[i]]] = HashOf[children[i]]
              /\ \A j \in Keys \ KeysOf(children) :
                   WithIdentities(map, children)[j] = map[j]
  BY <1>2, <1>5, Identified
<1>12. /\ live \in [Keys -> Hashes \cup {None}]
       /\ [terminal EXCEPT ![k] = None] \in [Keys -> Hashes \cup {None}]
       /\ \A j \in Keys : [terminal EXCEPT ![k] = None][j] = IF j = k THEN None ELSE terminal[j]
  BY DEF TypeInv, TypeOK
<1>13. \A j \in Keys \ KeysOf(children) :
         live'[j] = live[j] /\ terminal'[j] = IF j = k THEN None ELSE terminal[j]
  BY <1>1, <1>11, <1>12
<1>14. \A c \in new : /\ live[Key(c)] = None
                      /\ live'[Key(c)] = Hash(c) /\ terminal'[Key(c)] = Hash(c)
  <2>1. ASSUME NEW i \in DOMAIN children
        PROVE  /\ live[KeyOf[children[i]]] = None
               /\ live'[KeyOf[children[i]]] = HashOf[children[i]]
               /\ terminal'[KeyOf[children[i]]] = HashOf[children[i]]
    BY <1>1, <1>11, <1>12 DEF Admissible
  <2> QED BY <1>4, <2>1 DEF Items
<1> QED BY <1>1, <1>2, <1>6, <1>7, <1>9, <1>10, <1>13, <1>14 DEF admitted
-----------------------------------------------------------------------------
(* The work invariant, action by action. *)

Work == TerminalIsLive /\ AllExpected /\ Apart /\ Covered /\ Balanced /\ RetryBudget

(* Sets of keys are finite. *)
LEMMA KeySetsFinite ==
    /\ IsFiniteSet(InFlight) /\ Cardinality(InFlight) \in Nat
    /\ IsFiniteSet(TerminalKeys) /\ Cardinality(TerminalKeys) \in Nat
<1>1. IsFiniteSet(Keys) /\ InFlight \in SUBSET Keys /\ TerminalKeys \in SUBSET Keys
  BY KeysAssumption DEF InFlight, TerminalKeys
<1> QED BY <1>1, FS_Subset, FS_CardinalityType

(* What is counted are numbers. *)
LEMMA Numbers ==
    ASSUME TypeOK
    PROVE  /\ Len(ready) \in Nat /\ Len(delayed) \in Nat
           /\ stats.attempts \in Nat /\ stats.committed \in Nat /\ stats.resumed \in Nat
           /\ stats.retries \in Nat /\ stats.splits \in Nat
           /\ Cardinality(InFlight) \in Nat /\ Cardinality(TerminalKeys) \in Nat
           /\ Ended \in Nat /\ Results \in Nat /\ Waiting \in Nat
<1>1. /\ Len(ready) \in Nat /\ Len(delayed) \in Nat
      /\ stats.attempts \in Nat /\ stats.committed \in Nat /\ stats.resumed \in Nat
      /\ stats.retries \in Nat /\ stats.splits \in Nat
  BY QueueTypes DEF TypeOK
<1>2. Ended \in Nat /\ Results \in Nat /\ Waiting \in Nat
  <2>1. Ended \in Nat
    BY <1>1 DEF Ended
  <2>2. Results \in Nat
    BY <1>1 DEF Results
  <2>3. Waiting \in Nat
    BY <1>1 DEF Waiting
  <2> QED BY <2>1, <2>2, <2>3
<1> QED BY <1>1, <1>2, KeySetsFinite

(* A step that keeps the balance: what is added on one side is added on the     *)
(* other.                                                                     *)
Adds(e, r, q, i) ==
    /\ stats'.attempts = stats.attempts + (e + i)
    /\ Ended' = Ended + e /\ Results' = Results + r /\ Waiting' = Waiting + q
    /\ Cardinality(InFlight') = Cardinality(InFlight) + i
    /\ Cardinality(TerminalKeys') = Cardinality(TerminalKeys) + (r + q + i)

LEMMA KeepsBalance ==
    ASSUME TypeOK, Balanced, NEW e \in Int, NEW r \in Int, NEW q \in Int, NEW i \in Int,
           Adds(e, r, q, i)
    PROVE  Balanced'
<1> USE DEF Adds
<1>1. /\ stats.attempts \in Nat /\ Ended \in Nat /\ Results \in Nat /\ Waiting \in Nat
      /\ Cardinality(InFlight) \in Nat /\ Cardinality(TerminalKeys) \in Nat
  BY Numbers
<1>2. stats'.attempts = Ended' + Cardinality(InFlight')
  <2>1. stats.attempts = Ended + Cardinality(InFlight)
    BY DEF Balanced
  <2> QED BY <1>1, <2>1
<1>3. Results' + Waiting' + Cardinality(InFlight') = Cardinality(TerminalKeys')
  <2>1. Results + Waiting + Cardinality(InFlight) = Cardinality(TerminalKeys)
    BY DEF Balanced
  <2> QED BY <1>1, <2>1
<1> QED BY <1>2, <1>3 DEF Balanced

(* What the invariant says while no error has occurred. *)
LEMMA SoundWork ==
    ASSUME IInv, error = "none"
    PROVE  Work /\ Drained /\ FoldedFromStore
BY DEF IInv, Sound, Work

LEMMA KeptAnew ==
    ASSUME ResetLocals
    PROVE  Work'
<1>1. /\ InFlight' = {} /\ TerminalKeys' = {} /\ ready' = <<>> /\ delayed' = <<>>
      /\ live' = Nothing /\ terminal' = Nothing /\ tries' = [k \in Keys |-> 0]
      /\ stats' = NoStats
  BY DEF ResetLocals, InFlight, TerminalKeys, Nothing
<1>2. Items(ready') = {} /\ Items(delayed') = {}
  BY <1>1 DEF Items
<1>3. ReadyKeys' = {} /\ DelayedKeys' = {}
  BY <1>2, KeysOfItems
<1>4. TerminalIsLive'
  BY <1>1 DEF TerminalIsLive, Nothing
<1>5. AllExpected'
  BY <1>1, <1>2 DEF AllExpected, Expected
<1>6. Apart'
  BY <1>1, <1>3 DEF Apart, OneEach
<1>7. Covered'
  BY <1>1 DEF Covered
<1>8. Balanced'
  BY <1>1, FS_EmptySet DEF Balanced, Ended, Results, Waiting, NoStats
<1>9. RetryBudget'
  BY <1>1, <1>3 DEF RetryBudget, Outstanding
<1> QED BY <1>4, <1>5, <1>6, <1>7, <1>8, <1>9 DEF Work

LEMMA KeptQuiet ==
    ASSUME IInv, error = "none", Quiet
    PROVE  Work'
<1> USE SoundWork DEF Work, Quiet
<1>1. Outstanding' = Outstanding /\ TerminalKeys' = TerminalKeys
  BY DEF Outstanding, ReadyKeys, DelayedKeys, TerminalKeys
<1>2. TerminalIsLive'
  BY DEF TerminalIsLive
<1>3. AllExpected'
  BY DEF AllExpected, Expected, FutureExpected
<1>4. Apart'
  BY DEF Apart, OneEach, ReadyKeys, DelayedKeys
<1>5. Covered'
  BY <1>1 DEF Covered, Settled
<1>6. Balanced'
  BY <1>1 DEF Balanced, Ended, Results, Waiting
<1>7. RetryBudget'
  BY <1>1 DEF RetryBudget
<1> QED BY <1>2, <1>3, <1>4, <1>5, <1>6, <1>7

LEMMA KeptAdmit ==
    ASSUME IInv, error = "none", AdmitRoot
    PROVE  Work'
<1>0. Work /\ TypeOK /\ error' = "none" /\ pc = "admit" /\ pc' = "admit"
      /\ UNCHANGED <<delayed, inflight, tries, stats, stored>>
  BY SoundWork DEF IInv, TypeInv, AdmitRoot
<1>1. PICK a \in Admitted :
        /\ Items(ready') = Items(ready) \cup {a} /\ Len(ready') = Len(ready) + 1
        /\ Key(a) \notin ReadyKeys => OneEach(ready')
        /\ live[Key(a)] = None
        /\ live' = [live EXCEPT ![Key(a)] = Hash(a)]
        /\ terminal' = [terminal EXCEPT ![Key(a)] = Hash(a)]
  BY <1>0, AdmitRootEffect DEF Work, Apart
<1>2. Key(a) \in Keys /\ Hash(a) # None
  BY ItemTypes, NoneAssumption
<1>3. Key(a) \notin TerminalKeys /\ Key(a) \notin Outstanding /\ tries[Key(a)] = 0
  BY <1>0, <1>1, <1>2, OutstandingLive DEF Work, TerminalIsLive, TerminalKeys
<1>4. TerminalKeys' = TerminalKeys \cup {Key(a)} /\ InFlight' = InFlight
  BY <1>0, <1>1, <1>2 DEF TerminalKeys, InFlight, TypeOK
<1>5. /\ ReadyKeys' = ReadyKeys \cup {Key(a)} /\ DelayedKeys' = DelayedKeys
      /\ Outstanding' = Outstanding \cup {Key(a)}
  BY <1>0, <1>1, <1>4, KeysOfItems DEF Outstanding
<1>6. TerminalIsLive'
  BY <1>0, <1>1, <1>2 DEF Work, TerminalIsLive, TypeOK
<1>7. AllExpected'
  <2>1. ASSUME NEW b \in Items(ready') \cup Items(delayed')
        PROVE  terminal'[Key(b)] = Hash(b)
    <3>1. CASE b = a
      BY <3>1, <1>0, <1>1, <1>2 DEF TypeOK
    <3>2. CASE b \in Items(ready) \cup Items(delayed)
      <4>1. Key(b) # Key(a) /\ Key(b) \in TerminalKeys
        BY <3>2, <1>3, OutstandingLive
      <4> QED BY <3>2, <4>1, <1>0, <1>1, <1>2
              DEF Work, AllExpected, Expected, TypeOK, TerminalKeys
    <3> QED BY <1>0, <1>1, <2>1, <3>1, <3>2
  <2>2. ASSUME NEW k \in InFlight'
        PROVE  FutureExpected(k)'
    <3>1. k \in InFlight /\ k # Key(a) /\ k \in Keys
      BY <1>3, <1>4, <2>2 DEF Outstanding, InFlight
    <3> QED BY <3>1, <1>0, <1>1, <1>2 DEF Work, AllExpected, FutureExpected, TypeOK
  <2> QED BY <2>1, <2>2 DEF AllExpected, Expected
<1>8. Apart'
  BY <1>0, <1>1, <1>3, <1>4, <1>5 DEF Work, Apart, Outstanding
<1>9. Covered'
  <2>1. ASSUME NEW k \in TerminalKeys, Settled(k)
        PROVE  Settled(k)'
    BY <1>0, <1>1, <1>2, <1>3, <2>1 DEF Settled, TerminalKeys, TypeOK
  <2> QED BY <1>0, <1>4, <1>5, <2>1 DEF Work, Covered
<1>10. Balanced'
  <2>1. Cardinality(TerminalKeys') = Cardinality(TerminalKeys) + 1
    BY <1>3, <1>4, KeySetsFinite, FS_AddElement
  <2>2. Len(ready') = Len(ready) + 1 /\ delayed' = delayed /\ stats' = stats
        /\ Cardinality(InFlight') = Cardinality(InFlight)
    BY <1>0, <1>1, <1>4
  <2>3. Waiting' = Waiting + 1
    BY <1>0, <2>2, Numbers DEF Waiting
  <2>4. Ended' = Ended /\ Results' = Results
    BY <2>2 DEF Ended, Results
  <2>5. Adds(0, 0, 1, 0)
    <3>1. /\ stats.attempts \in Nat /\ Ended \in Nat /\ Results \in Nat /\ Waiting \in Nat
          /\ Cardinality(InFlight) \in Nat /\ Cardinality(TerminalKeys) \in Nat
      BY <1>0, Numbers
    <3> QED BY <2>1, <2>2, <2>3, <2>4, <3>1 DEF Adds
  <2> QED BY <1>0, <2>5, KeepsBalance DEF Work
<1>11. RetryBudget'
  BY <1>0, <1>3, <1>5 DEF Work, RetryBudget
<1> QED BY <1>6, <1>7, <1>8, <1>9, <1>10, <1>11 DEF Work
LEMMA KeptResume ==
    ASSUME IInv, error = "none", Resume
    PROVE  /\ Work' /\ Outstanding' = Outstanding \ {Key(Head(ready))}
           /\ Key(Head(ready)) \in Outstanding /\ Settled(Key(Head(ready)))
<1> PICK a \in Admitted : a = Head(ready)
  BY SoundWork, TakeReady DEF IInv, TypeInv, Resume, CanDispatch, Work, Apart
<1>0. /\ Work /\ TypeInv /\ TypeOK /\ pc' = pc
      /\ UNCHANGED <<live, terminal, delayed, inflight, tries, stored>>
      /\ ready # <<>> /\ ready' = Tail(ready)
  BY SoundWork DEF IInv, TypeInv, Resume, CanDispatch, identity
<1>1. /\ Items(ready) = Items(ready') \cup {a} /\ a \in Admitted
      /\ OneEach(ready') /\ Len(ready') = Len(ready) - 1
      /\ \A b \in Items(ready') : Key(b) # Key(a)
  BY <1>0, TakeReady DEF Work, Apart
<1>2. Settled(Key(a))
  <2>1. stored[Key(a)] # None /\ HashOf[stored[Key(a)]] = Hash(a)
    BY DEF Resume, Has
  <2>2. terminal[Key(a)] = Hash(a)
    BY <1>0, <1>1 DEF Work, AllExpected, Expected
  <2> QED BY <2>1, <2>2 DEF Settled
<1>3. /\ ReadyKeys = ReadyKeys' \cup {Key(a)} /\ DelayedKeys' = DelayedKeys
      /\ InFlight' = InFlight /\ TerminalKeys' = TerminalKeys
  BY <1>0, <1>1, KeysOfItems DEF InFlight, TerminalKeys
<1>4. TerminalIsLive'
  BY <1>0 DEF Work, TerminalIsLive
<1>5. AllExpected'
  BY <1>0, <1>1, <1>3 DEF Work, AllExpected, Expected, FutureExpected
<1>6. Apart'
  BY <1>0, <1>1, <1>3 DEF Work, Apart
<1>7. Covered'
  BY <1>0, <1>2, <1>3 DEF Work, Covered, Outstanding, Settled
<1>8. Balanced'
  <2>1. Len(ready') = Len(ready) - 1 /\ delayed' = delayed
        /\ Cardinality(InFlight') = Cardinality(InFlight)
        /\ Cardinality(TerminalKeys') = Cardinality(TerminalKeys)
    BY <1>0, <1>1, <1>3
  <2>2. /\ stats'.resumed = stats.resumed + 1 /\ stats'.committed = stats.committed
        /\ stats'.attempts = stats.attempts
        /\ stats'.retries = stats.retries /\ stats'.splits = stats.splits
    BY <1>0, Counts, Numbers DEF Resume
  <2>3. Waiting' = Waiting - 1
    BY <1>0, <2>1, Numbers DEF Waiting
  <2>4. Results' = Results + 1
    <3>1. stats.committed \in Nat /\ stats.resumed \in Nat
      BY <1>0, Numbers
    <3> QED BY <2>2, <3>1 DEF Results
  <2>5. Ended' = Ended
    BY <2>2 DEF Ended
  <2>6. Adds(0, 1, -1, 0)
    <3>1. /\ stats.attempts \in Nat /\ Ended \in Nat /\ Results \in Nat /\ Waiting \in Nat
          /\ Cardinality(InFlight) \in Nat /\ Cardinality(TerminalKeys) \in Nat
      BY <1>0, Numbers
    <3> QED BY <2>1, <2>2, <2>3, <2>4, <2>5, <3>1 DEF Adds
  <2> QED BY <1>0, <2>6, KeepsBalance DEF Work
<1>9. RetryBudget'
  BY <1>0, <1>3 DEF Work, RetryBudget, Outstanding
<1>10. Outstanding' = Outstanding \ {Key(a)} /\ Key(a) \in Outstanding
  <2>1. Key(a) \notin ReadyKeys'
    BY <1>1, KeysOfItems
  <2> QED BY <1>0, <1>3, <2>1 DEF Work, Apart, Outstanding
<1> QED BY <1>2, <1>10, <1>4, <1>5, <1>6, <1>7, <1>8, <1>9 DEF Work

LEMMA KeptSubmit ==
    ASSUME IInv, error = "none", Submit
    PROVE  Work' /\ Outstanding' = Outstanding
<1> PICK a \in Admitted : a = Head(ready)
  BY SoundWork, TakeReady DEF IInv, TypeInv, Submit, CanDispatch, Work, Apart
<1>0. /\ Work /\ TypeInv /\ TypeOK /\ pc' = pc
      /\ UNCHANGED <<live, terminal, delayed, tries, stored>>
      /\ ready # <<>> /\ ready' = Tail(ready) /\ stored[Key(a)] = None
  BY SoundWork DEF IInv, TypeInv, Submit, CanDispatch, identity, Has
<1>1. /\ Items(ready) = Items(ready') \cup {a} /\ a \in Admitted /\ a \in Items(ready)
      /\ OneEach(ready') /\ Len(ready') = Len(ready) - 1
      /\ \A b \in Items(ready') : Key(b) # Key(a)
  BY <1>0, TakeReady DEF Work, Apart
<1>2. inflight' = [inflight EXCEPT ![Key(a)] = [ad |-> a, st |-> "queued"]]
  BY DEF Submit
<1>3. /\ Key(a) \in Keys /\ [ad |-> a, st |-> "queued"] # None
      /\ terminal[Key(a)] = Hash(a)
  BY <1>0, <1>1, ItemTypes, FuturesAssumption DEF Futures, Work, AllExpected, Expected
<1>4. /\ ReadyKeys = ReadyKeys' \cup {Key(a)} /\ Key(a) \notin ReadyKeys'
      /\ DelayedKeys' = DelayedKeys
      /\ InFlight' = InFlight \cup {Key(a)} /\ TerminalKeys' = TerminalKeys
  BY <1>0, <1>1, <1>2, <1>3, KeysOfItems DEF InFlight, TerminalKeys, TypeOK
<1>5. Outstanding' = Outstanding /\ Key(a) \notin InFlight
  BY <1>0, <1>4 DEF Outstanding, Work, Apart
<1>6. TerminalIsLive'
  BY <1>0 DEF Work, TerminalIsLive
<1>7. AllExpected'
  <2>1. FutureExpected(Key(a))'
    <3>1. inflight'[Key(a)] = [ad |-> a, st |-> "queued"]
      BY <1>0, <1>2, <1>3 DEF TypeOK
    <3>2. inflight'[Key(a)].ad = a
      BY <3>1
    <3> QED BY <1>0, <1>3, <3>2 DEF FutureExpected
  <2>2. ASSUME NEW k \in InFlight
        PROVE  FutureExpected(k)'
    BY <1>0, <1>2, <1>5, <2>2 DEF FutureExpected, TypeOK, Work, AllExpected, InFlight
  <2>3. Expected(ready)' /\ Expected(delayed)'
    BY <1>0, <1>1 DEF Work, AllExpected, Expected
  <2>4. \A k \in InFlight' : FutureExpected(k)'
    BY <1>4, <2>1, <2>2
  <2> QED BY <2>3, <2>4 DEF AllExpected
<1>8. Apart'
  BY <1>0, <1>1, <1>4, <1>5 DEF Work, Apart
<1>9. Covered'
  BY <1>0, <1>4, <1>5 DEF Work, Covered, Settled
<1>10. Balanced'
  <2>1. Len(ready') = Len(ready) - 1 /\ delayed' = delayed
        /\ Cardinality(InFlight') = Cardinality(InFlight) + 1
        /\ Cardinality(TerminalKeys') = Cardinality(TerminalKeys)
    BY <1>0, <1>1, <1>4, <1>5, KeySetsFinite, FS_AddElement
  <2>2. /\ stats'.resumed = stats.resumed /\ stats'.committed = stats.committed
        /\ stats'.attempts = stats.attempts + 1
        /\ stats'.retries = stats.retries /\ stats'.splits = stats.splits
    BY <1>0, Counts, Numbers DEF Submit, CountAttempt
  <2>3. Waiting' = Waiting - 1
    BY <1>0, <2>1, Numbers DEF Waiting
  <2>4. Ended' = Ended /\ Results' = Results
    BY <2>2 DEF Ended, Results
  <2>5. Adds(0, 0, -1, 1)
    <3>1. /\ stats.attempts \in Nat /\ Ended \in Nat /\ Results \in Nat /\ Waiting \in Nat
          /\ Cardinality(InFlight) \in Nat /\ Cardinality(TerminalKeys) \in Nat
      BY <1>0, Numbers
    <3> QED BY <2>1, <2>2, <2>3, <2>4, <3>1 DEF Adds
  <2> QED BY <1>0, <2>5, KeepsBalance DEF Work
<1>11. RetryBudget'
  BY <1>0, <1>5 DEF Work, RetryBudget, Submit
<1> QED BY <1>5, <1>6, <1>7, <1>8, <1>9, <1>10, <1>11 DEF Work

LEMMA KeptPromote ==
    ASSUME IInv, error = "none", SleepReturns \/ HandleDone
    PROVE  Work' /\ Outstanding' = Outstanding
<1>0. /\ Work /\ TypeInv /\ TypeOK /\ PromoteMatured /\ pc \in {"sleep", "handle"}
      /\ UNCHANGED <<live, terminal, inflight, tries, stats, stored>>
  BY SoundWork DEF IInv, TypeInv, SleepReturns, HandleDone, identity
<1>1. /\ Items(ready') \cup Items(delayed') = Items(ready) \cup Items(delayed)
      /\ OneEach(ready') /\ OneEach(delayed') /\ ReadyKeys' \cap DelayedKeys' = {}
      /\ Waiting' = Waiting
  BY <1>0, PromoteEffect DEF Work, Apart, Waiting
<1>2. /\ ReadyKeys' \cup DelayedKeys' = ReadyKeys \cup DelayedKeys
      /\ InFlight' = InFlight /\ TerminalKeys' = TerminalKeys
      /\ Outstanding' = Outstanding
  BY <1>0, <1>1, KeysOfItems DEF InFlight, TerminalKeys, Outstanding
<1>3. TerminalIsLive'
  BY <1>0 DEF Work, TerminalIsLive
<1>4. AllExpected'
  <2>1. ASSUME NEW b \in Items(ready') \cup Items(delayed')
        PROVE  terminal'[Key(b)] = Hash(b)
    BY <1>0, <1>1, <2>1 DEF Work, AllExpected, Expected
  <2> QED BY <1>0, <1>2, <2>1 DEF Work, AllExpected, Expected, FutureExpected
<1>5. Apart'
  BY <1>0, <1>1, <1>2 DEF Work, Apart
<1>6. Covered'
  BY <1>0, <1>2 DEF Work, Covered, Settled
<1>7. Balanced'
  BY <1>0, <1>1, <1>2 DEF Work, Balanced, Ended, Results
<1>8. RetryBudget'
  BY <1>0, <1>2, SoundWork DEF Work, RetryBudget
<1> QED BY <1>2, <1>3, <1>4, <1>5, <1>6, <1>7, <1>8 DEF Work

LEMMA KeptCommit ==
    ASSUME IInv, error = "none", NEW k \in Keys, Commit(k)
    PROVE  Work' /\ Outstanding' = Outstanding \ {k}
<1>0. /\ Work /\ TypeInv /\ TypeOK /\ Pop(k) /\ pc = "handle" /\ pc' = "handle"
      /\ UNCHANGED <<live, terminal, ready, delayed, tries, error>>
      /\ stored' = [stored EXCEPT ![k] = inflight[k].ad.p]
  BY SoundWork DEF IInv, TypeInv, Commit, CommitReturned, identity, queues, Pop, With
<1>1. /\ k \in InFlight /\ InFlight' = InFlight \ {k}
      /\ \A j \in InFlight' : inflight'[j] = inflight[j]
  BY <1>0, PopEffect
<1>2. TerminalKeys' = TerminalKeys /\ ReadyKeys' = ReadyKeys /\ DelayedKeys' = DelayedKeys
  BY <1>0 DEF TerminalKeys, ReadyKeys, DelayedKeys
<1>3. TerminalIsLive'
  BY <1>0 DEF Work, TerminalIsLive
<1>4. AllExpected'
  <2>1. ASSUME NEW j \in InFlight'
        PROVE  FutureExpected(j)'
    BY <1>0, <1>1, <2>1 DEF Work, AllExpected, FutureExpected, TypeOK, InFlight
  <2> QED BY <1>0, <2>1 DEF Work, AllExpected, Expected
<1>5. Apart'
  BY <1>0, <1>1, <1>2 DEF Work, Apart, OneEach
<1>6. Covered'
  <2>1. Settled(k)'
    <3>1. stored'[k] = inflight[k].ad.p /\ inflight[k].ad.p # None
      BY <1>0, <1>1, FutureTypes, NoneAssumption DEF TypeOK
    <3>2. terminal'[k] = HashOf[inflight[k].ad.p]
      BY <1>0, <1>1 DEF Work, AllExpected, FutureExpected, Hash
    <3> QED BY <3>1, <3>2 DEF Settled
  <2>2. ASSUME NEW j \in TerminalKeys, j # k
        PROVE  j \in Outstanding' \/ Settled(j)'
    BY <1>0, <1>1, <1>2, <2>2 DEF Work, Covered, Settled, Outstanding, TypeOK, TerminalKeys
  <2> QED BY <1>2, <2>1, <2>2 DEF Covered
<1>7. Balanced'
  <2>1. Waiting' = Waiting /\ Cardinality(TerminalKeys') = Cardinality(TerminalKeys)
        /\ Cardinality(InFlight') = Cardinality(InFlight) - 1
    BY <1>0, <1>1, <1>2, KeySetsFinite, FS_RemoveElement DEF Waiting
  <2>2. /\ stats'.resumed = stats.resumed /\ stats'.committed = stats.committed + 1
        /\ stats'.attempts = stats.attempts
        /\ stats'.retries = stats.retries /\ stats'.splits = stats.splits
    BY <1>0, Counts, Numbers DEF Commit, CommitReturned
  <2>3. Ended' = Ended + 1
    BY <1>0, <2>2, Numbers DEF Ended
  <2>4. Results' = Results + 1
    BY <1>0, <2>2, Numbers DEF Results
  <2>5. Adds(1, 1, 0, -1)
    <3>1. /\ stats.attempts \in Nat /\ Ended \in Nat /\ Results \in Nat /\ Waiting \in Nat
          /\ Cardinality(InFlight) \in Nat /\ Cardinality(TerminalKeys) \in Nat
      BY <1>0, Numbers
    <3> QED BY <2>1, <2>2, <2>3, <2>4, <3>1 DEF Adds
  <2> QED BY <1>0, <2>5, KeepsBalance DEF Work
<1>8. RetryBudget'
  BY <1>0, <1>1, <1>2 DEF Work, RetryBudget, Outstanding
<1>9. Outstanding' = Outstanding \ {k}
  BY <1>0, <1>1, <1>2 DEF Work, Apart, Outstanding
<1> QED BY <1>9, <1>3, <1>4, <1>5, <1>6, <1>7, <1>8 DEF Work

LEMMA KeptRetry ==
    ASSUME IInv, error = "none", NEW k \in Keys, NEW exc \in Exceptions,
           NEW i \in 1 .. Len(delayed) + 1, Retry(k, exc, i)
    PROVE  Work' /\ Outstanding' = Outstanding
<1> PICK a \in Admitted : a = inflight[k].ad
  BY PopEffect DEF IInv, Retry
<1>0. /\ Work /\ TypeInv /\ TypeOK /\ Pop(k) /\ pc' = pc
      /\ UNCHANGED <<live, terminal, ready, stored, error>>
      /\ tries' = [tries EXCEPT ![k] = @ + 1] /\ tries[k] + 1 < MaxAttempts
      /\ delayed' = Inserted(delayed, i, a)
  BY SoundWork DEF IInv, TypeInv, Retry, identity, WithinBudget
<1>1. /\ k \in InFlight /\ InFlight' = InFlight \ {k}
      /\ \A j \in InFlight' : inflight'[j] = inflight[j]
  BY <1>0, PopEffect
<1>2. Key(a) = k /\ terminal[k] = Hash(a)
  BY <1>0, <1>1 DEF Work, AllExpected, FutureExpected
<1>3. /\ Items(delayed') = Items(delayed) \cup {a} /\ Len(delayed') = Len(delayed) + 1
      /\ OneEach(delayed')
  <2>1. \A b \in Items(delayed) : Key(a) # Key(b)
    BY <1>0, <1>1, <1>2, KeysOfItems DEF Work, Apart
  <2> QED BY <1>0, <2>1, InsertItem DEF Work, Apart, TypeOK
<1>4. /\ DelayedKeys' = DelayedKeys \cup {k} /\ ReadyKeys' = ReadyKeys
      /\ TerminalKeys' = TerminalKeys /\ Outstanding' = Outstanding
  BY <1>0, <1>1, <1>2, <1>3, KeysOfItems DEF TerminalKeys, Outstanding
<1>5. TerminalIsLive'
  <2>1. live[k] # None
    BY <1>1, OutstandingLive
  <2> QED BY <1>0, <2>1 DEF Work, TerminalIsLive, TypeOK
<1>6. AllExpected'
  <2>1. ASSUME NEW j \in InFlight'
        PROVE  FutureExpected(j)'
    BY <1>0, <1>1, <2>1 DEF Work, AllExpected, FutureExpected
  <2> QED BY <1>0, <1>2, <1>3, <2>1 DEF Work, AllExpected, Expected
<1>7. Apart'
  BY <1>0, <1>1, <1>3, <1>4 DEF Work, Apart
<1>8. Covered'
  BY <1>0, <1>4 DEF Work, Covered, Settled
<1>9. Balanced'
  <2>1. Cardinality(TerminalKeys') = Cardinality(TerminalKeys)
        /\ Cardinality(InFlight') = Cardinality(InFlight) - 1
    BY <1>1, <1>4, KeySetsFinite, FS_RemoveElement
  <2>2. /\ stats'.resumed = stats.resumed /\ stats'.committed = stats.committed
        /\ stats'.attempts = stats.attempts
        /\ stats'.retries = stats.retries + 1 /\ stats'.splits = stats.splits
    <3>1. Count("retries") /\ TypeOK
      BY <1>0 DEF Retry
    <3>2. /\ stats'.resumed = stats.resumed + 0 /\ stats'.committed = stats.committed + 0
          /\ stats'.attempts = stats.attempts + 0
          /\ stats'.retries = stats.retries + 1 /\ stats'.splits = stats.splits + 0
      BY <3>1, Counts
    <3>3. /\ stats.attempts \in Nat /\ stats.committed \in Nat /\ stats.resumed \in Nat
          /\ stats.splits \in Nat
      BY <3>1, Numbers
    <3> QED BY <3>2, <3>3
  <2>3. Ended' = Ended + 1
    <3>1. stats.committed \in Nat /\ stats.retries \in Nat /\ stats.splits \in Nat
      BY <1>0, Numbers
    <3> QED BY <2>2, <3>1 DEF Ended
  <2>4. Results' = Results
    BY <2>2 DEF Results
  <2>5. Waiting' = Waiting + 1
    BY <1>0, <1>3, Numbers DEF Waiting
  <2>6. Adds(1, 0, 1, -1)
    <3>1. stats.attempts \in Nat /\ Results \in Nat /\ Cardinality(TerminalKeys) \in Nat
          /\ Cardinality(InFlight) \in Nat
      BY <1>0, Numbers
    <3> QED BY <2>1, <2>2, <2>3, <2>4, <2>5, <3>1 DEF Adds
  <2> QED BY <1>0, <2>6, KeepsBalance DEF Work
<1>10. RetryBudget'
  <2>1. tries'[k] < MaxAttempts /\ \A j \in Keys : j # k => tries'[j] = tries[j]
    BY <1>0 DEF TypeOK
  <2> QED BY <1>0, <1>4, <2>1, OutstandingLive DEF Work, RetryBudget, TerminalKeys
<1> QED BY <1>4, <1>5, <1>6, <1>7, <1>8, <1>9, <1>10 DEF Work

LEMMA KeptSplit ==
    ASSUME IInv, error = "none", NEW k \in Keys, NEW exc \in Exceptions,
           NEW children \in UNION {SplitsOf[p] : p \in Payloads}, Split(k, exc, children)
    PROVE  /\ Work' /\ KeysOf(children) \cap TerminalKeys = {}
           /\ Outstanding' = (Outstanding \ {k}) \cup KeysOf(children)
<1> DEFINE Born == KeysOf(children)
<1>0. /\ Work /\ TypeInv /\ TypeOK /\ Pop(k) /\ pc' = pc
      /\ UNCHANGED <<delayed, tries, stored, error>>
  BY SoundWork DEF IInv, TypeInv, Split, Pop
<1>1. /\ k \in InFlight /\ InFlight' = InFlight \ {k}
      /\ \A j \in InFlight' : inflight'[j] = inflight[j]
  BY <1>0, PopEffect
<1>2. PICK new \in SUBSET Admitted :
        /\ Items(ready') = Items(ready) \cup new
        /\ Len(ready') = Len(ready) + Len(children)
        /\ Born = {Key(c) : c \in new}
        /\ Cardinality(Born) = Len(children) /\ IsFiniteSet(Born) /\ Len(children) \in Nat
        /\ Born \cap ReadyKeys = {} => OneEach(ready')
        /\ \A c \in new : /\ live[Key(c)] = None
                          /\ live'[Key(c)] = Hash(c) /\ terminal'[Key(c)] = Hash(c)
        /\ \A j \in Keys \ Born :
             live'[j] = live[j] /\ terminal'[j] = IF j = k THEN None ELSE terminal[j]
  BY <1>0, SplitEffect, LenProperties DEF Work, Apart
<1> HIDE DEF Born
<1>3. Born \subseteq Keys /\ \A c \in new : Hash(c) \in Hashes /\ Hash(c) # None
  BY <1>2, ItemTypes, NoneAssumption
<1>4. ASSUME NEW j \in Born
      PROVE  /\ live[j] = None /\ j \notin TerminalKeys /\ j \notin Outstanding
             /\ j # k /\ tries[j] = 0
             /\ live'[j] = terminal'[j] /\ terminal'[j] # None
  <2>1. live[j] = None /\ j \in Keys /\ live'[j] = terminal'[j] /\ terminal'[j] # None
    BY <1>2, <1>3
  <2>2. j \notin TerminalKeys /\ tries[j] = 0
    BY <1>0, <2>1 DEF Work, TerminalIsLive, TerminalKeys
  <2>3. j \notin Outstanding /\ j # k
    BY <1>1, <2>2, OutstandingLive
  <2> QED BY <2>1, <2>2, <2>3
<1>5. k \in TerminalKeys /\ k \notin Born
  BY <1>1, <1>4, OutstandingLive
<1>6. TerminalKeys' = (TerminalKeys \ {k}) \cup Born
  BY <1>2, <1>3, <1>4, <1>5 DEF TerminalKeys
<1>7. /\ ReadyKeys' = ReadyKeys \cup Born /\ DelayedKeys' = DelayedKeys
      /\ Outstanding' \subseteq Outstanding \cup Born
      /\ Outstanding \ {k} \subseteq Outstanding' /\ Born \subseteq Outstanding'
  BY <1>0, <1>1, <1>2, KeysOfItems DEF Outstanding
<1>8. TerminalIsLive'
  <2>1. ASSUME NEW j \in Keys \ Born
        PROVE  (terminal'[j] # None => live'[j] = terminal'[j])
               /\ (live'[j] = None => tries'[j] = 0)
    BY <1>0, <1>2 DEF Work, TerminalIsLive
  <2> QED BY <1>4, <2>1 DEF TerminalIsLive
<1>9. AllExpected'
  <2>1. ASSUME NEW b \in Items(ready) \cup Items(delayed)
        PROVE  terminal'[Key(b)] = Hash(b)
    <3>1. Key(b) \in TerminalKeys /\ Key(b) \in Keys /\ Key(b) # k /\ Key(b) \notin Born
      BY <1>0, <1>1, <1>4, <2>1, OutstandingLive, KeysOfItems
         DEF Work, Apart, TerminalKeys, Outstanding
    <3> QED BY <1>0, <1>2, <2>1, <3>1 DEF Work, AllExpected, Expected
  <2>2. ASSUME NEW j \in InFlight'
        PROVE  FutureExpected(j)'
    <3>1. j \in Keys \ Born /\ j # k /\ j \in InFlight
      BY <1>1, <1>4, <2>2 DEF Outstanding, InFlight
    <3> QED BY <1>0, <1>1, <1>2, <2>2, <3>1 DEF Work, AllExpected, FutureExpected
  <2>3. \A b \in Items(ready') : terminal'[Key(b)] = Hash(b)
    BY <1>2, <2>1
  <2>4. \A b \in Items(delayed') : terminal'[Key(b)] = Hash(b)
    BY <1>0, <2>1
  <2> QED BY <2>2, <2>3, <2>4 DEF AllExpected, Expected
<1>10. Apart'
  <2>1. \A j \in Born : j \notin ReadyKeys /\ j \notin DelayedKeys /\ j \notin InFlight
    BY <1>4 DEF Outstanding
  <2>2. OneEach(ready') /\ OneEach(delayed')
    BY <1>0, <1>2, <2>1 DEF Work, Apart
  <2> QED BY <1>0, <1>1, <1>7, <2>1, <2>2 DEF Work, Apart
<1>11. Covered'
  <2>1. ASSUME NEW j \in TerminalKeys, j # k, j \notin Born, Settled(j)
        PROVE  Settled(j)'
    BY <1>0, <1>2, <2>1 DEF Settled, TerminalKeys
  <2>2. pc = "handle"
    BY <1>0 DEF Pop
  <2>3. ASSUME NEW j \in TerminalKeys'
        PROVE  j \in Outstanding' \/ Settled(j)'
    <3>1. CASE j \in Born
      BY <1>7, <3>1
    <3>2. CASE j \notin Born
      <4>1. j \in TerminalKeys /\ j # k
        BY <1>6, <2>3, <3>2
      <4>2. j \in Outstanding \/ Settled(j)
        BY <1>0, <2>2, <4>1 DEF Work, Covered
      <4> QED BY <1>7, <2>1, <3>2, <4>1, <4>2
    <3> QED BY <3>1, <3>2
  <2> QED BY <2>3 DEF Covered
<1>12. Balanced'
  <2>1. Cardinality(TerminalKeys') = Cardinality(TerminalKeys) + (Len(children) - 1)
    <3>1. IsFiniteSet(TerminalKeys \ {k})
          /\ Cardinality(TerminalKeys \ {k}) = Cardinality(TerminalKeys) - 1
      BY <1>5, KeySetsFinite, FS_RemoveElement
    <3>2. (TerminalKeys \ {k}) \cap Born = {}
      BY <1>4
    <3>3. Cardinality((TerminalKeys \ {k}) \cup Born)
            = Cardinality(TerminalKeys \ {k}) + Cardinality(Born)
      <4>1. Cardinality((TerminalKeys \ {k}) \cup Born)
              = Cardinality(TerminalKeys \ {k}) + Cardinality(Born) - Cardinality({})
        BY <1>2, <3>1, <3>2, FS_Union
      <4>2. Cardinality(TerminalKeys \ {k}) \in Nat /\ Cardinality(Born) \in Nat
        BY <1>2, <3>1, FS_CardinalityType
      <4> QED BY <4>1, <4>2, FS_EmptySet
    <3> QED BY <1>2, <1>6, <3>1, <3>3, KeySetsFinite
  <2>2. Cardinality(InFlight') = Cardinality(InFlight) - 1
    BY <1>1, KeySetsFinite, FS_RemoveElement
  <2>3. /\ stats'.resumed = stats.resumed /\ stats'.committed = stats.committed
        /\ stats'.attempts = stats.attempts
        /\ stats'.retries = stats.retries /\ stats'.splits = stats.splits + 1
    BY <1>0, Counts, Numbers DEF Split
  <2>4. Ended' = Ended + 1
    <3>1. stats.committed \in Nat /\ stats.retries \in Nat /\ stats.splits \in Nat
      BY <1>0, Numbers
    <3> QED BY <2>3, <3>1 DEF Ended
  <2>5. Results' = Results
    BY <2>3 DEF Results
  <2>6. Waiting' = Waiting + Len(children)
    <3>1. Len(ready) \in Nat /\ Len(delayed) \in Nat /\ Len(children) \in Nat
      BY <1>0, <1>2, Numbers
    <3> QED BY <1>0, <1>2, <3>1 DEF Waiting
  <2>7. Adds(1, 0, Len(children), -1)
    <3>1. stats.attempts \in Nat /\ Results \in Nat /\ Cardinality(TerminalKeys) \in Nat
          /\ Cardinality(InFlight) \in Nat /\ Len(children) \in Nat
      BY <1>0, <1>2, Numbers
    <3> QED BY <2>1, <2>2, <2>3, <2>4, <2>5, <2>6, <3>1 DEF Adds
  <2> QED BY <1>0, <1>2, <2>7, KeepsBalance DEF Work
<1>13. RetryBudget'
  BY <1>0, <1>4, <1>7 DEF Work, RetryBudget
<1>14. Outstanding' = (Outstanding \ {k}) \cup Born /\ Born \cap TerminalKeys = {}
  <2>1. k \notin Outstanding'
    BY <1>0, <1>1, <1>5, <1>7 DEF Work, Apart, Outstanding
  <2> QED BY <1>4, <1>7, <2>1
<1> QED BY <1>14, <1>8, <1>9, <1>10, <1>11, <1>12, <1>13 DEF Work, Born

LEMMA KeptClean ==
    ASSUME IInv, error = "none", Clean
    PROVE  Work'
<1>0. /\ Work /\ pc' = "cleaning" /\ ready = <<>> /\ delayed = <<>> /\ InFlight = {}
      /\ UNCHANGED <<live, terminal, ready, delayed, inflight, tries, stats, error>>
  BY SoundWork DEF Clean, Drained, identity, queues
<1>1. InFlight' = InFlight /\ TerminalKeys' = TerminalKeys /\ Outstanding' = Outstanding
  BY <1>0 DEF InFlight, TerminalKeys, Outstanding, ReadyKeys, DelayedKeys
<1>2. TerminalIsLive' /\ AllExpected' /\ Apart'
  BY <1>0, <1>1 DEF Work, TerminalIsLive, AllExpected, Expected, Apart, OneEach,
                    ReadyKeys, DelayedKeys
<1>3. Covered'
  BY <1>0 DEF Covered
<1>4. Balanced' /\ RetryBudget'
  BY <1>0, <1>1 DEF Work, Balanced, Ended, Results, Waiting, RetryBudget
<1> QED BY <1>2, <1>3, <1>4 DEF Work

(* Every step that ends without an error keeps the work invariant. *)
LEMMA WorkStep ==
    ASSUME IInv, [Next]_vars, error' = "none"
    PROVE  Work'
<1>1. Anew \/ (error = "none" /\ (Quiet \/ Moves))
  BY StepCases
<1>2. ASSUME error = "none", Moves
      PROVE  Work'
  BY <1>2, KeptAdmit, KeptResume, KeptSubmit, KeptPromote, KeptCommit, KeptRetry,
     KeptSplit, KeptClean DEF Moves, CommitSome, RetrySome
<1> QED BY <1>1, <1>2, KeptAnew, KeptQuiet DEF Anew

-----------------------------------------------------------------------------
(* The rest of the inductive invariant. *)

(* Results are stored under their own keys, by a commit that returns, raises  *)
(* or is cut off.                                                             *)
LEMMA StoreKeyedStep ==
    ASSUME IInv, [Next]_vars
    PROVE  StoreKeyed'
<1> USE DEF StoreKeyed, StoreContents
<1>1. stored \in StoreContents
  BY DEF IInv
<1>2. ASSUME NEW k \in InFlight, error = "none", stored' = With(k)
      PROVE  stored' \in StoreContents
  <2>1. inflight[k].ad.p \in Payloads /\ KeyOf[inflight[k].ad.p] = k
    BY <1>2, FutureTypes DEF IInv, TypeInv, Sound, AllExpected, FutureExpected, Key
  <2> QED BY <1>1, <1>2, <2>1 DEF With
<1>3. CASE CommitSome \/ RaiseSome
  <2>1. PICK k \in Keys : Pop(k) /\ stored' \in {stored, With(k)}
    BY <1>3 DEF CommitSome, Commit, CommitReturned, RaiseSome, CommitRaises, CommitRaised
  <2>2. k \in InFlight /\ error = "none"
    BY <2>1, PopEffect DEF IInv, Pop
  <2> QED BY <1>1, <1>2, <2>1, <2>2
<1>4. CASE Crash
  <2>1. ASSUME NEW k \in batch, pc = "handle", error = "none", stored' = With(k)
        PROVE  stored' \in StoreContents
    <3>1. k \in InFlight
      BY <2>1 DEF IInv, TypeInv, BatchIsDone, Finished
    <3> QED BY <1>2, <2>1, <3>1
  <2> QED BY <1>1, <1>4, <2>1 DEF Crash, HalfCommitted
<1>5. CASE Clean
  BY <1>1, <1>5 DEF Clean
<1>6. CASE PowerLoss
  BY <1>6 DEF PowerLoss
<1>7. CASE UNCHANGED stored
  BY <1>1, <1>7
<1>8. ASSUME \/ AdmitRoot \/ AdmitRootRaises \/ AdmissionDone
             \/ Resume \/ HasRaises \/ DispatchDone \/ WaitReturns \/ SleepReturns
             \/ SplitSome \/ RetrySome \/ FailSome \/ RouteSome
             \/ HandleDone \/ FatalExit \/ FoldSome \/ FoldRaises \/ Deliver
             \/ CleanupDone \/ Submit \/ SubmitRaises \/ ShutdownDone
             \/ Begin \/ QueueFails \/ Tick \/ UNCHANGED vars
             \/ \E k \in Keys : Worker(k)
      PROVE  UNCHANGED stored
  BY <1>8 DEF AdmitRoot, AdmitRootRaises, AdmissionDone, Resume, HasRaises, DispatchDone,
              WaitReturns, SleepReturns, SplitSome, Split, SplitCollides, RetrySome, Retry,
              FailSome, Fail, RouteSome, RouteRaises, HandleDone, FatalExit, FoldSome, Fold,
              FoldRaises, Deliver, CleanupDone, Submit, SubmitRaises, ShutdownDone, Begin,
              Start, QueueFails, Tick, vars, Worker, WorkerStarts, WorkerEnds,
              LeaveDispatch, outside
<1> QED BY <1>3, <1>4, <1>5, <1>6, <1>7, <1>8
        DEF Next, Coordinator, Thinking, Storing, Rest

(* Errors and folded results stay in their phases. *)
LEMMA PhaseErrorsStep ==
    ASSUME IInv, [Next]_vars
    PROVE  PhaseErrors'
<1> USE DEF PhaseErrors
<1>1. PhaseErrors
  BY DEF IInv
<1>2. CASE Begin \/ Crash \/ PowerLoss
  BY <1>2 DEF Begin, Start, Crash, PowerLoss, Killed, ResetLocals
<1>3. CASE \/ AdmitRoot \/ AdmissionDone \/ Resume \/ DispatchDone \/ Submit
           \/ WaitReturns \/ SleepReturns \/ Tick
  BY <1>1, <1>3 DEF AdmitRoot, AdmissionDone, Resume, DispatchDone, Submit, WaitReturns,
                    SleepReturns, Tick, Again, outside, Looping
<1>4. CASE AdmitRootRaises \/ HasRaises \/ SubmitRaises \/ FoldRaises
  BY <1>1, <1>4 DEF AdmitRootRaises, HasRaises, SubmitRaises, FoldRaises, LeaveDispatch,
                    Leave, outside
<1>5. CASE \/ CommitSome \/ RaiseSome \/ SplitSome \/ RetrySome \/ FailSome
           \/ RouteSome \/ HandleDone \/ FatalExit
  BY <1>1, <1>5 DEF CommitSome, Commit, CommitReturned, RaiseSome, CommitRaises,
                    CommitRaised, SplitSome, Split, SplitCollides, RetrySome, Retry,
                    FailSome, Fail, Abort, RouteSome, RouteRaises, HandleDone, FatalExit,
                    Pop, Leave, Again, outside
<1>6. CASE ShutdownDone \/ FoldSome \/ Deliver \/ Clean \/ CleanupDone
  BY <1>1, <1>6 DEF ShutdownDone, FoldSome, Fold, Deliver, Clean, CleanupDone, outside
<1>7. CASE (\E k \in Keys : Worker(k)) \/ QueueFails \/ UNCHANGED vars
  BY <1>1, <1>7 DEF Worker, WorkerStarts, WorkerEnds, QueueFails, vars, outside
<1> QED BY <1>2, <1>3, <1>4, <1>5, <1>6, <1>7
        DEF Next, Coordinator, Thinking, Storing, Rest

(* The loop ends when nothing is left, and never again holds anything.        *)
LEMMA DrainedStep ==
    ASSUME IInv, [Next]_vars, error' = "none"
    PROVE  Drained'
<1> DEFINE Empty == ready = <<>> /\ delayed = <<>> /\ InFlight = {}
           Admitting == delayed = <<>> /\ InFlight = {} /\ TerminalKeys \subseteq ReadyKeys
           Late == pc \in {"closing", "fold", "cleaning", "returned"}
<1> SUFFICES (Late' => Empty') /\ ((pc = "admit")' => Admitting')
  BY DEF Drained
<1>1. error = "none" => (Late => Empty) /\ (pc = "admit" => Admitting)
  BY DEF IInv, Sound, Drained
<1>2. CASE Anew
  BY <1>2 DEF Anew, ResetLocals, InFlight, Nothing, TerminalKeys
<1>3. CASE AdmitRoot
  <2>1. error = "none" /\ pc = "admit" /\ pc' = "admit"
        /\ delayed' = delayed /\ InFlight' = InFlight
    BY <1>3 DEF AdmitRoot, InFlight
  <2>2. PICK a \in Admitted : /\ Items(ready') = Items(ready) \cup {a}
                              /\ terminal' = [terminal EXCEPT ![Key(a)] = Hash(a)]
    BY <1>3, <2>1, AdmitRootEffect, SoundWork DEF IInv, TypeInv, Work, Apart
  <2>3. ReadyKeys' = ReadyKeys \cup {Key(a)}
    BY <2>2, KeysOfItems
  <2>4. TerminalKeys' \subseteq TerminalKeys \cup {Key(a)}
    BY <2>2 DEF TerminalKeys, IInv, TypeInv, TypeOK
  <2> QED BY <1>1, <2>1, <2>3, <2>4
<1>4. CASE AdmissionDone \/ SleepReturns \/ HandleDone
  BY <1>4 DEF AdmissionDone, SleepReturns, HandleDone, Again, InFlight
<1>5. CASE DispatchDone
  <2>1. InFlight = {} => Cardinality(InFlight) < MaxWorkers
    BY FS_EmptySet, BoundsAssumption
  <2>2. UNCHANGED <<ready, delayed, inflight>>
        /\ (pc' = "closing" => InFlight = {} /\ delayed = <<>>)
        /\ pc' \in {"wait", "sleep", "closing"} /\ ~CanDispatch
    BY <1>5 DEF DispatchDone, queues
  <2> QED BY <2>1, <2>2 DEF CanDispatch, InFlight
<1>6. CASE Quiet /\ pc' = pc
  <2>1. error = "none" /\ UNCHANGED <<ready, delayed, terminal>> /\ InFlight' = InFlight
    BY <1>6 DEF Quiet
  <2>2. ReadyKeys' = ReadyKeys /\ TerminalKeys' = TerminalKeys
    BY <2>1 DEF ReadyKeys, TerminalKeys
  <2> QED BY <1>1, <1>6, <2>1, <2>2
<1>7. CASE ShutdownDone \/ Deliver \/ Clean \/ CleanupDone
  <2>1. error = "none" /\ Late /\ pc' \in {"fold", "cleaning", "returned", "failed"}
        /\ UNCHANGED <<ready, delayed>> /\ (inflight' = inflight \/ InFlight' = {})
    BY <1>7 DEF ShutdownDone, Deliver, Clean, CleanupDone, queues, InFlight, Nothing
  <2> QED BY <1>1, <2>1 DEF InFlight
<1>8. CASE pc' \in {"dispatch", "handle"}
  BY <1>8
<1>9. ASSUME Begin \/ Crash \/ PowerLoss
      PROVE  Anew
  BY <1>9 DEF Begin, Start, Crash, PowerLoss, Killed, Anew
<1>10. ASSUME (\E k \in Keys : Worker(k)) \/ QueueFails
       PROVE  Quiet /\ pc' = pc
  BY <1>10, WorkersProgress DEF Quiet, IInv, TypeInv, identity, queues
<1>11. ASSUME FoldSome \/ Tick \/ UNCHANGED vars
       PROVE  Quiet /\ pc' = pc
  BY <1>11 DEF FoldSome, Fold, Tick, vars, Quiet, InFlight, Looping, identity, queues
<1>12. ASSUME \/ Resume \/ Submit \/ WaitReturns \/ CommitSome \/ RetrySome
              \/ SplitSome \/ FailSome
       PROVE  pc' \in {"dispatch", "handle"} \/ error' # "none"
  BY <1>12 DEF Resume, Submit, WaitReturns, CommitSome, Commit, CommitReturned, Pop,
               RetrySome, Retry, SplitSome, Split, SplitCollides, Leave, FailSome, Fail
<1>13. ASSUME \/ AdmitRootRaises \/ HasRaises \/ SubmitRaises \/ RaiseSome
              \/ RouteSome \/ FatalExit \/ FoldRaises
       PROVE  error' # "none"
  BY <1>13 DEF AdmitRootRaises, HasRaises, SubmitRaises, LeaveDispatch, Leave, RaiseSome,
               CommitRaises, CommitRaised, RouteSome, RouteRaises, FatalExit, FoldRaises
<1> QED BY <1>2, <1>3, <1>4, <1>5, <1>6, <1>7, <1>8, <1>9, <1>10, <1>11, <1>12, <1>13
        DEF Next, Coordinator, Thinking, Storing, Rest

(* What is folded is taken from the store.                                    *)
LEMMA FoldedFromStoreStep ==
    ASSUME IInv, [Next]_vars, error' = "none"
    PROVE  FoldedFromStore'
<1> SUFFICES ASSUME pc' = "fold", NEW i \in DOMAIN folded'
             PROVE  KeyOf[folded'[i]] \in TerminalKeys'
                    /\ folded'[i] = stored'[KeyOf[folded'[i]]]
  BY DEF FoldedFromStore
<1>1. CASE ShutdownDone
  BY <1>1 DEF ShutdownDone, outside, IInv, PhaseErrors
<1>2. CASE pc = "fold" /\ UNCHANGED <<terminal, folded, stored, error>>
  BY <1>2, SoundWork DEF FoldedFromStore, TerminalKeys
<1>3. CASE FoldSome
  <2>1. PICK k \in Keys : Fold(k)
    BY <1>3 DEF FoldSome
  <2>2. /\ pc = "fold" /\ error = "none" /\ stored' = stored /\ TerminalKeys' = TerminalKeys
        /\ k \in TerminalKeys /\ stored[k] # None
        /\ folded' = Append(folded, stored[k])
    BY <2>1 DEF Fold, identity, Unfolded, TerminalKeys
  <2>3. KeyOf[stored[k]] = k /\ stored[k] \in Payloads /\ folded \in Seq(Payloads)
    BY <2>2 DEF IInv, StoreKeyed, StoreContents, TypeInv, TypeOK
  <2>4. /\ Len(folded) \in Nat /\ DOMAIN folded = 1 .. Len(folded)
        /\ DOMAIN folded' = 1 .. Len(folded) + 1
        /\ \A j \in 1 .. Len(folded) : folded'[j] = folded[j]
        /\ folded'[Len(folded) + 1] = stored[k]
    BY <2>2, <2>3, AppendProperties, LenProperties
  <2>5. CASE i = Len(folded) + 1
    BY <2>2, <2>3, <2>4, <2>5
  <2>6. CASE i \in 1 .. Len(folded)
    BY <2>2, <2>4, <2>6, SoundWork DEF FoldedFromStore
  <2> QED BY <2>4, <2>5, <2>6
<1>4. ASSUME (\E k \in Keys : Worker(k)) \/ QueueFails \/ UNCHANGED vars
      PROVE  pc' = pc /\ UNCHANGED <<terminal, folded, stored, error>>
  BY <1>4 DEF Worker, WorkerStarts, WorkerEnds, QueueFails, vars, identity, outside
<1>5. ASSUME \/ Begin \/ Crash \/ PowerLoss \/ AdmitRoot \/ AdmitRootRaises
             \/ AdmissionDone \/ Resume \/ HasRaises \/ DispatchDone
             \/ WaitReturns \/ SleepReturns \/ HandleDone \/ FatalExit \/ Tick
             \/ FoldRaises \/ Deliver \/ Clean \/ CleanupDone \/ Submit \/ SubmitRaises
      PROVE  FALSE
  BY <1>5 DEF Begin, Start, Crash, PowerLoss, Killed, AdmitRoot, AdmitRootRaises,
              AdmissionDone, Resume, HasRaises, DispatchDone, WaitReturns, SleepReturns,
              HandleDone, FatalExit, Tick, FoldRaises, Deliver, Clean, CleanupDone, Submit,
              SubmitRaises, Again, LeaveDispatch, Leave, Looping
<1>6. ASSUME SplitSome \/ RetrySome \/ FailSome \/ RouteSome \/ CommitSome \/ RaiseSome
      PROVE  FALSE
  BY <1>6 DEF SplitSome, Split, SplitCollides, RetrySome, Retry, FailSome, Fail,
              RouteSome, RouteRaises, CommitSome, Commit, CommitReturned, RaiseSome,
              CommitRaises, CommitRaised, Pop, Leave
<1> QED BY <1>1, <1>2, <1>3, <1>4, <1>5, <1>6
        DEF Next, Coordinator, Thinking, Storing, Rest

LEMMA InvInit == Init => IInv
<1> SUFFICES ASSUME Init
             PROVE  IInv
  OBVIOUS
<1>1. /\ pc = "idle" /\ error = "none" /\ ready = <<>> /\ delayed = <<>> /\ folded = <<>>
      /\ live = Nothing /\ terminal = Nothing /\ inflight = Nothing
      /\ tries = [k \in Keys |-> 0] /\ stats = NoStats /\ stored = Nothing
  BY DEF Init, Fresh
<1>2. InFlight = {} /\ TerminalKeys = {} /\ Items(ready) = {} /\ Items(delayed) = {}
  BY <1>1 DEF InFlight, TerminalKeys, Nothing, Items
<1>3. ReadyKeys = {} /\ DelayedKeys = {}
  BY <1>2, KeysOfItems
<1>4. TerminalIsLive /\ AllExpected /\ Apart /\ Covered /\ Drained /\ FoldedFromStore
  BY <1>1, <1>2, <1>3 DEF TerminalIsLive, Nothing, AllExpected, Expected, Apart, OneEach,
                          Covered, Drained, FoldedFromStore
<1>5. Balanced
  BY <1>1, <1>2, FS_EmptySet DEF Balanced, Ended, Results, Waiting, NoStats
<1>6. StoreKeyed /\ PhaseErrors /\ RetryBudget
  BY <1>1, <1>2, <1>3 DEF StoreKeyed, StoreContents, Nothing, PhaseErrors, RetryBudget,
                          Outstanding
<1> QED BY <1>4, <1>5, <1>6, InitType DEF IInv, Sound

LEMMA InvStep ==
    ASSUME IInv, [Next]_vars
    PROVE  IInv'
<1>1. TypeInv' /\ StoreKeyed' /\ PhaseErrors'
  BY TypeStep, StoreKeyedStep, PhaseErrorsStep DEF IInv
<1>2. CASE error' = "none"
  BY <1>1, <1>2, WorkStep, DrainedStep, FoldedFromStoreStep DEF Work, IInv, Sound
<1>3. CASE error' # "none"
  BY <1>1, <1>3 DEF IInv, Sound, RetryBudget
<1> QED BY <1>2, <1>3

(* The inductive invariant: what the loop's locals have to do with each other  *)
(* and with the store.                                                        *)
THEOREM Invariant == Spec => []IInv
BY InvInit, InvStep, PTL DEF Spec

-----------------------------------------------------------------------------
(* What a run promises, for any items, splitters, failures and restarts. *)

(* No item is lost or held twice, and the fold finds every result: the main    *)
(* loop of run_checkpointed.                                                  *)
THEOREM NothingLostHolds == Spec => []NothingLost
<1>1. ASSUME IInv
      PROVE  NothingLost
  <2> SUFFICES ASSUME error = "none", pc \notin {"idle", "cleaning", "returned", "failed"}
               PROVE  NothingLost!2
    BY DEF NothingLost
  <2>1. Work /\ Drained /\ TypeOK
    BY <1>1, SoundWork DEF IInv, TypeInv
  <2>2. Outstanding \subseteq TerminalKeys
    BY <1>1, OutstandingLive
  <2>3. \A k \in TerminalKeys : k \in Outstanding \/ Settled(k)
    BY <2>1 DEF Work, Covered
  <2>4. pc = "fold" => Outstanding = {}
    BY <2>1 DEF Drained, Outstanding, ReadyKeys, DelayedKeys
  <2>5. Cardinality(ReadyKeys) = Len(ready) /\ Cardinality(DelayedKeys) = Len(delayed)
    BY <2>1, QueueLength DEF Work, Apart, TypeOK, ReadyKeys, DelayedKeys
  <2>6. \A k \in InFlight : Key(inflight[k].ad) = k /\ stored[k] = None
    BY <2>1 DEF Work, AllExpected, FutureExpected
  <2> QED BY <2>1, <2>2, <2>3, <2>4, <2>5, <2>6 DEF Work, Apart
<1> QED BY <1>1, Invariant, PTL

(* The counters of CheckpointResult add up (its attempts, committed, resumed,  *)
(* retries and splits).                                                       *)
THEOREM AccountingHolds == Spec => []Accounting
<1>1. ASSUME IInv
      PROVE  Accounting
  <2> SUFFICES ASSUME error = "none", pc \notin {"idle", "failed"}
               PROVE  Accounting!2
    BY DEF Accounting
  <2>1. Balanced /\ Drained /\ TypeOK
    BY <1>1, SoundWork DEF IInv, TypeInv, Work
  <2>2. stats.attempts = stats.committed + stats.retries + stats.splits
                           + Cardinality(InFlight)
    BY <2>1 DEF Balanced, Ended
  <2>3. ASSUME pc \in {"fold", "cleaning", "returned"}
        PROVE  stats.committed + stats.resumed = Cardinality(TerminalKeys)
    <3>1. Waiting = 0 /\ Cardinality(InFlight) = 0
      BY <2>1, <2>3, FS_EmptySet DEF Drained, Waiting
    <3>2. Results = Cardinality(TerminalKeys)
      BY <2>1, <3>1, Numbers DEF Balanced
    <3> QED BY <3>2 DEF Results
  <2> QED BY <2>2, <2>3
<1> QED BY <1>1, Invariant, PTL

(* What is outstanding has not used its attempts up (_handle_failure's test    *)
(* of transient_attempts against max_attempts).                               *)
THEOREM RetryBudgetHolds == Spec => []RetryBudget
<1>1. IInv => RetryBudget
  BY DEF IInv
<1> QED BY <1>1, Invariant, PTL

(* The step is one that may remove results.                                    *)
Removes == pc = "cleaning" \/ PowerLoss

(* A stored result is kept by every step, and its key not executed again.      *)
LEMMA CommittedStep ==
    ASSUME IInv, [Next]_vars, NEW k \in Keys, stored[k] # None
    PROVE  /\ stored'[k] = stored[k] \/ Removes
           /\ ~(inflight[k] = None /\ inflight'[k] # None)
<1>1. ASSUME NEW j \in InFlight, error = "none", stored' = With(j)
      PROVE  stored'[k] = stored[k]
  <2>1. stored[j] = None
    BY <1>1, SoundWork DEF Work, AllExpected, FutureExpected
  <2> QED BY <1>1, <2>1 DEF With, IInv, TypeInv, TypeOK
<1>2. CASE CommitSome \/ RaiseSome
  <2>1. PICK j \in Keys : Pop(j) /\ stored' \in {stored, With(j)}
    BY <1>2 DEF CommitSome, Commit, CommitReturned, RaiseSome, CommitRaises, CommitRaised
  <2>2. j \in InFlight /\ error = "none" /\ InFlight' = InFlight \ {j}
    BY <2>1, PopEffect DEF IInv, Pop
  <2> QED BY <1>1, <2>1, <2>2 DEF InFlight
<1>3. CASE Crash
  <2>1. ASSUME NEW j \in batch, pc = "handle", error = "none", stored' = With(j)
        PROVE  stored'[k] = stored[k]
    <3>1. j \in InFlight
      BY <2>1 DEF IInv, TypeInv, BatchIsDone, Finished
    <3> QED BY <1>1, <2>1, <3>1
  <2> QED BY <1>3, <2>1 DEF Crash, HalfCommitted, Killed, ResetLocals, Nothing
<1>4. CASE Submit
  <2>1. Head(ready) \in Admitted /\ Key(Head(ready)) # k /\ stored' = stored
    <3>1. stored[Key(Head(ready))] = None /\ ready # <<>>
      BY <1>4 DEF Submit, Has, CanDispatch
    <3> QED BY <1>4, <3>1, TakeHead DEF Submit, IInv, TypeInv, TypeOK
  <2> QED BY <1>4, <2>1, ItemTypes DEF Submit, IInv, TypeInv, TypeOK
<1>5. CASE Clean \/ PowerLoss
  BY <1>5 DEF Clean, PowerLoss, Killed, ResetLocals, Nothing, Removes
<1>6. CASE SplitSome \/ RetrySome \/ FailSome \/ RouteSome
  <2>1. PICK j \in Keys : Pop(j) /\ stored' = stored
    BY <1>6 DEF SplitSome, Split, SplitCollides, RetrySome, Retry, FailSome, Fail,
                RouteSome, RouteRaises, outside
  <2> QED BY <2>1, PopsDone DEF IInv
<1>7. CASE (\E j \in Keys : Worker(j)) \/ QueueFails
  BY <1>7, WorkersProgress DEF IInv, TypeInv, InFlight
<1>8. CASE Begin \/ ShutdownDone \/ FatalExit
  BY <1>8 DEF Begin, Start, ResetLocals, Nothing, ShutdownDone, FatalExit
<1>9. CASE \/ AdmitRoot \/ AdmitRootRaises \/ AdmissionDone
           \/ Resume \/ HasRaises \/ SubmitRaises \/ DispatchDone \/ WaitReturns
           \/ SleepReturns \/ HandleDone \/ FoldSome \/ FoldRaises \/ Deliver
           \/ CleanupDone \/ Tick \/ UNCHANGED vars
  BY <1>9 DEF AdmitRoot, AdmitRootRaises, AdmissionDone, Resume, HasRaises, SubmitRaises,
              DispatchDone, WaitReturns, SleepReturns, HandleDone, FoldSome, Fold,
              FoldRaises, Deliver, CleanupDone, Tick, vars, LeaveDispatch, queues
<1> QED BY <1>2, <1>3, <1>4, <1>5, <1>6, <1>7, <1>8, <1>9
        DEF Next, Coordinator, Thinking, Storing, Rest

(* What is committed stays committed, and is never executed again: store.has   *)
(* before submit, and no overwriting commit.                                   *)
THEOREM CommittedForGoodHolds == Spec => CommittedForGood
<1>1. ASSUME IInv, [Next]_vars
      PROVE  [ \A k \in Keys : stored[k] # None =>
                 /\ stored'[k] = stored[k] \/ pc = "cleaning" \/ PowerLoss
                 /\ ~(inflight[k] = None /\ inflight'[k] # None) ]_vars
  BY <1>1, CommittedStep DEF Removes
<1> QED BY <1>1, Invariant, PTL DEF Spec, CommittedForGood
=============================================================================
