-------------------------------- MODULE Engine ---------------------------------
(***************************************************************************)
(* run_checkpointed (engine.py): the coordinator that admits work items,    *)
(* dispatches them to a thread pool, commits results, retries transient     *)
(* failures after a delay, replaces items by smaller ones, and folds the    *)
(* committed results in key order.  The process may be killed at any step   *)
(* and the job run again on the same store.                                 *)
(*                                                                         *)
(* The store is the atomic map that ManifestStore refines to: key -> the     *)
(* payload whose result is committed.  Time appears as an order: delayed is  *)
(* sorted by ready_at and its first "due" items have matured.  A worker's    *)
(* exception is reduced to how the callbacks classify it.                    *)
(***************************************************************************)
EXTENDS Integers, Sequences, FiniteSets

CONSTANTS
    Payloads,         \* work item payloads
    Keys,             \* content keys, compared with < when results are folded
    Hashes,           \* full payload hashes
    KeyOf, HashOf,    \* content_key_fn, as two functions of the payload
    SizeOf,           \* split_size_fn; 0 means no meaningful size
    SplitsOf,         \* the child sequences split_policy.split may return
    RootLists,        \* item sequences a run may be started with
    MaxWorkers,       \* max(1, int(concurrency))
    MaxAttempts,      \* retry.max_attempts
    MaxSplitDepth,    \* max_split_depth
    HasSplitPolicy,   \* whether a split_policy is given
    CleanupOnSuccess, \* cleanup_on_success
    Exceptions,       \* how callbacks classify what an executor may raise
    Faults,           \* whether callbacks and store.commit may raise
    PowerLossOn,      \* power may fail, not only the process
    MaxRuns,          \* bound: how often the job is started
    UnitsOf,          \* the units of work a payload stands for
    Hung,             \* payloads whose execution may never end
    None              \* sentinel: no payload, no hash, nothing in flight

ExceptionKinds == [oom : BOOLEAN, split : BOOLEAN, transient : BOOLEAN,
                   badRetryAfter : BOOLEAN]

ASSUME KeysAssumption == Keys \subseteq Int /\ IsFiniteSet(Keys)
ASSUME PayloadsAssumption ==
    /\ KeyOf \in [Payloads -> Keys] /\ HashOf \in [Payloads -> Hashes]
    /\ SizeOf \in [Payloads -> Nat]
    /\ SplitsOf \in [Payloads -> SUBSET Seq(Payloads)]
    /\ RootLists \subseteq Seq(Payloads)
    /\ \A p \in Payloads : SplitsOf[p] # {}
    /\ Hung \subseteq Payloads
ASSUME BoundsAssumption ==
    /\ MaxWorkers \in Nat \ {0} /\ MaxAttempts \in Nat
    /\ MaxSplitDepth \in Int /\ MaxRuns \in Nat
ASSUME FlagsAssumption ==
    /\ {HasSplitPolicy, CleanupOnSuccess, Faults, PowerLossOn} \subseteq BOOLEAN
    /\ Exceptions \subseteq ExceptionKinds
(* Units: equal identities stand for the same work, and acceptable children   *)
(* are a disjoint and exhaustive partition of their parent.                   *)
DistinctKeys(payloads) ==
    \A i, j \in DOMAIN payloads : KeyOf[payloads[i]] = KeyOf[payloads[j]] => i = j
ASSUME UnitsAssumption ==
    /\ \A p, q \in Payloads :
         KeyOf[p] = KeyOf[q] /\ HashOf[p] = HashOf[q] => UnitsOf[p] = UnitsOf[q]
    /\ \A p \in Payloads : \A children \in SplitsOf[p] :
         children # <<>> /\ DistinctKeys(children) =>
           /\ UNION {UnitsOf[children[i]] : i \in DOMAIN children} = UnitsOf[p]
           /\ \A i, j \in DOMAIN children :
                i # j => UnitsOf[children[i]] \cap UnitsOf[children[j]] = {}
ASSUME NoneAssumption == None \notin Payloads \cup Hashes

(* _Admitted: an item, its identity given by KeyOf and HashOf, and its depth. *)
Admitted == [p : Payloads, depth : Nat]
Key(ad) == KeyOf[ad.p]
Hash(ad) == HashOf[ad.p]

(* A future: the item it runs, and how far its worker has come. *)
Futures == [ad : Admitted, st : {"queued", "running", "ok", "raised"}]
ASSUME FuturesAssumption == None \notin Futures

VARIABLES
    pc,        \* where the coordinator is
    roots,     \* items not yet admitted
    live,      \* live_map: every key admitted in this run -> its hash
    ready,     \* deque of admitted items
    delayed,   \* heap of items waiting for their retry, sorted by ready_at
    due,       \* how many items at the head of delayed have matured
    inflight,  \* key -> its future, or None
    batch,     \* keys of the done futures wait() returned, not handled yet
    terminal,  \* terminal_hash: the keys to be folded -> their hash
    tries,     \* transient_attempts
    error,     \* "none", "fatal" (routed) or "raised" (left the loop)
    stats,     \* the counters of CheckpointResult
    folded,    \* the results folded so far, by the payload they come from
    stored,    \* the store: key -> payload whose result is committed
    job,       \* history: the items this run was started with
    runs       \* how many runs were started

vars == <<pc, roots, live, ready, delayed, due, inflight, batch, terminal,
          tries, error, stats, folded, stored, job, runs>>

queues == <<ready, delayed, due>>
identity == <<live, terminal>>
history == <<job, runs>>
outside == <<roots, folded, job, runs>>

Phases == {"idle", "admit", "dispatch", "wait", "handle", "sleep", "closing",
           "fold", "cleaning", "returned", "failed"}
Looping == {"dispatch", "wait", "handle", "sleep"}

TypeOK ==
    /\ pc \in Phases
    /\ roots \in Seq(Payloads) /\ job \in Seq(Payloads)
    /\ live \in [Keys -> Hashes \cup {None}]
    /\ ready \in Seq(Admitted) /\ delayed \in Seq(Admitted)
    /\ due \in 0 .. Len(delayed)
    /\ inflight \in [Keys -> Futures \cup {None}]
    /\ batch \subseteq Keys
    /\ terminal \in [Keys -> Hashes \cup {None}]
    /\ tries \in [Keys -> Nat]
    /\ error \in {"none", "fatal", "raised"}
    /\ stats \in [attempts : Nat, committed : Nat, resumed : Nat,
                  retries : Nat, splits : Nat]
    /\ folded \in Seq(Payloads)
    /\ stored \in [Keys -> Payloads \cup {None}]
    /\ runs \in Nat

(* What a store may hold: for each key the result of a payload with this key. *)
StoreContents ==
    {content \in [Keys -> Payloads \cup {None}] :
        \A k \in Keys : content[k] # None => KeyOf[content[k]] = k}

NoStats == [attempts |-> 0, committed |-> 0, resumed |-> 0, retries |-> 0,
            splits |-> 0]
Nothing == [k \in Keys |-> None]

(* The local variables of a run that has not begun. *)
Fresh ==
    /\ live = Nothing /\ ready = <<>> /\ delayed = <<>> /\ due = 0
    /\ inflight = Nothing /\ batch = {} /\ terminal = Nothing
    /\ tries = [k \in Keys |-> 0] /\ error = "none" /\ stats = NoStats
    /\ folded = <<>>

ResetLocals ==
    /\ live' = Nothing /\ ready' = <<>> /\ delayed' = <<>> /\ due' = 0
    /\ inflight' = Nothing /\ batch' = {} /\ terminal' = Nothing
    /\ tries' = [k \in Keys |-> 0] /\ error' = "none" /\ stats' = NoStats
    /\ folded' = <<>>

Init ==
    /\ pc = "idle" /\ roots = <<>> /\ job = <<>> /\ runs = 0
    /\ stored = Nothing
    /\ Fresh

-----------------------------------------------------------------------------
(* Helpers. *)

Count(field) == stats' = [stats EXCEPT ![field] = @ + 1]

InFlight == {k \in Keys : inflight[k] # None}
Finished == {k \in InFlight : inflight[k].st \in {"ok", "raised"}}

TerminalKeys == {k \in Keys : terminal[k] # None}

(* A mutant: the store is not asked before an item is executed. *)
HasNever(ad) == "miss"

(* store.has: "hit", "miss", or the collision it raises. *)
Has(ad) ==
    IF stored[Key(ad)] = None THEN "miss"
    ELSE IF HashOf[stored[Key(ad)]] # Hash(ad) THEN "collision"
    ELSE "hit"

(* A mutant: the bare item is queued instead of its _Admitted record. *)
AdmitBare(payloads, depth) == payloads

(* The items of a payload sequence, admitted at the given depth. *)
AdmitAll(payloads, depth) ==
    [i \in DOMAIN payloads |-> [p |-> payloads[i], depth |-> depth]]

KeysOf(payloads) == {KeyOf[payloads[i]] : i \in DOMAIN payloads}

(* _admit accepts all of them: no key is live, none comes twice. *)
Admissible(payloads) ==
    /\ \A i \in DOMAIN payloads : live[KeyOf[payloads[i]]] = None
    /\ DistinctKeys(payloads)

(* A key -> hash map, extended with the identities of these payloads. *)
WithIdentities(map, payloads) ==
    [k \in Keys |->
        IF k \in KeysOf(payloads)
        THEN HashOf[payloads[CHOOSE i \in DOMAIN payloads : KeyOf[payloads[i]] = k]]
        ELSE map[k]]

(* seq with item put before position i. *)
Inserted(seq, i, item) ==
    SubSeq(seq, 1, i - 1) \o <<item>> \o SubSeq(seq, i, Len(seq))

(* The while condition, seen from the end of an iteration. *)
Again == pc' = IF ready' # <<>> \/ delayed' # <<>> \/ (\E k \in Keys : inflight'[k] # None)
               THEN "dispatch" ELSE "closing"

(* A mutant: "if" instead of "while" promotes one item, and drops the others. *)
PromoteOne ==
    /\ ready' = ready \o SubSeq(delayed, 1, IF due > 0 THEN 1 ELSE 0)
    /\ delayed' = SubSeq(delayed, due + 1, Len(delayed))
    /\ due' = 0

(* A mutant: the matured items stay where they are. *)
PromoteNone == UNCHANGED <<ready, delayed, due>>

(* _promote_matured: the matured items move to the ready queue, in order. *)
PromoteMatured ==
    /\ ready' = ready \o SubSeq(delayed, 1, due)
    /\ delayed' = SubSeq(delayed, due + 1, Len(delayed))
    /\ due' = 0

(* An exception leaves the loop: nothing is cancelled, the pool is shut down. *)
Leave == pc' = "closing" /\ error' = "raised"

-----------------------------------------------------------------------------
(* Starting a run and admitting its items. *)

Over == pc \in {"idle", "returned", "failed"}

Start(items) ==
    /\ Over /\ runs < MaxRuns
    /\ pc' = "admit" /\ roots' = items /\ job' = items /\ runs' = runs + 1
    /\ ResetLocals
    /\ UNCHANGED stored

AdmitRoot ==
    /\ pc = "admit" /\ roots # <<>>
    /\ live[KeyOf[Head(roots)]] = None
    /\ live' = WithIdentities(live, <<Head(roots)>>)
    /\ terminal' = WithIdentities(terminal, <<Head(roots)>>)
    /\ ready' = ready \o AdmitAll(<<Head(roots)>>, 0)
    /\ roots' = Tail(roots)
    /\ UNCHANGED <<pc, delayed, due, inflight, batch, tries, error, stats, folded,
                   stored, history>>

(* A key that is already live is a collision, whatever its hash; the pool    *)
(* does not exist yet.                                                       *)
AdmitRootRaises ==
    /\ pc = "admit" /\ roots # <<>>
    /\ live[KeyOf[Head(roots)]] # None \/ Faults
    /\ pc' = "failed" /\ error' = "raised"
    /\ UNCHANGED <<identity, queues, inflight, batch, tries, stats, stored, outside>>

AdmissionDone ==
    /\ pc = "admit" /\ roots = <<>>
    /\ UNCHANGED <<identity, queues, inflight, batch, tries, error, stats, stored,
                   outside>>
    /\ Again

-----------------------------------------------------------------------------
(* Dispatch from ready up to the concurrency cap. *)

CanDispatch == ready # <<>> /\ Cardinality(InFlight) < MaxWorkers

Resume ==
    /\ pc = "dispatch" /\ CanDispatch /\ Has(Head(ready)) = "hit"
    /\ ready' = Tail(ready) /\ Count("resumed")
    /\ UNCHANGED <<pc, identity, delayed, due, inflight, batch, tries, error, stored,
                   outside>>

(* A mutant: only the first execution of a key is counted. *)
CountKey == IF tries[Key(Head(ready))] = 0 THEN Count("attempts") ELSE UNCHANGED stats
CountAttempt == Count("attempts")

Submit ==
    /\ pc = "dispatch" /\ CanDispatch /\ Has(Head(ready)) = "miss"
    /\ inflight' = [inflight EXCEPT ![Key(Head(ready))] =
                        [ad |-> Head(ready), st |-> "queued"]]
    /\ ready' = Tail(ready) /\ CountAttempt
    /\ UNCHANGED <<pc, identity, delayed, due, batch, tries, error, stored, outside>>

LeaveDispatch ==
    /\ ready' = Tail(ready) /\ Leave
    /\ UNCHANGED <<identity, delayed, due, inflight, batch, tries, stats, stored,
                   outside>>

(* store.has raises on a stored result with another hash (or on a fault). *)
HasRaises ==
    /\ pc = "dispatch" /\ CanDispatch
    /\ Has(Head(ready)) = "collision" \/ Faults
    /\ LeaveDispatch

(* pool.submit raises: the pool is broken. *)
SubmitRaises ==
    /\ Faults /\ pc = "dispatch" /\ CanDispatch /\ Has(Head(ready)) = "miss"
    /\ LeaveDispatch

DispatchDone ==
    /\ pc = "dispatch" /\ ~CanDispatch
    /\ pc' = IF InFlight # {} THEN "wait"
             ELSE IF delayed # <<>> THEN "sleep" ELSE "closing"
    /\ UNCHANGED <<identity, queues, inflight, batch, tries, error, stats, stored,
                   outside>>

-----------------------------------------------------------------------------
(* Waiting. *)

(* wait() returns as soon as a future is done, or when the earliest retry    *)
(* matures: the timeout is clamped to it.  A mutant: no timeout.             *)
WakesWhenDone == Finished # {}
Wakes == Finished # {} \/ due > 0

WaitReturns ==
    /\ pc = "wait" /\ Wakes
    /\ batch' = Finished /\ pc' = "handle"
    /\ UNCHANGED <<identity, queues, inflight, tries, error, stats, stored, outside>>

(* Nothing in flight: sleep until the earliest retry matures. *)
SleepReturns ==
    /\ pc = "sleep" /\ due > 0
    /\ PromoteMatured
    /\ UNCHANGED <<identity, inflight, batch, tries, error, stats, stored, outside>>
    /\ Again

-----------------------------------------------------------------------------
(* Handling one done future. *)

(* The future of key k is popped from inflight, and k from the batch. *)
Pop(k) ==
    /\ pc = "handle" /\ error = "none" /\ k \in batch
    /\ batch' = batch \ {k}
    /\ inflight' = [inflight EXCEPT ![k] = None]

Succeeded(k) == inflight[k].st = "ok"
Raised(k) == inflight[k].st = "raised"

(* The store with the result of key k in it. *)
With(k) == [stored EXCEPT ![k] = inflight[k].ad.p]

CommitReturned(k) ==
    /\ Pop(k) /\ Succeeded(k) /\ Count("committed")
    /\ UNCHANGED <<pc, identity, queues, tries, error, outside>>

Commit(k) == CommitReturned(k) /\ stored' = With(k)

(* store.commit raises, before or after the manifest replaced the old one. *)
CommitRaised(k) ==
    /\ Faults /\ Pop(k) /\ Succeeded(k) /\ Leave
    /\ UNCHANGED <<identity, queues, tries, stats, outside>>

CommitRaises(k) == CommitRaised(k) /\ stored' \in {stored, With(k)}

(* The splitter's children, when every one may replace its parent. *)
StrictlySmaller(p, children) ==
    \/ SizeOf[p] = 0
    \/ \E i \in DOMAIN children : SizeOf[children[i]] = 0
    \/ \A i \in DOMAIN children : SizeOf[children[i]] < SizeOf[p]

ProperSplit(ad, children) ==
    /\ ad.depth + 1 <= MaxSplitDepth
    /\ children # <<>>
    /\ StrictlySmaller(ad.p, children)

WantsSplit(exc) == HasSplitPolicy /\ exc.split

(* terminal_hash once children have taken the place of key k.  A mutant: the  *)
(* last child is forgotten.                                                   *)
ReplacedShort(k, children) ==
    WithIdentities([terminal EXCEPT ![k] = None],
                   SubSeq(children, 1, Len(children) - 1))
Replaced(k, children) == WithIdentities([terminal EXCEPT ![k] = None], children)

(* _handle_split: the children are admitted, then take the parent's place. *)
Split(k, exc, children) ==
    /\ Pop(k) /\ Raised(k) /\ WantsSplit(exc)
    /\ LET ad == inflight[k].ad IN
         /\ children \in SplitsOf[ad.p]
         /\ ProperSplit(ad, children) /\ Admissible(children)
         /\ live' = WithIdentities(live, children)
         /\ terminal' = Replaced(k, children)
         /\ ready' = ready \o AdmitAll(children, ad.depth + 1)
    /\ Count("splits")
    /\ UNCHANGED <<pc, delayed, due, tries, error, stored, outside>>

(* A child whose key is live (its parent's and its other ancestors' count):  *)
(* the collision is no _SplitFatal and leaves the loop.                       *)
SplitCollides(k, exc, children) ==
    /\ Pop(k) /\ Raised(k) /\ WantsSplit(exc)
    /\ children \in SplitsOf[inflight[k].ad.p]
    /\ ProperSplit(inflight[k].ad, children) /\ ~Admissible(children)
    /\ Leave
    /\ UNCHANGED <<identity, queues, tries, stats, stored, outside>>

(* The budget allows another try.  A mutant: one try more than the budget. *)
WithinBudgetAndOne(k) == tries[k] + 1 <= MaxAttempts
WithinBudget(k) == tries[k] + 1 < MaxAttempts

(* The key is queued again, behind every item that has matured. *)
Retry(k, exc, i) ==
    /\ Pop(k) /\ Raised(k)
    /\ ~exc.oom /\ ~WantsSplit(exc) /\ exc.transient /\ ~exc.badRetryAfter
    /\ WithinBudget(k)
    /\ tries' = [tries EXCEPT ![k] = @ + 1]
    /\ i \in due + 1 .. Len(delayed) + 1
    /\ delayed' = Inserted(delayed, i, inflight[k].ad)
    /\ Count("retries")
    /\ UNCHANGED <<pc, identity, ready, due, error, stored, outside>>

(* What _route_exception answers with a fatal exception. *)
FatalFor(k, exc) ==
    LET ad == inflight[k].ad IN
    IF WantsSplit(exc)
    THEN \/ ad.depth + 1 > MaxSplitDepth
         \/ \E children \in SplitsOf[ad.p] : ~ProperSplit(ad, children)
    ELSE \/ exc.oom \/ ~exc.transient
         \/ ~WithinBudget(k) \/ exc.badRetryAfter

(* fatal_exc is set.  A mutant: the exception is swallowed. *)
Swallow == UNCHANGED error
Abort == error' = "fatal"

Fail(k, exc) ==
    /\ Pop(k) /\ Raised(k) /\ FatalFor(k, exc)
    /\ tries' = IF WantsSplit(exc) \/ exc.oom \/ ~exc.transient THEN tries
                ELSE [tries EXCEPT ![k] = @ + 1]
    /\ Abort
    /\ UNCHANGED <<pc, identity, queues, stats, stored, outside>>

(* A classifier, the splitter or the size function raises. *)
RouteRaises(k) ==
    /\ Faults /\ Pop(k) /\ Raised(k) /\ Leave
    /\ UNCHANGED <<identity, queues, tries, stats, stored, outside>>

HandleDone ==
    /\ pc = "handle" /\ error = "none" /\ batch = {}
    /\ PromoteMatured
    /\ UNCHANGED <<identity, inflight, batch, tries, error, stats, stored, outside>>
    /\ Again

(* The batch is left after a fatal exception, its other results dropped;     *)
(* futures no worker has started are cancelled.                              *)
FatalExit ==
    /\ pc = "handle" /\ error = "fatal"
    /\ PromoteMatured
    /\ inflight' = [k \in Keys |->
         IF inflight[k] # None /\ inflight[k].st = "queued" THEN None ELSE inflight[k]]
    /\ batch' = {} /\ pc' = "closing"
    /\ UNCHANGED <<identity, tries, error, stats, stored, outside>>

-----------------------------------------------------------------------------
(* Shutting down, folding, delivering. *)

(* pool.shutdown(wait=True): queued and running futures are run to the end.  *)
ShutdownDone ==
    /\ pc = "closing"
    /\ InFlight = Finished
    /\ inflight' = Nothing /\ batch' = {}
    /\ pc' = IF error = "none" THEN "fold" ELSE "failed"
    /\ UNCHANGED <<identity, queues, tries, error, stats, stored, outside>>

Unfolded == {k \in TerminalKeys : \A i \in DOMAIN folded : KeyOf[folded[i]] # k}

(* The sorted pairs: the least key not folded yet. *)
Fold(k) ==
    /\ pc = "fold" /\ k \in Unfolded /\ (\A other \in Unfolded : k <= other)
    /\ stored[k] # None /\ HashOf[stored[k]] = terminal[k]
    /\ folded' = Append(folded, stored[k])
    /\ UNCHANGED <<pc, roots, identity, queues, inflight, batch, tries, error, stats,
                   stored, history>>

(* load() raises on a result that is not there or is not valid, and so may   *)
(* combine, reduce and finalize.                                             *)
FoldRaises ==
    /\ pc = "fold"
    /\ \/ Faults
       \/ \E k \in Unfolded : stored[k] = None \/ HashOf[stored[k]] # terminal[k]
    /\ pc' = "failed" /\ error' = "raised"
    /\ UNCHANGED <<identity, queues, inflight, batch, tries, stats, stored, outside>>

(* combine or finalize gives the output; then the cache may be cleaned up. *)
Deliver ==
    /\ pc = "fold" /\ Unfolded = {}
    /\ pc' = IF CleanupOnSuccess THEN "cleaning" ELSE "returned"
    /\ UNCHANGED <<identity, queues, inflight, batch, tries, error, stats, stored,
                   outside>>

(* cleanup() removes files in any order and ignores errors. *)
Clean ==
    /\ pc = "cleaning"
    /\ \E gone \in SUBSET Keys :
         stored' = [k \in Keys |-> IF k \in gone THEN None ELSE stored[k]]
    /\ UNCHANGED <<pc, identity, queues, inflight, batch, tries, error, stats, outside>>

CleanupDone ==
    /\ pc = "cleaning" /\ pc' = "returned"
    /\ UNCHANGED <<identity, queues, inflight, batch, tries, error, stats, stored,
                   outside>>

-----------------------------------------------------------------------------
(* Workers, time, and the end of the process. *)

WorkerStarts(k) ==
    /\ inflight[k] # None /\ inflight[k].st = "queued"
    /\ inflight' = [inflight EXCEPT ![k].st = "running"]
    /\ UNCHANGED <<pc, identity, queues, batch, tries, error, stats, stored, outside>>

WorkerEnds(k) ==
    /\ inflight[k] # None /\ inflight[k].st = "running"
    /\ \E st \in {"ok", "raised"} : inflight' = [inflight EXCEPT ![k].st = st]
    /\ UNCHANGED <<pc, identity, queues, batch, tries, error, stats, stored, outside>>

(* worker_setup raised in a thread: the pool is broken, what is queued fails. *)
QueueFails ==
    /\ Faults
    /\ inflight' = [k \in Keys |->
         IF inflight[k] # None /\ inflight[k].st = "queued"
         THEN [inflight[k] EXCEPT !.st = "raised"] ELSE inflight[k]]
    /\ UNCHANGED <<pc, identity, queues, batch, tries, error, stats, stored, outside>>

(* The monotonic clock passes the ready_at of one more delayed item. *)
Tick ==
    /\ pc \in Looping /\ due < Len(delayed) /\ due' = due + 1
    /\ UNCHANGED <<pc, identity, ready, delayed, inflight, batch, tries, error,
                   stats, stored, outside>>

Killed ==
    /\ pc' = "idle" /\ roots' = <<>> /\ ResetLocals /\ job' = <<>>
    /\ UNCHANGED runs

(* The process may be killed inside store.commit, the manifest replaced or not. *)
HalfCommitted ==
    {With(k) : k \in {j \in batch : pc = "handle" /\ error = "none" /\ Succeeded(j)}}

Crash == ~Over /\ Killed /\ stored' \in {stored} \cup HalfCommitted

(* A power failure is the end of the process, and then, where directories are *)
(* not fsynced, any of the results that were ever committed are left: recent   *)
(* ones are lost, cleaned ones may come back.  Only what happens before the     *)
(* last run can matter to a later one.                                         *)
PowerLoss ==
    /\ PowerLossOn /\ Over /\ runs < MaxRuns
    /\ Killed /\ stored' \in StoreContents

(* The last run is over. *)
Rest == Over /\ runs = MaxRuns /\ UNCHANGED vars

-----------------------------------------------------------------------------
Begin == \E items \in RootLists : Start(items)
SplitSome == \E k \in Keys, exc \in Exceptions :
    \E children \in UNION {SplitsOf[p] : p \in Payloads} :
        Split(k, exc, children) \/ SplitCollides(k, exc, children)
RetrySome == \E k \in Keys, exc \in Exceptions, i \in 1 .. Len(delayed) + 1 :
                Retry(k, exc, i)
FailSome == \E k \in Keys, exc \in Exceptions : Fail(k, exc)
CommitSome == \E k \in Keys : Commit(k)
RaiseSome == \E k \in Keys : CommitRaises(k)
RouteSome == \E k \in Keys : RouteRaises(k)
FoldSome == \E k \in Keys : Fold(k)

(* What the coordinator thread does by itself: between its calls of the store  *)
(* that change something and of the pool, and with them.                       *)
Thinking ==
    \/ AdmitRoot \/ AdmitRootRaises \/ AdmissionDone
    \/ Resume \/ HasRaises \/ DispatchDone
    \/ WaitReturns \/ SleepReturns
    \/ SplitSome \/ RetrySome \/ FailSome \/ RouteSome
    \/ HandleDone \/ FatalExit
    \/ FoldSome \/ FoldRaises \/ Deliver
Storing == CommitSome \/ RaiseSome \/ Clean \/ CleanupDone
Coordinator == Thinking \/ Storing \/ Submit \/ SubmitRaises \/ ShutdownDone

Worker(k) == WorkerStarts(k) \/ WorkerEnds(k)

Next ==
    \/ Begin \/ Coordinator
    \/ (\E k \in Keys : Worker(k)) \/ QueueFails
    \/ Tick \/ Crash \/ PowerLoss \/ Rest

Spec == Init /\ [][Next]_vars

-----------------------------------------------------------------------------
(* What a run promises. *)

ReadyKeys == {Key(ready[i]) : i \in DOMAIN ready}
DelayedKeys == {Key(delayed[i]) : i \in DOMAIN delayed}
Outstanding == ReadyKeys \cup DelayedKeys \cup InFlight

(* The key is in the store with the hash the run expects. *)
Settled(k) == stored[k] # None /\ HashOf[stored[k]] = terminal[k]

(* No work is lost and none is held twice: while no error has occurred, every *)
(* key to be folded is settled or in exactly one queue, once, and the queues  *)
(* hold nothing else; so when the loop ends every key has its result and the  *)
(* fold cannot miss (terminal_keys against ready, delayed and inflight).      *)
NothingLost ==
    error = "none" /\ pc \notin {"idle", "cleaning", "returned", "failed"} =>
        /\ Outstanding \subseteq TerminalKeys
        /\ \A k \in TerminalKeys : k \in Outstanding \/ Settled(k)
        /\ pc = "fold" => Outstanding = {}
        /\ Cardinality(ReadyKeys) = Len(ready)
        /\ Cardinality(DelayedKeys) = Len(delayed)
        /\ ReadyKeys \cap DelayedKeys = {}
        /\ InFlight \cap (ReadyKeys \cup DelayedKeys) = {}
        /\ \A k \in InFlight : Key(inflight[k].ad) = k /\ stored[k] = None

(* The output covers every unit of the items the run was started with exactly *)
(* as often as they do: no split parent and child together, nothing folded    *)
(* twice, nothing missing, whatever an earlier run left in the store          *)
(* ("an old child + a later parent can never co-stitch").                     *)
ExactCoverage ==
    pc \in {"cleaning", "returned"} => \A u \in UNION {UnitsOf[p] : p \in Payloads} :
        Cardinality({i \in DOMAIN folded : u \in UnitsOf[folded[i]]})
          = Cardinality({i \in DOMAIN job : u \in UnitsOf[job[i]]})

(* The counters of CheckpointResult add up: every executor call ended in a    *)
(* commit, a retry or a split or is in flight, and every folded key was either *)
(* committed by this run or resumed from the store.                           *)
Accounting ==
    error = "none" /\ pc \notin {"idle", "failed"} =>
        /\ stats.attempts = stats.committed + stats.retries + stats.splits
                              + Cardinality(InFlight)
        /\ pc \in {"fold", "cleaning", "returned"} =>
             stats.committed + stats.resumed = Cardinality(TerminalKeys)

(* A key is executed at most max_attempts times (once, if that is 0): what is *)
(* outstanding has not used its budget up (RetryPolicy: "total tries per key  *)
(* on TRANSIENT error").                                                      *)
RetryBudget ==
    error = "none" => \A k \in Outstanding : tries[k] = 0 \/ tries[k] < MaxAttempts

(* A result that is in the store is never computed again, overwritten or      *)
(* dropped by any later step of this run or of a re-run; only the cleanup of  *)
(* a delivered run or a power failure removes it.                             *)
CommittedForGood ==
    [][ \A k \in Keys : stored[k] # None =>
          /\ stored'[k] = stored[k] \/ pc = "cleaning" \/ PowerLoss
          /\ ~(inflight[k] = None /\ inflight'[k] # None) ]_vars

(* Every run comes to an end: it returns, raises, or its process is killed;   *)
(* only an execution that hangs can keep it (the loop's condition, and         *)
(* pool.shutdown(wait=True)).                                                  *)
Hanging == \E k \in InFlight : inflight[k].ad.p \in Hung
Termination == pc = "admit" ~> pc \in {"returned", "failed", "idle"} \/ []Hanging

(* A retry whose time has come is dispatched although another execution hangs: *)
(* no item stays delayed for ever while the loop is running (wait()'s timeout  *)
(* is clamped to the earliest ready_at).                                       *)
RetryNotBlocked ==
    \A k \in Keys : k \in DelayedKeys ~> k \notin DelayedKeys \/ pc \notin Looping
=============================================================================
