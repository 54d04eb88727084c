-------------------------- MODULE EngineCoverageProofs --------------------------
(***************************************************************************)
(* Proof that the output covers the items of the run exactly, whatever was    *)
(* split, retried or resumed: the units of the keys to be folded and of the    *)
(* items still to be admitted are always the units of the job.                *)
(***************************************************************************)
EXTENDS EngineProofs

AllUnits == UNION {UnitsOf[p] : p \in Payloads}

(* The units of the work that this key and hash identify. *)
UnitsAt(k, h) == UnitsOf[CHOOSE p \in Payloads : KeyOf[p] = k /\ HashOf[p] = h]

Covering(u) == {k \in TerminalKeys : u \in UnitsAt(k, terminal[k])}
Having(u, list) == {i \in DOMAIN list : u \in UnitsOf[list[i]]}

(* Every unit of the job is in a key to be folded or an item to be admitted, as *)
(* often as in the job.                                                       *)
Conserved == \A u \in AllUnits :
    Cardinality(Covering(u)) + Cardinality(Having(u, roots)) = Cardinality(Having(u, job))

(* What is folded are the keys to be folded, once each; all are in the end. *)
FoldedRight ==
    /\ DistinctKeys(folded)
    /\ pc \in {"fold", "cleaning", "returned"} => \A i \in DOMAIN folded :
         /\ KeyOf[folded[i]] \in TerminalKeys
         /\ HashOf[folded[i]] = terminal[KeyOf[folded[i]]]
    /\ pc \in {"cleaning", "returned"} => TerminalKeys \subseteq KeysOf(folded)

CoverInv ==
    error = "none" => Conserved /\ FoldedRight /\ (pc # "admit" => roots = <<>>)

-----------------------------------------------------------------------------
(* Counting. *)

(* Units are a matter of the identity. *)
LEMMA SameUnits ==
    ASSUME NEW p \in Payloads
    PROVE  UnitsAt(KeyOf[p], HashOf[p]) = UnitsOf[p]
BY UnitsAssumption DEF UnitsAt

LEMMA HavingFinite ==
    ASSUME NEW list \in Seq(Payloads), NEW u
    PROVE  IsFiniteSet(Having(u, list)) /\ Cardinality(Having(u, list)) \in Nat
<1>1. IsFiniteSet(1 .. Len(list)) /\ DOMAIN list = 1 .. Len(list)
  BY LenProperties, FS_Interval
<1>2. Having(u, list) \in SUBSET (1 .. Len(list))
  BY <1>1 DEF Having
<1> QED BY <1>1, <1>2, FS_Subset, FS_CardinalityType

(* Sets that stand in a one-to-one correspondence have the same size. *)
LEMMA SameSize ==
    ASSUME NEW S, IsFiniteSet(S), NEW T, NEW f \in [S -> T],
           \A x, y \in S : f[x] = f[y] => x = y,
           \A z \in T : \E x \in S : f[x] = z
    PROVE  IsFiniteSet(T) /\ Cardinality(T) = Cardinality(S)
<1>1. f \in Bijection(S, T)
  BY DEF Bijection, Injection, Surjection, IsInjective
<1>2. ExistsBijection(S, T)
  BY <1>1 DEF ExistsBijection
<1> QED BY <1>2, FS_Bijection

(* The keys of the items with the unit are as many as these items. *)
LEMMA KeysHaving ==
    ASSUME NEW list \in Seq(Payloads), DistinctKeys(list), NEW u
    PROVE  Cardinality({KeyOf[list[i]] : i \in Having(u, list)}) = Cardinality(Having(u, list))
<1> DEFINE f == [i \in Having(u, list) |-> KeyOf[list[i]]]
           T == {KeyOf[list[i]] : i \in Having(u, list)}
<1>1. f \in [Having(u, list) -> T] /\ \A z \in T : \E x \in Having(u, list) : f[x] = z
  OBVIOUS
<1>2. \A x, y \in Having(u, list) : f[x] = f[y] => x = y
  BY DEF DistinctKeys, Having
<1> HIDE DEF f
<1> QED BY <1>1, <1>2, HavingFinite, SameSize

(* The first item adds itself. *)
LEMMA HavingHead ==
    ASSUME NEW list \in Seq(Payloads), list # <<>>, NEW u
    PROVE  Cardinality(Having(u, list)) = Cardinality(Having(u, Tail(list)))
             + (IF u \in UnitsOf[Head(list)] THEN 1 ELSE 0)
<1> DEFINE S == Having(u, Tail(list))
           T == Having(u, list) \ {1}
           f == [i \in S |-> i + 1]
<1>1. /\ Len(list) \in Nat /\ Len(list) >= 1 /\ DOMAIN list = 1 .. Len(list)
      /\ Tail(list) \in Seq(Payloads) /\ DOMAIN Tail(list) = 1 .. Len(list) - 1
      /\ Head(list) = list[1]
      /\ \A i \in 1 .. Len(list) - 1 : Tail(list)[i] = list[i + 1]
  BY HeadTailProperties, LenProperties, EmptySeq
<1>2. \A i \in S : i \in 1 .. Len(list) - 1 /\ f[i] = i + 1
  BY <1>1 DEF Having
<1>3. f \in [S -> T]
  BY <1>1 DEF Having
<1>4. \A x, y \in S : f[x] = f[y] => x = y
  BY <1>2
<1>5. ASSUME NEW z \in T
      PROVE  \E x \in S : f[x] = z
  <2>1. z \in 2 .. Len(list) /\ u \in UnitsOf[list[z]]
    BY <1>1 DEF Having
  <2>2. z - 1 \in 1 .. Len(list) - 1 /\ Tail(list)[z - 1] = list[z]
    BY <1>1, <2>1
  <2>3. z - 1 \in S
    BY <1>1, <2>1, <2>2 DEF Having
  <2> QED BY <1>2, <2>1, <2>3
<1>6. IsFiniteSet(S) /\ IsFiniteSet(Having(u, list)) /\ Cardinality(S) \in Nat
      /\ Cardinality(Having(u, list)) \in Nat
  BY <1>1, HavingFinite
<1> HIDE DEF f
<1>7. Cardinality(T) = Cardinality(S)
  BY <1>3, <1>4, <1>5, <1>6, SameSize
<1>8. 1 \in Having(u, list) <=> u \in UnitsOf[Head(list)]
  BY <1>1 DEF Having
<1>9. Cardinality(T) = IF 1 \in Having(u, list) THEN Cardinality(Having(u, list)) - 1
                                               ELSE Cardinality(Having(u, list))
  BY <1>6, FS_RemoveElement
<1> HIDE DEF S, T
<1> QED BY <1>6, <1>7, <1>8, <1>9 DEF S

(* Children have each unit of their parent once, and no other. *)
LEMMA ChildrenHaving ==
    ASSUME NEW p \in Payloads, NEW children \in SplitsOf[p], children # <<>>,
           DistinctKeys(children), NEW u
    PROVE  Cardinality(Having(u, children)) = IF u \in UnitsOf[p] THEN 1 ELSE 0
<1>1. /\ UNION {UnitsOf[children[i]] : i \in DOMAIN children} = UnitsOf[p]
      /\ \A i, j \in DOMAIN children :
           i # j => UnitsOf[children[i]] \cap UnitsOf[children[j]] = {}
  BY UnitsAssumption
<1>2. CASE u \in UnitsOf[p]
  <2>1. PICK i \in DOMAIN children : u \in UnitsOf[children[i]]
    BY <1>1, <1>2
  <2>2. Having(u, children) = {i}
    BY <1>1, <2>1 DEF Having
  <2> QED BY <1>2, <2>2, FS_Singleton
<1>3. CASE u \notin UnitsOf[p]
  <2>1. Having(u, children) = {}
    BY <1>1, <1>3 DEF Having
  <2> QED BY <1>3, <2>1, FS_EmptySet
<1> QED BY <1>2, <1>3

LEMMA CoveringFinite ==
    ASSUME NEW u
    PROVE  IsFiniteSet(Covering(u)) /\ Cardinality(Covering(u)) \in Nat
<1>1. Covering(u) \in SUBSET TerminalKeys
  BY DEF Covering
<1> QED BY <1>1, KeySetsFinite, FS_Subset, FS_CardinalityType

(* The hashes to be folded with, after some items were admitted. *)
LEMMA TerminalWith ==
    ASSUME NEW map \in [Keys -> Hashes \cup {None}], NEW list \in Seq(Payloads),
           DistinctKeys(list), terminal' = WithIdentities(map, list)
    PROVE  /\ \A i \in DOMAIN list : terminal'[KeyOf[list[i]]] = HashOf[list[i]]
           /\ \A k \in Keys : k \notin KeysOf(list) => terminal'[k] = map[k]
           /\ KeysOf(list) \subseteq Keys
BY Identified DEF DistinctKeys

-----------------------------------------------------------------------------
(* The units are conserved, step by step. *)

LEMMA ConservedAnew ==
    ASSUME Begin \/ Crash \/ PowerLoss
    PROVE  CoverInv'
<1>1. terminal' = Nothing /\ roots' = job' /\ (pc' # "admit" => roots' = <<>>)
      /\ pc' \in {"idle", "admit"} /\ folded' = <<>>
  BY DEF Begin, Start, Crash, PowerLoss, Killed, ResetLocals
<1>2. TerminalKeys' = {}
  BY <1>1 DEF TerminalKeys, Nothing
<1>3. ASSUME NEW u
      PROVE  Cardinality(Covering(u)') = 0
  BY <1>2, FS_EmptySet DEF Covering
<1>4. ASSUME NEW u \in AllUnits
      PROVE  Cardinality(Covering(u)') + Cardinality(Having(u, roots')) = Cardinality(Having(u, job'))
  <2>1. roots' \in Seq(Payloads)
    <3>1. CASE Begin
      BY <3>1, PayloadsAssumption DEF Begin, Start
    <3>2. CASE Crash \/ PowerLoss
      BY <3>2, EmptySeq DEF Crash, PowerLoss, Killed
    <3> QED BY <3>1, <3>2
  <2>2. Cardinality(Having(u, roots')) \in Nat
    BY <2>1, HavingFinite
  <2> QED BY <1>1, <1>3, <2>2
<1>5. FoldedRight'
  BY <1>1 DEF FoldedRight, DistinctKeys
<1> QED BY <1>1, <1>4, <1>5 DEF CoverInv, Conserved

LEMMA ConservedAdmit ==
    ASSUME IInv, error = "none", Conserved, AdmitRoot
    PROVE  Conserved'
<1>1. Work /\ TypeOK /\ roots # <<>> /\ live[KeyOf[Head(roots)]] = None
      /\ roots' = Tail(roots) /\ job' = job
      /\ terminal' = WithIdentities(terminal, <<Head(roots)>>)
  BY SoundWork DEF IInv, TypeInv, AdmitRoot, history
<1>2. PICK p \in Payloads :
        /\ p = Head(roots) /\ KeyOf[p] \in Keys /\ HashOf[p] \in Hashes
        /\ <<p>> \in Seq(Payloads) /\ DOMAIN <<p>> = {1} /\ <<p>>[1] = p
        /\ KeysOf(<<p>>) = {KeyOf[p]}
  BY <1>1, FirstRoot
<1>3. /\ terminal'[KeyOf[p]] = HashOf[p] /\ HashOf[p] # None
      /\ \A k \in Keys : k # KeyOf[p] => terminal'[k] = terminal[k]
  <2>1. DistinctKeys(<<p>>)
    BY <1>2 DEF DistinctKeys
  <2>2. terminal \in [Keys -> Hashes \cup {None}] /\ terminal' = WithIdentities(terminal, <<p>>)
    BY <1>1, <1>2 DEF TypeOK
  <2>3. /\ \A i \in DOMAIN <<p>> : terminal'[KeyOf[<<p>>[i]]] = HashOf[<<p>>[i]]
        /\ \A k \in Keys : k \notin KeysOf(<<p>>) => terminal'[k] = terminal[k]
    BY <1>2, <2>1, <2>2, TerminalWith
  <2> QED BY <1>2, <2>3, NoneAssumption
<1>4. KeyOf[p] \notin TerminalKeys
  BY <1>1, <1>2 DEF Work, TerminalIsLive, TerminalKeys
<1> SUFFICES ASSUME NEW u \in AllUnits
             PROVE  Cardinality(Covering(u)') + Cardinality(Having(u, roots'))
                      = Cardinality(Having(u, job'))
  BY DEF Conserved
<1>5. Covering(u)' = IF u \in UnitsOf[p] THEN Covering(u) \cup {KeyOf[p]} ELSE Covering(u)
  <2>1. TerminalKeys' = TerminalKeys \cup {KeyOf[p]}
    BY <1>2, <1>3 DEF TerminalKeys
  <2>2. UnitsAt(KeyOf[p], terminal'[KeyOf[p]]) = UnitsOf[p]
    BY <1>3, SameUnits
  <2>3. \A k \in TerminalKeys : terminal'[k] = terminal[k]
    BY <1>3, <1>4 DEF TerminalKeys
  <2> QED BY <2>1, <2>2, <2>3 DEF Covering
<1>6. KeyOf[p] \notin Covering(u)
  BY <1>4 DEF Covering
<1>7. Cardinality(Covering(u)') = Cardinality(Covering(u)) + (IF u \in UnitsOf[p] THEN 1 ELSE 0)
  <2>1. IsFiniteSet(Covering(u)) /\ Cardinality(Covering(u)) \in Nat
    BY CoveringFinite
  <2>2. Cardinality(Covering(u) \cup {KeyOf[p]}) = Cardinality(Covering(u)) + 1
    BY <1>6, <2>1, FS_AddElement
  <2> QED BY <1>5, <2>1, <2>2
<1>8. /\ Cardinality(Having(u, roots)) = Cardinality(Having(u, roots'))
                                          + (IF u \in UnitsOf[p] THEN 1 ELSE 0)
      /\ Cardinality(Having(u, roots')) \in Nat
  <2>1. roots \in Seq(Payloads) /\ Tail(roots) \in Seq(Payloads)
    BY <1>1, FirstRoot DEF TypeOK
  <2> QED BY <1>1, <1>2, <2>1, HavingHead, HavingFinite
<1>9. Cardinality(Covering(u)) + Cardinality(Having(u, roots)) = Cardinality(Having(u, job'))
  BY <1>1 DEF Conserved
<1> QED BY <1>7, <1>8, <1>9, CoveringFinite

LEMMA ConservedSplit ==
    ASSUME IInv, error = "none", Conserved, NEW k \in Keys, NEW exc \in Exceptions,
           NEW children \in UNION {SplitsOf[p] : p \in Payloads}, Split(k, exc, children)
    PROVE  Conserved'
<1>1. PICK parent \in Payloads :
        /\ parent = inflight[k].ad.p /\ KeyOf[parent] = k /\ HashOf[parent] = terminal[k]
        /\ k \in TerminalKeys
  <2>1. k \in InFlight /\ inflight[k].ad.p \in Payloads
    BY PopEffect, FutureTypes DEF Split, IInv, TypeInv
  <2>2. Key(inflight[k].ad) = k /\ terminal[k] = Hash(inflight[k].ad)
    BY <2>1, SoundWork DEF Work, AllExpected, FutureExpected
  <2> QED BY <2>1, <2>2, OutstandingLive DEF Key, Hash
<1>2. /\ children \in SplitsOf[parent] /\ children # <<>> /\ DistinctKeys(children)
      /\ terminal' = WithIdentities([terminal EXCEPT ![k] = None], children)
      /\ UNCHANGED <<roots, job>>
  BY <1>1 DEF Split, ProperSplit, Admissible, Replaced, outside
<1>3. children \in Seq(Payloads) /\ \A i \in DOMAIN children : children[i] \in Payloads
  BY PayloadsAssumption, LenProperties, ElementOfSeq
<1>4. KeysOf(children) \cap TerminalKeys = {}
  BY KeptSplit
<1>5. /\ \A i \in DOMAIN children : terminal'[KeyOf[children[i]]] = HashOf[children[i]]
      /\ \A j \in Keys \ KeysOf(children) :
           terminal'[j] = IF j = k THEN None ELSE terminal[j]
      /\ KeysOf(children) \subseteq Keys
  <2>1. terminal \in [Keys -> Hashes \cup {None}]
    BY DEF IInv, TypeInv, TypeOK
  <2>2. PICK map \in [Keys -> Hashes \cup {None}] : map = [terminal EXCEPT ![k] = None]
    BY <2>1
  <2>3. \A j \in Keys : map[j] = IF j = k THEN None ELSE terminal[j]
    BY <2>1, <2>2
  <2>4. /\ \A i \in DOMAIN children : terminal'[KeyOf[children[i]]] = HashOf[children[i]]
        /\ \A j \in Keys : j \notin KeysOf(children) => terminal'[j] = map[j]
        /\ KeysOf(children) \subseteq Keys
    BY <1>2, <1>3, <2>2, TerminalWith
  <2> QED BY <2>3, <2>4
<1> SUFFICES ASSUME NEW u \in AllUnits
             PROVE  Cardinality(Covering(u)') + Cardinality(Having(u, roots'))
                      = Cardinality(Having(u, job'))
  BY DEF Conserved
<1> DEFINE Born == {KeyOf[children[i]] : i \in Having(u, children)}
<1>6. Covering(u)' = (Covering(u) \ {k}) \cup Born
  <2>1. ASSUME NEW j \in KeysOf(children)
        PROVE  j \in Covering(u)' <=> j \in Born
    <3>1. PICK i \in DOMAIN children : KeyOf[children[i]] = j
      BY <2>1 DEF KeysOf
    <3>2. UnitsAt(j, terminal'[j]) = UnitsOf[children[i]]
      BY <1>3, <1>5, <3>1, SameUnits
    <3>3. terminal'[j] # None /\ j \in Keys
      BY <1>3, <1>5, <2>1, <3>1, PayloadsAssumption, NoneAssumption
    <3>4. j \in Covering(u)' <=> u \in UnitsOf[children[i]]
      BY <3>2, <3>3 DEF Covering, TerminalKeys
    <3>5. j \in Born <=> u \in UnitsOf[children[i]]
      BY <1>2, <3>1 DEF Having, DistinctKeys
    <3> QED BY <3>4, <3>5
  <2>2. ASSUME NEW j \in Keys \ KeysOf(children)
        PROVE  j \in Covering(u)' <=> j \in Covering(u) \ {k}
    BY <1>5, <2>2 DEF Covering, TerminalKeys
  <2>3. Born \subseteq KeysOf(children)
    BY DEF Having, KeysOf
  <2>4. Covering(u) \cap KeysOf(children) = {}
    BY <1>4 DEF Covering
  <2>5. Covering(u)' \subseteq Keys /\ Covering(u) \subseteq Keys
    BY DEF Covering, TerminalKeys
  <2> HIDE DEF Born
  <2> QED BY <1>5, <2>1, <2>2, <2>3, <2>4, <2>5
<1>7. (Covering(u) \ {k}) \cap Born = {} /\ IsFiniteSet(Born)
  <2>1. Born \subseteq KeysOf(children)
    BY DEF Having, KeysOf
  <2>2. IsFiniteSet(KeysOf(children))
    BY <1>2, <1>3, ListLength DEF DistinctKeys
  <2>3. Covering(u) \subseteq TerminalKeys
    BY DEF Covering
  <2> QED BY <1>4, <2>1, <2>2, <2>3, FS_Subset
<1>8. Cardinality(Born) = IF u \in UnitsOf[parent] THEN 1 ELSE 0
  BY <1>2, <1>3, KeysHaving, ChildrenHaving
<1>9. Cardinality(Covering(u) \ {k}) = Cardinality(Covering(u))
                                         - (IF u \in UnitsOf[parent] THEN 1 ELSE 0)
      /\ IsFiniteSet(Covering(u) \ {k})
  <2>1. k \in Covering(u) <=> u \in UnitsOf[parent]
    BY <1>1, SameUnits DEF Covering
  <2>2. IsFiniteSet(Covering(u)) /\ Cardinality(Covering(u)) \in Nat
    BY CoveringFinite
  <2> QED BY <2>1, <2>2, FS_RemoveElement
<1> HIDE DEF Born
<1>10. Cardinality(Covering(u)') = Cardinality(Covering(u))
  <2>1. Cardinality((Covering(u) \ {k}) \cup Born)
          = Cardinality(Covering(u) \ {k}) + Cardinality(Born) - Cardinality({})
    BY <1>7, <1>9, FS_Union
  <2>2. Cardinality({}) = 0 /\ Cardinality(Covering(u)) \in Nat
    BY FS_EmptySet, CoveringFinite
  <2> QED BY <1>6, <1>8, <1>9, <2>1, <2>2
<1> QED BY <1>2, <1>10 DEF Conserved

(* The other steps leave what is conserved alone, and end admission only when  *)
(* every item has been admitted.                                              *)
Aside ==
    /\ UNCHANGED <<terminal, roots, job>>
    /\ pc = "admit" => pc' = "admit" \/ roots = <<>>

(* Neither a result nor a key is added to what is folded. *)
Late == pc \in {"fold", "cleaning", "returned"}
Keeps ==
    /\ folded' = folded
    /\ Late' => terminal' = terminal /\ Late /\ (pc' # "fold" => pc # "fold")

SplitOne == \E k \in Keys, exc \in Exceptions :
    \E children \in UNION {SplitsOf[p] : p \in Payloads} : Split(k, exc, children)

(* What a step does that neither starts a run nor ends one. *)
LEMMA CoverCases ==
    ASSUME IInv, [Next]_vars, error' = "none", ~(Begin \/ Crash \/ PowerLoss)
    PROVE  /\ error = "none"
           /\ AdmitRoot \/ SplitOne \/ Aside
           /\ ShutdownDone \/ FoldSome \/ Deliver \/ Keeps
<1> USE DEF Aside, Keeps, Late
<1>1. CASE AdmitRoot
  BY <1>1 DEF AdmitRoot
<1>2. CASE AdmissionDone \/ DispatchDone
  BY <1>2 DEF AdmissionDone, DispatchDone, Again, identity, outside
<1>3. CASE Resume \/ Submit \/ WaitReturns \/ Tick
  BY <1>3 DEF Resume, Submit, WaitReturns, Tick, Looping, identity, outside
<1>4. CASE SleepReturns \/ HandleDone
  BY <1>4 DEF SleepReturns, HandleDone, Again, identity, outside
<1>5. CASE SplitSome
  <2>1. SplitOne
    BY <1>5 DEF SplitSome, SplitOne, SplitCollides, Leave
  <2> QED BY <2>1 DEF SplitOne, Split, Pop, outside
<1>6. CASE CommitSome \/ RetrySome
  BY <1>6 DEF CommitSome, Commit, CommitReturned, RetrySome, Retry, Pop, identity, outside
<1>7. CASE ShutdownDone
  BY <1>7 DEF ShutdownDone, identity, outside
<1>8. CASE FoldSome
  BY <1>8 DEF FoldSome, Fold, identity, history
<1>9. CASE Deliver
  BY <1>9 DEF Deliver, identity, outside
<1>10. CASE Clean \/ CleanupDone
  BY <1>10 DEF Clean, CleanupDone, identity, outside
<1>11. CASE (\E k \in Keys : Worker(k)) \/ QueueFails
  BY <1>11 DEF Worker, WorkerStarts, WorkerEnds, QueueFails, identity, outside
<1>12. CASE UNCHANGED vars
  BY <1>12 DEF vars
<1>13. ~ (\/ AdmitRootRaises \/ HasRaises \/ SubmitRaises \/ RaiseSome \/ FailSome
          \/ RouteSome \/ FatalExit \/ FoldRaises)
  BY DEF AdmitRootRaises, HasRaises, SubmitRaises, LeaveDispatch, Leave, RaiseSome,
         CommitRaises, CommitRaised, FailSome, Fail, Abort, RouteSome, RouteRaises,
         FatalExit, FoldRaises
<1> QED BY <1>1, <1>2, <1>3, <1>4, <1>5, <1>6, <1>7, <1>8, <1>9, <1>10, <1>11, <1>12, <1>13
        DEF Next, Coordinator, Thinking, Storing, Rest

LEMMA ConservedStep ==
    ASSUME IInv, CoverInv, [Next]_vars, error' = "none", ~(Begin \/ Crash \/ PowerLoss)
    PROVE  Conserved' /\ (pc' # "admit" => roots' = <<>>)
<1>1. /\ error = "none" /\ Conserved /\ (pc # "admit" => roots = <<>>)
      /\ AdmitRoot \/ SplitOne \/ Aside
  BY CoverCases DEF CoverInv
<1>2. CASE AdmitRoot
  BY <1>1, <1>2, ConservedAdmit DEF AdmitRoot
<1>3. CASE SplitOne
  BY <1>1, <1>3, ConservedSplit DEF SplitOne, Split, Pop, outside
<1>4. CASE Aside
  BY <1>1, <1>4 DEF Aside, Conserved, Covering, TerminalKeys
<1> QED BY <1>1, <1>2, <1>3, <1>4

LEMMA FoldedStep ==
    ASSUME IInv, CoverInv, [Next]_vars, error' = "none", ~(Begin \/ Crash \/ PowerLoss)
    PROVE  FoldedRight'
<1>1. /\ error = "none" /\ FoldedRight
      /\ ShutdownDone \/ FoldSome \/ Deliver \/ Keeps
  BY CoverCases DEF CoverInv
<1>2. CASE ShutdownDone
  <2>1. folded = <<>> /\ folded' = folded /\ pc' \notin {"cleaning", "returned"}
    BY <1>2 DEF ShutdownDone, IInv, PhaseErrors, outside
  <2> QED BY <2>1 DEF FoldedRight, DistinctKeys
<1>3. ASSUME NEW k \in Keys, Fold(k)
      PROVE  FoldedRight'
  <2>1. PICK p \in Payloads : p = stored[k] /\ KeyOf[p] = k /\ HashOf[p] = terminal[k]
    BY <1>3 DEF Fold, IInv, TypeInv, TypeOK, StoreKeyed, StoreContents
  <2>2. /\ folded \in Seq(Payloads) /\ folded' = Append(folded, p) /\ terminal' = terminal
        /\ pc = "fold" /\ pc' = "fold" /\ k \in TerminalKeys
        /\ \A i \in DOMAIN folded : KeyOf[folded[i]] # k
    BY <1>3, <2>1 DEF Fold, IInv, TypeInv, TypeOK, Unfolded, identity
  <2>3. /\ DOMAIN folded = 1 .. Len(folded) /\ Len(folded) \in Nat
        /\ DOMAIN folded' = 1 .. Len(folded) + 1
        /\ \A i \in DOMAIN folded : folded'[i] = folded[i]
        /\ folded'[Len(folded) + 1] = p
    BY <2>2, AppendProperties, LenProperties
  <2>4. \A i \in DOMAIN folded' : i \in DOMAIN folded \/ i = Len(folded) + 1
    BY <2>3
  <2>5. DistinctKeys(folded')
    BY <1>1, <2>1, <2>2, <2>3, <2>4 DEF FoldedRight, DistinctKeys
  <2>6. TerminalKeys' = TerminalKeys
    BY <2>2 DEF TerminalKeys
  <2> QED BY <1>1, <2>1, <2>2, <2>3, <2>4, <2>5, <2>6 DEF FoldedRight
<1>4. CASE Deliver
  <2>1. /\ folded' = folded /\ terminal' = terminal /\ pc = "fold"
        /\ TerminalKeys \subseteq KeysOf(folded)
    BY <1>4 DEF Deliver, Unfolded, KeysOf, identity, outside
  <2>2. TerminalKeys' = TerminalKeys /\ KeysOf(folded') = KeysOf(folded)
    BY <2>1 DEF TerminalKeys
  <2> QED BY <1>1, <2>1, <2>2 DEF FoldedRight
<1>5. CASE Keeps
  <2>1. Late' => TerminalKeys' = TerminalKeys
    BY <1>5 DEF Keeps, TerminalKeys
  <2> QED BY <1>1, <1>5, <2>1 DEF Keeps, Late, FoldedRight
<1> QED BY <1>1, <1>2, <1>3, <1>4, <1>5 DEF FoldSome

LEMMA CoverStep == IInv /\ CoverInv /\ [Next]_vars => CoverInv'
<1> SUFFICES ASSUME IInv, CoverInv, [Next]_vars, error' = "none"
             PROVE  CoverInv'
  BY DEF CoverInv
<1>1. CASE Begin \/ Crash \/ PowerLoss
  BY <1>1, ConservedAnew
<1>2. CASE ~(Begin \/ Crash \/ PowerLoss)
  BY <1>2, ConservedStep, FoldedStep DEF CoverInv
<1> QED BY <1>1, <1>2

LEMMA CoverInit == Init => CoverInv
<1> SUFFICES ASSUME Init
             PROVE  Conserved /\ FoldedRight /\ roots = <<>>
  BY DEF CoverInv
<1>1. TerminalKeys = {} /\ roots = <<>> /\ job = <<>> /\ folded = <<>> /\ pc = "idle"
  BY DEF Init, Fresh, TerminalKeys, Nothing
<1>2. ASSUME NEW u \in AllUnits
      PROVE  Cardinality(Covering(u)) + Cardinality(Having(u, roots)) = Cardinality(Having(u, job))
  <2>1. Covering(u) = {} /\ Having(u, roots) = {} /\ Having(u, job) = {}
    BY <1>1 DEF Covering, Having
  <2> QED BY <2>1, FS_EmptySet
<1>3. Conserved
  BY <1>2 DEF Conserved
<1>4. FoldedRight
  BY <1>1 DEF FoldedRight, DistinctKeys
<1> QED BY <1>1, <1>3, <1>4

-----------------------------------------------------------------------------
(* What was delivered. *)

(* The keys that cover a unit are those of the folded items that have it. *)
LEMMA FoldedKeys ==
    ASSUME IInv, CoverInv, pc \in {"cleaning", "returned"}, NEW u
    PROVE  Covering(u) = {KeyOf[folded[i]] : i \in Having(u, folded)}
<1>1. /\ error = "none" /\ FoldedRight /\ folded \in Seq(Payloads)
  BY DEF IInv, PhaseErrors, TypeInv, TypeOK, CoverInv
<1>2. ASSUME NEW i \in DOMAIN folded
      PROVE  KeyOf[folded[i]] \in Covering(u) <=> i \in Having(u, folded)
  <2>1. folded[i] \in Payloads
    BY <1>1, ElementOfSeq, LenProperties
  <2>2. /\ KeyOf[folded[i]] \in TerminalKeys
        /\ HashOf[folded[i]] = terminal[KeyOf[folded[i]]]
    BY <1>1 DEF FoldedRight
  <2>3. UnitsAt(KeyOf[folded[i]], terminal[KeyOf[folded[i]]]) = UnitsOf[folded[i]]
    BY <2>1, <2>2, SameUnits
  <2> QED BY <2>2, <2>3 DEF Covering, Having
<1>3. \A k \in Covering(u) : \E i \in DOMAIN folded : KeyOf[folded[i]] = k
  BY <1>1 DEF FoldedRight, KeysOf, Covering
<1>4. Having(u, folded) \subseteq DOMAIN folded
  BY DEF Having
<1> QED BY <1>2, <1>3, <1>4

(* The output has every unit of the items the run was started with exactly as  *)
(* often as they do, after any splits, retries, failures and restarts           *)
(* (terminal_keys, folded by _fold).                                            *)
THEOREM CoverageHolds == Spec => []ExactCoverage
<1>1. ASSUME IInv, CoverInv
      PROVE  ExactCoverage
  <2> SUFFICES ASSUME pc \in {"cleaning", "returned"}, NEW u \in AllUnits
               PROVE  Cardinality(Having(u, folded)) = Cardinality(Having(u, job))
    BY DEF ExactCoverage, AllUnits, Having
  <2>1. /\ error = "none" /\ Conserved /\ FoldedRight /\ roots = <<>>
        /\ folded \in Seq(Payloads)
    BY <1>1 DEF IInv, PhaseErrors, TypeInv, TypeOK, CoverInv
  <2>2. Cardinality(Having(u, roots)) = 0
    BY <2>1, FS_EmptySet DEF Having
  <2>3. Cardinality(Covering(u)) = Cardinality(Having(u, folded))
    BY <1>1, <2>1, FoldedKeys, KeysHaving DEF FoldedRight
  <2>4. Cardinality(Covering(u)) + Cardinality(Having(u, roots)) = Cardinality(Having(u, job))
    BY <2>1 DEF Conserved
  <2> QED BY <2>2, <2>3, <2>4, CoveringFinite
<1>2. Init => IInv /\ CoverInv
  BY InvInit, CoverInit
<1>3. (IInv /\ CoverInv) /\ [Next]_vars => (IInv /\ CoverInv)'
  BY InvStep, CoverStep
<1> QED BY <1>1, <1>2, <1>3, PTL DEF Spec
=============================================================================
