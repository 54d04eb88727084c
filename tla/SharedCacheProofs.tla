---------------------------- MODULE SharedCacheProofs ---------------------------
(***************************************************************************)
(* Proofs about SharedCache, for any number of runs and keys: no two runs    *)
(* are inside the lock at once, and no acknowledged commit is undone.        *)
(***************************************************************************)
EXTENDS SharedCache, TLAPS

(* The invariant: types, who owns the lock, and what an open store knows. *)
IInv == TypeOK /\ Ownership /\ OpenUnderLock /\ NoLostUpdate

USE LocksAssumption, KeysAssumption

(* Only one object owns the lock: the kernel has one owner. *)
LEMMA OneOwner ==
    ASSUME Ownership, NEW l \in Locks, NEW m \in Locks, Owns(l), Owns(m)
    PROVE  l = m
BY DEF Ownership

LEMMA InitIInv == Init => IInv
BY DEF Init, LockInit, IInv, TypeOK, LockTypeOK, Steps, Ownership, Owns, Inside,
       OpenUnderLock, NoLostUpdate

(* The types are kept by every step. *)
LEMMA TypeStep ==
    ASSUME TypeOK, [Next]_vars
    PROVE  TypeOK'
<1> USE DEF TypeOK, LockTypeOK, Steps, Goto, Forget
<1>1. ASSUME NEW l \in Locks, LockStep(l)
      PROVE  TypeOK'
  <2>1. CASE TryLock(l)
    BY <1>1, <2>1 DEF LockStep, storeVars, TryLock
  <2>2. CASE TryRefused(l)
    BY <1>1, <2>2 DEF LockStep, storeVars, TryRefused
  <2>3. CASE GiveUp(l)
    BY <1>1, <2>3 DEF LockStep, storeVars, GiveUp
  <2>4. CASE Acquire(l) \/ Sleep(l) \/ Wake(l)
    BY <1>1, <2>4 DEF LockStep, storeVars, Acquire, Sleep, Wake
  <2>5. CASE Expire(l)
    BY <1>1, <2>5 DEF LockStep, storeVars, Expire
  <2>6. CASE Acquired(l) \/ Close(l)
    BY <1>1, <2>6 DEF LockStep, storeVars, Acquired, Close
  <2> QED BY <1>1, <2>1, <2>2, <2>3, <2>4, <2>5, <2>6 DEF LockStep, Continue
<1>2. ASSUME NEW l \in Locks, OpenStore(l)
      PROVE  TypeOK'
  BY <1>2 DEF OpenStore, lockVars
<1>3. ASSUME NEW l \in Locks, NEW k \in Keys, AddEntry(l, k)
      PROVE  TypeOK'
  BY <1>3 DEF AddEntry, lockVars
<1>4. ASSUME NEW l \in Locks, WriteManifest(l) \/ CommitReturns(l) \/ CommitRaises(l)
      PROVE  TypeOK'
  <2>1. CASE WriteManifest(l)
    BY <2>1 DEF WriteManifest, lockVars
  <2>2. CASE CommitReturns(l)
    BY <2>2 DEF CommitReturns, lockVars
  <2>3. CASE CommitRaises(l)
    BY <2>3 DEF CommitRaises, lockVars
  <2> QED BY <1>4, <2>1, <2>2, <2>3
<1>5. ASSUME NEW l \in Locks, EndRun(l) \/ Killed(l)
      PROVE  TypeOK'
  <2>1. CASE EndRun(l)
    BY <2>1 DEF EndRun, Unlock
  <2>2. CASE Killed(l)
    BY <2>2 DEF Killed, Die
  <2> QED BY <1>5, <2>1, <2>2
<1>6. CASE UNCHANGED vars
  BY <1>6 DEF vars, lockVars, storeVars
<1> QED BY <1>1, <1>2, <1>3, <1>4, <1>5, <1>6 DEF Next

(* The kernel's owner stays the one object that is inside. *)
LEMMA OwnershipStep ==
    ASSUME TypeOK, Ownership, [Next]_vars
    PROVE  Ownership'
<1> USE DEF TypeOK, LockTypeOK, Ownership, Owns, Inside, Goto, Forget
<1>1. ASSUME NEW l \in Locks, LockStep(l)
      PROVE  Ownership'
  <2>1. CASE TryLock(l)
    BY <2>1 DEF TryLock
  <2>2. CASE Acquired(l)
    BY <2>2 DEF Acquired
  <2>3. CASE Close(l)
    BY <2>3 DEF Close
  <2>4. CASE Acquire(l) \/ TryRefused(l) \/ GiveUp(l)
    BY <2>4 DEF Acquire, TryRefused, GiveUp
  <2>5. CASE Sleep(l) \/ Wake(l) \/ Expire(l)
    BY <2>5 DEF Sleep, Wake, Expire
  <2> QED BY <1>1, <2>1, <2>2, <2>3, <2>4, <2>5 DEF LockStep, Continue
<1>2. ASSUME NEW l \in Locks, OpenStore(l)
      PROVE  Ownership'
  BY <1>2 DEF OpenStore, lockVars
<1>3. ASSUME NEW l \in Locks, NEW k \in Keys, AddEntry(l, k)
      PROVE  Ownership'
  BY <1>3 DEF AddEntry, lockVars
<1>4. ASSUME NEW l \in Locks, WriteManifest(l) \/ CommitReturns(l) \/ CommitRaises(l)
      PROVE  Ownership'
  BY <1>4 DEF WriteManifest, CommitReturns, CommitRaises, lockVars
<1>5. ASSUME NEW l \in Locks, EndRun(l)
      PROVE  Ownership'
  BY <1>5 DEF EndRun, Unlock
<1>6. ASSUME NEW l \in Locks, Killed(l)
      PROVE  Ownership'
  BY <1>6 DEF Killed, Die
<1>7. CASE UNCHANGED vars
  BY <1>7 DEF vars, lockVars
<1> QED BY <1>1, <1>2, <1>3, <1>4, <1>5, <1>6, <1>7 DEF Next

(* What an open store knows, and what is on disk. *)
LEMMA StoreStep ==
    ASSUME IInv, [Next]_vars
    PROVE  OpenUnderLock' /\ NoLostUpdate'
<1> USE DEF IInv, TypeOK, LockTypeOK, OpenUnderLock, NoLostUpdate, Inside, Goto, Forget
<1>0. \A l, m \in Locks : open[l] /\ open[m] => l = m
  BY OneOwner DEF Owns
<1>1. ASSUME NEW l \in Locks, LockStep(l)
      PROVE  OpenUnderLock' /\ NoLostUpdate'
  <2>1. CASE Close(l)
    BY <1>1, <2>1 DEF Close, LockStep, storeVars
  <2>2. CASE Acquired(l)
    BY <1>1, <2>2 DEF Acquired, LockStep, storeVars
  <2>3. CASE TryLock(l) \/ Acquire(l) \/ TryRefused(l) \/ GiveUp(l)
    BY <1>1, <2>3 DEF TryLock, Acquire, TryRefused, GiveUp, LockStep, storeVars
  <2>4. CASE Sleep(l) \/ Wake(l) \/ Expire(l)
    BY <1>1, <2>4 DEF Sleep, Wake, Expire, LockStep, storeVars
  <2> QED BY <1>1, <2>1, <2>2, <2>3, <2>4 DEF LockStep, Continue
<1>2. ASSUME NEW l \in Locks, OpenStore(l)
      PROVE  OpenUnderLock' /\ NoLostUpdate'
  BY <1>2 DEF OpenStore, Idle, lockVars
<1>3. ASSUME NEW l \in Locks, NEW k \in Keys, AddEntry(l, k)
      PROVE  OpenUnderLock' /\ NoLostUpdate'
  BY <1>3 DEF AddEntry, Idle, lockVars
<1>4. ASSUME NEW l \in Locks, WriteManifest(l)
      PROVE  OpenUnderLock' /\ NoLostUpdate'
  BY <1>0, <1>4 DEF WriteManifest, lockVars
<1>5. ASSUME NEW l \in Locks, CommitReturns(l)
      PROVE  OpenUnderLock' /\ NoLostUpdate'
  BY <1>0, <1>5 DEF CommitReturns, lockVars
<1>6. ASSUME NEW l \in Locks, CommitRaises(l)
      PROVE  OpenUnderLock' /\ NoLostUpdate'
  BY <1>0, <1>6 DEF CommitRaises, lockVars
<1>7. ASSUME NEW l \in Locks, EndRun(l)
      PROVE  OpenUnderLock' /\ NoLostUpdate'
  BY <1>7 DEF EndRun, Unlock, Idle
<1>8. ASSUME NEW l \in Locks, Killed(l)
      PROVE  OpenUnderLock' /\ NoLostUpdate'
  BY <1>8 DEF Killed, Die
<1>9. CASE UNCHANGED vars
  BY <1>9 DEF vars, lockVars, storeVars
<1> QED BY <1>1, <1>2, <1>3, <1>4, <1>5, <1>6, <1>7, <1>8, <1>9 DEF Next

(* The invariant holds in every reachable state. *)
LEMMA Invariance == Spec => []IInv
<1>1. IInv /\ [Next]_vars => IInv'
  BY TypeStep, OwnershipStep, StoreStep DEF IInv
<1> QED BY InitIInv, <1>1, PTL DEF Spec

(* Two runs are never inside the lock at once (LockProvider.acquire, release). *)
THEOREM LockExcludes == Spec => []MutualExclusion
<1>1. IInv => MutualExclusion
  BY OneOwner DEF IInv, MutualExclusion, Owns
<1> QED BY Invariance, <1>1, PTL

(* A commit that returned is never undone by another run's manifest            *)
(* (AtomicManifestStore._write_manifest under a held lock).                    *)
THEOREM CommitsKept == Spec => []NoLostUpdate
<1>1. IInv => NoLostUpdate
  BY DEF IInv
<1> QED BY Invariance, <1>1, PTL
=============================================================================
