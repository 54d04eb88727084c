------------------------------- MODULE SharedCache ------------------------------
(***************************************************************************)
(* Runs of one job in several processes sharing a cache directory, each      *)
(* between acquire() and release() of its RunLock: what the lock is for.     *)
(*                                                                         *)
(* A store loads the manifest when it is opened and writes the whole of its  *)
(* own copy back at every commit (stores/base.py), so two stores open at     *)
(* once would undo each other's commits.  The constructor checks lock.held;  *)
(* nothing checks it again, so that a store is not used after release() is   *)
(* the caller's try/finally (docs/guides/getting-started.md).  The manifest  *)
(* is the set of its keys; ManifestStore has the rest.                       *)
(***************************************************************************)
EXTENDS RunLock

CONSTANT Keys

ASSUME KeysAssumption == None \notin Keys

VARIABLES
    manifest,  \* keys of the manifest on disk
    open,      \* whether a run has a store open
    mem,       \* its copy of the manifest (self._entries)
    pending,   \* the key a run is committing, or None
    wrote,     \* the manifest with that key has replaced the old one
    acked      \* history: keys whose commit() returned

storeVars == <<manifest, open, mem, pending, wrote, acked>>
vars == <<lockVars, storeVars>>

TypeOK ==
    /\ LockTypeOK
    /\ manifest \subseteq Keys /\ acked \subseteq Keys
    /\ open \in [Locks -> BOOLEAN] /\ mem \in [Locks -> SUBSET Keys]
    /\ pending \in [Locks -> Keys \cup {None}]
    /\ wrote \in [Locks -> BOOLEAN]

Init ==
    /\ LockInit
    /\ manifest = {} /\ acked = {}
    /\ open = [l \in Locks |-> FALSE] /\ mem = [l \in Locks |-> {}]
    /\ pending = [l \in Locks |-> None] /\ wrote = [l \in Locks |-> FALSE]

(* The thread of l is not inside a call of the store or of the lock. *)
Idle(l) == step[l] = "out" /\ pending[l] = None

(* A mutant: the constructor does not look at lock.held. *)
OpenStoreUnchecked(l) ==
    /\ Idle(l) /\ ~open[l]
    /\ open' = [open EXCEPT ![l] = TRUE]
    /\ mem' = [mem EXCEPT ![l] = manifest]
    /\ UNCHANGED <<lockVars, manifest, pending, wrote, acked>>

(* __init__: refused unless the lock is held, then the manifest is loaded. *)
OpenStore(l) ==
    /\ Idle(l) /\ held[l] /\ ~open[l]
    /\ open' = [open EXCEPT ![l] = TRUE]
    /\ mem' = [mem EXCEPT ![l] = manifest]
    /\ UNCHANGED <<lockVars, manifest, pending, wrote, acked>>

(* commit() of a key that is not in the cache: the entry, the manifest, the   *)
(* return; or, at any point, the exception that takes the entry back.         *)
AddEntry(l, k) ==
    /\ Idle(l) /\ open[l] /\ k \notin mem[l]
    /\ mem' = [mem EXCEPT ![l] = @ \cup {k}]
    /\ pending' = [pending EXCEPT ![l] = k]
    /\ UNCHANGED <<lockVars, manifest, open, wrote, acked>>

WriteManifest(l) ==
    /\ pending[l] # None /\ ~wrote[l]
    /\ manifest' = mem[l]
    /\ wrote' = [wrote EXCEPT ![l] = TRUE]
    /\ UNCHANGED <<lockVars, open, mem, pending, acked>>

CommitReturns(l) ==
    /\ pending[l] # None /\ wrote[l]
    /\ acked' = acked \cup {pending[l]}
    /\ pending' = [pending EXCEPT ![l] = None]
    /\ wrote' = [wrote EXCEPT ![l] = FALSE]
    /\ UNCHANGED <<lockVars, manifest, open, mem>>

CommitRaises(l) ==
    /\ pending[l] # None
    /\ mem' = [mem EXCEPT ![l] = @ \ {pending[l]}]
    /\ pending' = [pending EXCEPT ![l] = None]
    /\ wrote' = [wrote EXCEPT ![l] = FALSE]
    /\ UNCHANGED <<lockVars, manifest, open, acked>>

(* The run is over: its store is dropped and the lock released. *)
EndRun(l) ==
    /\ Idle(l) /\ Unlock(l)
    /\ open' = [open EXCEPT ![l] = FALSE]
    /\ mem' = [mem EXCEPT ![l] = {}]
    /\ UNCHANGED <<manifest, pending, wrote, acked>>

LockStep(l) ==
    /\ pending[l] = None
    /\ Acquire(l) \/ Continue(l) \/ Expire(l)
    /\ UNCHANGED storeVars

Killed(l) ==
    /\ Die(l)
    /\ open' = [open EXCEPT ![l] = FALSE]
    /\ mem' = [mem EXCEPT ![l] = {}]
    /\ pending' = [pending EXCEPT ![l] = None]
    /\ wrote' = [wrote EXCEPT ![l] = FALSE]
    /\ UNCHANGED <<manifest, acked>>

Next == \E l \in Locks :
    \/ LockStep(l) \/ OpenStore(l)
    \/ \E k \in Keys : AddEntry(l, k)
    \/ WriteManifest(l) \/ CommitReturns(l) \/ CommitRaises(l)
    \/ EndRun(l) \/ Killed(l)

Spec == Init /\ [][Next]_vars

(* A thread inside acquire(), release() or commit() goes on, and so does the   *)
(* clock; nobody has to release the lock.                                      *)
FairSpec ==
    /\ Spec
    /\ \A l \in Locks :
         /\ WF_vars(LockStep(l) /\ Continue(l))
         /\ WF_vars(LockStep(l) /\ Expire(l))
         /\ WF_vars(WriteManifest(l) \/ CommitReturns(l) \/ CommitRaises(l))

-----------------------------------------------------------------------------
(* No run undoes the commit of another: a key whose commit() returned stays in *)
(* the manifest on disk, whoever writes it next and whoever dies meanwhile.    *)
NoLostUpdate == acked \subseteq manifest

(* The strengthening that makes both inductive: the kernel's owner is exactly  *)
(* the object inside (or about to be), only that one has a store open, and an  *)
(* open store knows every acknowledged key, none of them pending.              *)
Owns(l) == step[l] = "recording" \/ Inside(l)
Ownership == \A l \in Locks : owner = l <=> Owns(l)
OpenUnderLock ==
    \A l \in Locks :
        /\ open[l] => Inside(l) /\ acked \subseteq mem[l]
        /\ pending[l] = None => ~wrote[l]
        /\ pending[l] # None =>
             /\ open[l] /\ step[l] = "out"
             /\ pending[l] \in mem[l] /\ pending[l] \notin acked
             /\ wrote[l] => pending[l] \in manifest
=============================================================================
