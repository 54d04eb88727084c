-------------------------------- MODULE RunLock --------------------------------
(***************************************************************************)
(* The run-scope lock (locking.py): LockProvider with its POSIX (flock) and  *)
(* Windows (msvcrt.locking) forms, which differ in the system call only.     *)
(*                                                                         *)
(* A lock object belongs to one thread of one process; all of them name the  *)
(* same lockfile.  acquire() opens a handle of its own, so an object that    *)
(* holds the lock and calls acquire() again is refused like anybody else.    *)
(* The text a holder leaves in the lockfile feeds an error message only and  *)
(* is left out; self.held and self._fd change together and are one variable. *)
(***************************************************************************)
CONSTANTS
    Locks,        \* LockProvider objects on one lockfile
    LockErrors,   \* TRUE: the locking call may fail on a lock nobody holds
    None          \* sentinel: nobody

ASSUME LocksAssumption == None \notin Locks /\ LockErrors \in BOOLEAN

VARIABLES
    owner,    \* the object whose handle the kernel has granted the lock
    held,     \* self.held: acquire() returned, release() is not over
    step,     \* where the object's thread is in acquire() or release()
    expired,  \* the clock has passed this acquire()'s deadline
    seen      \* history: who owned the lock at the last refused attempt

lockVars == <<owner, held, step, expired, seen>>

Steps == {"out", "trying", "refused", "polling", "recording", "unlocked"}
Waiting == {"trying", "refused", "polling"}

LockTypeOK ==
    /\ owner \in Locks \cup {None}
    /\ held \in [Locks -> BOOLEAN]
    /\ step \in [Locks -> Steps]
    /\ expired \in [Locks -> BOOLEAN]
    /\ seen \in [Locks -> Locks \cup {None}]

LockInit ==
    /\ owner = None
    /\ held = [l \in Locks |-> FALSE] /\ step = [l \in Locks |-> "out"]
    /\ expired = [l \in Locks |-> FALSE] /\ seen = [l \in Locks |-> None]

Goto(l, from, to) == step[l] = from /\ step' = [step EXCEPT ![l] = to]

(* The deadline and the last refusal are local to one acquire(). *)
Forget(l) ==
    /\ expired' = [expired EXCEPT ![l] = FALSE]
    /\ seen' = [seen EXCEPT ![l] = None]

(* acquire(): the lockfile is opened, the deadline set. *)
Acquire(l) ==
    /\ Goto(l, "out", "trying")
    /\ UNCHANGED <<owner, held, expired, seen>>

(* A mutant: the lock is asked for in shared mode. *)
TryLockShared(l) ==
    /\ Goto(l, "trying", "recording") /\ owner' = l /\ Forget(l)
    /\ UNCHANGED held

(* _try_lock succeeds: no handle has the lock. *)
TryLock(l) ==
    /\ Goto(l, "trying", "recording")
    /\ owner = None /\ owner' = l /\ Forget(l)
    /\ UNCHANGED held

(* _try_lock returns False: another handle has it, or any OSError at all. *)
TryRefused(l) ==
    /\ Goto(l, "trying", "refused")
    /\ owner # None \/ LockErrors
    /\ seen' = [seen EXCEPT ![l] = owner]
    /\ UNCHANGED <<owner, held, expired>>

(* CacheLockedError: the deadline has passed; the handle is closed. *)
GiveUp(l) ==
    /\ Goto(l, "refused", "out") /\ expired[l] /\ Forget(l)
    /\ UNCHANGED <<owner, held>>

Sleep(l) ==
    /\ Goto(l, "refused", "polling") /\ ~expired[l]
    /\ UNCHANGED <<owner, held, expired, seen>>

(* A mutant: the deadline is computed anew for every attempt. *)
WakeResetting(l) ==
    /\ Goto(l, "polling", "trying") /\ expired' = [expired EXCEPT ![l] = FALSE]
    /\ UNCHANGED <<owner, held, seen>>

Wake(l) ==
    /\ Goto(l, "polling", "trying")
    /\ UNCHANGED <<owner, held, expired, seen>>

(* The clock passes the deadline of an acquire() in progress. *)
Expire(l) ==
    /\ step[l] \in Waiting /\ ~expired[l]
    /\ expired' = [expired EXCEPT ![l] = TRUE]
    /\ UNCHANGED <<owner, held, step, seen>>

(* acquire() returns. *)
Acquired(l) ==
    /\ Goto(l, "recording", "out")
    /\ held' = [held EXCEPT ![l] = TRUE]
    /\ UNCHANGED <<owner, expired, seen>>

(* release(): nothing without a handle; else unlock, then close. *)
Unlock(l) ==
    /\ held[l] /\ Goto(l, "out", "unlocked")
    /\ owner' = None
    /\ UNCHANGED <<held, expired, seen>>

Close(l) ==
    /\ Goto(l, "unlocked", "out")
    /\ held' = [held EXCEPT ![l] = FALSE]
    /\ UNCHANGED <<owner, expired, seen>>

(* The process dies: the kernel closes its handles, and a new one may start. *)
Die(l) ==
    /\ owner' = IF owner = l THEN None ELSE owner
    /\ held' = [held EXCEPT ![l] = FALSE]
    /\ step' = [step EXCEPT ![l] = "out"]
    /\ Forget(l)

(* What the thread does by itself once it has called acquire() or release(). *)
Continue(l) ==
    \/ TryLock(l) \/ TryRefused(l) \/ GiveUp(l) \/ Sleep(l) \/ Wake(l)
    \/ Acquired(l) \/ Close(l)

LockNext == \E l \in Locks :
    Acquire(l) \/ Continue(l) \/ Expire(l) \/ Unlock(l) \/ Die(l)

LockSpec == LockInit /\ [][LockNext]_lockVars

-----------------------------------------------------------------------------
(* Between the return of acquire() and the unlocking call of release(). *)
Inside(l) == held[l] /\ step[l] # "unlocked"

(* Two objects are never inside at once, whatever processes die or time out   *)
(* when ("so two runs can't corrupt one cache").                              *)
MutualExclusion == \A l, m \in Locks : Inside(l) /\ Inside(m) => l = m

(* acquire() comes to an end although the lock is never released: the deadline *)
(* is fixed once, before the first attempt.                                   *)
AcquireEnds == \A l \in Locks : step[l] = "trying" ~> step[l] \notin Waiting

(* An acquire() that is refused met another holder (LockProvider._try_lock:   *)
(* "False if held by another process. Raise on hard errors.").  The POSIX and *)
(* Windows forms take every OSError for contention.                           *)
RefusedMeansHeld == \A l \in Locks : step[l] = "refused" => seen[l] # None
=============================================================================
