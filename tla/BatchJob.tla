------------------------------- MODULE BatchJob --------------------------------
(***************************************************************************)
(* What a caller of run_checkpointed may rely on, without queues, workers,   *)
(* timers or counters: a job is a set of keys to deliver; each is settled    *)
(* once, from the store or by computing it, or gives way to the keys it is   *)
(* split into; the job delivers when all are settled, or fails; and what is  *)
(* settled outlives failures and crashes.                                    *)
(***************************************************************************)
EXTENDS FiniteSets

CONSTANTS Payloads, Keys, Hashes, KeyOf, HashOf, CleanupOnSuccess, PowerLossOn, None

VARIABLES
    status,   \* "idle", "running", "delivered" or "failed"
    leaves,   \* key -> hash of the results the output is made of, or None
    pending,  \* the keys among them not settled yet
    kept,     \* the store: key -> payload whose result is kept, or None
    output    \* the payloads whose results were delivered

jobVars == <<status, leaves, pending, kept, output>>

Nothing == [k \in Keys |-> None]

Init ==
    /\ status = "idle" /\ leaves = Nothing /\ pending = {}
    /\ kept = Nothing /\ output = {}

(* The identities of a set of payloads, no two with the same key. *)
OneKeyEach(ps) == \A p, q \in ps : KeyOf[p] = KeyOf[q] => p = q
KeySet(ps) == {KeyOf[p] : p \in ps}
Identities(map, ps) ==
    [k \in Keys |-> IF k \in KeySet(ps)
                    THEN HashOf[CHOOSE p \in ps : KeyOf[p] = k] ELSE map[k]]

(* A job is set up with items of distinct keys. *)
Begin(ps) ==
    /\ status = "idle" /\ OneKeyEach(ps)
    /\ status' = "running"
    /\ leaves' = Identities(Nothing, ps) /\ pending' = KeySet(ps)
    /\ UNCHANGED <<kept, output>>

(* A key whose result is in the store under the hash expected is settled. *)
Skip(k) ==
    /\ status = "running" /\ k \in pending
    /\ kept[k] # None /\ HashOf[kept[k]] = leaves[k]
    /\ pending' = pending \ {k}
    /\ UNCHANGED <<status, leaves, kept, output>>

(* A key that is not in the store is computed and kept. *)
Settle(k, p) ==
    /\ status = "running" /\ k \in pending /\ kept[k] = None
    /\ KeyOf[p] = k /\ HashOf[p] = leaves[k]
    /\ kept' = [kept EXCEPT ![k] = p]
    /\ pending' = pending \ {k}
    /\ UNCHANGED <<status, leaves, output>>

(* A pending key gives way to one or more new keys. *)
Replace(k, ps) ==
    /\ status = "running" /\ k \in pending
    /\ ps # {} /\ OneKeyEach(ps)
    /\ \A p \in ps : leaves[KeyOf[p]] = None
    /\ leaves' = Identities([leaves EXCEPT ![k] = None], ps)
    /\ pending' = (pending \ {k}) \cup KeySet(ps)
    /\ UNCHANGED <<status, kept, output>>

(* All is settled: exactly the results of the leaves are delivered. *)
Deliver ==
    /\ status = "running" /\ pending = {}
    /\ \A k \in Keys : leaves[k] # None =>
                         kept[k] # None /\ HashOf[kept[k]] = leaves[k]
    /\ status' = "delivered"
    /\ output' = {kept[k] : k \in {l \in Keys : leaves[l] # None}}
    /\ UNCHANGED <<leaves, pending, kept>>

(* After the delivery the results may be removed. *)
Forget ==
    /\ status = "delivered" /\ CleanupOnSuccess
    /\ \E gone \in SUBSET Keys :
         kept' = [k \in Keys |-> IF k \in gone THEN None ELSE kept[k]]
    /\ UNCHANGED <<status, leaves, pending, output>>

(* At most one more result, whose commit broke off, is kept. *)
BrokenOff ==
    \/ kept' = kept
    \/ \E k \in pending, p \in Payloads :
         /\ kept[k] = None /\ KeyOf[p] = k /\ HashOf[p] = leaves[k]
         /\ kept' = [kept EXCEPT ![k] = p]

(* The job fails. *)
Fail ==
    /\ status \in {"idle", "running"} /\ status' = "failed"
    /\ leaves' = Nothing /\ pending' = {}
    /\ BrokenOff
    /\ UNCHANGED output

(* The process is killed, or a finished job is about to be run again. *)
Reset ==
    /\ status' = "idle" /\ leaves' = Nothing /\ pending' = {} /\ output' = {}
    /\ \/ BrokenOff
       \/ /\ PowerLossOn
          /\ \A k \in Keys : kept'[k] \in {p \in Payloads : KeyOf[p] = k} \cup {None}

Next ==
    \/ Fail \/ Reset \/ Deliver \/ Forget
    \/ \E k \in Keys : Skip(k)
    \/ \E k \in Keys, p \in Payloads : Settle(k, p)
    \/ \E k \in Keys, ps \in SUBSET Payloads : Replace(k, ps)
    \/ \E ps \in SUBSET Payloads : Begin(ps)

Spec == Init /\ [][Next]_jobVars
=============================================================================
