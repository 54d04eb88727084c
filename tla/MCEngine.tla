-------------------------------- MODULE MCEngine -------------------------------
(***************************************************************************)
(* Small instances of Engine for TLC: payload A splits into a1 and a2, B     *)
(* does not split, X has the key of B but another hash, Y the key and hash   *)
(* of B (the same work listed twice).                                        *)
(***************************************************************************)
EXTENDS Engine, TLC

CONSTANTS A, B, X, Y, a1, a2, hA, hB, hX, hAa, hAb

MCPayloads == {A, B, X, Y, a1, a2}
MCKeys == 1 .. 4
MCHashes == {hA, hB, hX, hAa, hAb}
MCKeyOf == (A :> 3) @@ (B :> 2) @@ (X :> 2) @@ (Y :> 2) @@ (a1 :> 1) @@ (a2 :> 4)
MCHashOf == (A :> hA) @@ (B :> hB) @@ (X :> hX) @@ (Y :> hB) @@ (a1 :> hAa) @@ (a2 :> hAb)
MCSizeOf == (A :> 2) @@ (B :> 0) @@ (X :> 0) @@ (Y :> 0) @@ (a1 :> 1) @@ (a2 :> 1)
MCUnitsOf == (A :> {1, 2}) @@ (B :> {3}) @@ (X :> {4}) @@ (Y :> {3}) @@ (a1 :> {1}) @@ (a2 :> {2})

(* The good split of A, and what faulty splitters return: nothing, a child of *)
(* the same size, the same child twice, a child with the parent's key.        *)
SplitsAnyhow == [p \in Payloads |->
    IF p = A THEN {<<a1, a2>>, <<>>, <<A>>, <<a1, a1>>}
    ELSE IF p = B THEN {<<B>>} ELSE {<<>>}]
SplitsWell == [p \in Payloads |-> IF p = A THEN {<<a1, a2>>} ELSE {<<>>}]

Kind(oom, split, transient, bad) ==
    [oom |-> oom, split |-> split, transient |-> transient, badRetryAfter |-> bad]
AllExceptions == {
    Kind(TRUE, TRUE, TRUE, FALSE),     \* out of memory, splittable
    Kind(TRUE, FALSE, TRUE, FALSE),    \* out of memory at the floor, marked transient too
    Kind(FALSE, TRUE, TRUE, FALSE),    \* too big, splittable
    Kind(FALSE, FALSE, TRUE, FALSE),   \* transient
    Kind(FALSE, FALSE, TRUE, TRUE),    \* transient with an unusable Retry-After
    Kind(FALSE, FALSE, FALSE, FALSE)}  \* anything else
SplitOrRetry == {Kind(TRUE, TRUE, FALSE, FALSE), Kind(FALSE, FALSE, TRUE, FALSE)}

WithAndWithoutB == {<<A, B>>, <<A>>}
ManyLists == {<<A, B>>, <<B, A>>, <<a1, B>>, <<X, A>>, <<B, Y>>}
Nobody == {}
HungB == {B}
=============================================================================
