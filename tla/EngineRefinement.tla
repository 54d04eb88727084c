--------------------------- MODULE EngineRefinement ----------------------------
(* Engine implements BatchJob: the coordinator's queues are what is pending,   *)
(* its terminal_hash the leaves, the folded results the output.                *)
EXTENDS Engine

Status ==
    IF pc \in {"idle", "admit"} THEN (IF error = "none" THEN "idle" ELSE "failed")
    ELSE IF error # "none" THEN "failed"
    ELSE IF pc \in {"cleaning", "returned"} THEN "delivered" ELSE "running"

Underway == Status \in {"running", "delivered"}

Leaves == IF Underway THEN terminal ELSE Nothing
Pending == IF Underway THEN Outstanding ELSE {}
Delivered == IF Status = "delivered" THEN {folded[i] : i \in DOMAIN folded} ELSE {}

Job == INSTANCE BatchJob WITH
    status <- Status, leaves <- Leaves, pending <- Pending, kept <- stored,
    output <- Delivered

(* Every step of run_checkpointed is a step of the abstract job or invisible   *)
(* to it: nothing is settled twice, delivered unsettled, or lost with a        *)
(* failure.                                                                    *)
ImplementsBatchJob == Job!Spec
=============================================================================
