----------------------------- MODULE ProductSaga -----------------------------
(***************************************************************************)
(* What a product runtime promises the coordinator about each product, and *)
(* all the coordinator of a multi-capability request relies on: a product  *)
(* is charged before it is finalized, leaves "pending" once, and can only  *)
(* be accepted after "finalizing".                                         *)
(*                                                                         *)
(* ExecutionCoordinator, with the transactions of ProductRuntime spelled   *)
(* out, implements this specification (Saga!SagaSpec there); MultiExecution    *)
(* composes several products by these actions.                             *)
(***************************************************************************)
CONSTANT Product

VARIABLES
    product,   \* product_proofs.status of each product; "none": no row
    charged    \* products whose grant was charged

saga == <<product, charged>>

Closed == {"failed", "interrupted", "cancelled"}

SagaInit ==
    /\ product = [p \in Product |-> "none"]
    /\ charged = {}

\* UPDATE product_proofs SET status = to WHERE status = from.
Move(p, from, to) ==
    /\ product[p] = from
    /\ product' = [product EXCEPT ![p] = to]
    /\ UNCHANGED charged

PrepareProof(p) == Move(p, "none", "pending")

\* The grant is charged while the product runs; a product that is closed
\* meanwhile does not stop an executor that has passed its checks.
ChargeProof(p) ==
    /\ product[p] \in Closed \union {"pending"}
    /\ charged' = charged \union {p}
    /\ UNCHANGED product

\* The point of no return.
FinalizeProof(p) == p \in charged /\ Move(p, "pending", "finalizing")

AcceptProof(p) == Move(p, "finalizing", "accepted")

CloseProof(p, how) == how \in Closed /\ Move(p, "pending", how)

SagaNext ==
    \E p \in Product :
        \/ PrepareProof(p)
        \/ ChargeProof(p)
        \/ FinalizeProof(p)
        \/ AcceptProof(p)
        \/ \E how \in Closed : CloseProof(p, how)

SagaSpec == SagaInit /\ [][SagaNext]_saga
=============================================================================
