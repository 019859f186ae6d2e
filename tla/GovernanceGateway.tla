------------------------- MODULE GovernanceGateway -------------------------
(***************************************************************************)
(* The gates on the execution path, services/governance/runtime.py and     *)
(* gates.py: submitted work, human approvals, and the ledger of            *)
(* reservations under a hard cap.                                          *)
(*                                                                         *)
(* Each store opens its own connection per call, so decide is three        *)
(* transactions (read the work, write the decision, mark a denial) and     *)
(* execute is six (read the work, read the approval, reserve, run,         *)
(* reconcile the ledger, write the outcome).  deciding, denying, admitted  *)
(* and cleared remember the callers that have passed a step; they are      *)
(* never pruned, because any number of callers may have passed it and a    *)
(* caller that dies is one that takes no further step.  Past the           *)
(* reservation there is one executor per request, whose progress is        *)
(* stage.  Medium risk is treated like low.                                *)
(***************************************************************************)
EXTENDS Naturals, FiniteSets

CONSTANTS
    Request,   \* request_id values
    Secret,    \* secret_id values
    Price,     \* the quote for one runtime_execution unit
    HardCap    \* hard_cap_minor

ASSUME GatewayAssumption == Price \in Nat /\ HardCap \in Nat

VARIABLES
    secret_references,  \* registered secret ids
    governed_work,      \* governed_work.status
    high_risk,          \* requests whose admission is REQUIRE_APPROVAL
    approvals,          \* approvals.status
    ledger,             \* ledger.status
    actual_minor,       \* ledger.actual_minor
    deciding,           \* <<request, decision>> of callers that saw it pending
    denying,            \* requests whose denial is written but not yet marked
    admitted,           \* requests an executor saw pending
    cleared,            \* requests an executor saw approved, or that need none
    stage,              \* progress of the executor that reserved
    runs                \* how often the runtime executed the request

stores  == <<secret_references, governed_work, high_risk, approvals, ledger, actual_minor>>
callers == <<deciding, denying, admitted, cleared, stage, runs>>
vars    == <<stores, callers>>

WorkStatus == {"none", "pending", "denied", "executed", "failed"}
Stages     == {"none", "authorized", "succeeded", "raised", "charged", "refunded", "done"}

\* COALESCE(actual_minor, reserved_minor) of one row.
Held(r) ==
    CASE ledger[r] = "none"       -> 0
      [] ledger[r] = "reserved"   -> Price
      [] ledger[r] = "reconciled" -> actual_minor[r]

\* SUM(COALESCE(actual_minor, reserved_minor)), counted unit by unit: unit n of
\* request r is in use when its row holds at least n.
UnitsInUse == {u \in Request \X (1..Price) : u[2] <= Held(u[1])}

Used == Cardinality(UnitsInUse)

Init ==
    /\ secret_references = {}
    /\ governed_work = [r \in Request |-> "none"]
    /\ high_risk = {}
    /\ approvals = [r \in Request |-> "none"]
    /\ ledger = [r \in Request |-> "none"]
    /\ actual_minor = [r \in Request |-> 0]
    /\ deciding = {}
    /\ denying = {}
    /\ admitted = {}
    /\ cleared = {}
    /\ stage = [r \in Request |-> "none"]
    /\ runs = [r \in Request |-> 0]

RegisterSecretReference(s) ==
    /\ s \notin secret_references
    /\ secret_references' = secret_references \union {s}
    /\ UNCHANGED <<governed_work, high_risk, approvals, ledger, actual_minor, callers>>

\* submit, with the secrets it names; risk is {r} for high and {} otherwise.
\* The SELECT of the references and the INSERT are two statements, but
\* references are never deleted.
Submit(r, secrets, risk) ==
    /\ secrets \subseteq secret_references
    /\ governed_work[r] = "none"
    /\ governed_work' = [governed_work EXCEPT ![r] = "pending"]
    /\ high_risk' = high_risk \union risk
    /\ UNCHANGED <<secret_references, approvals, ledger, actual_minor, callers>>

----------------------------------------------------------------------------
(* decide                                                                  *)

\* The checks of decide; the approver is another person than the requester.
DecideCheck(r, decision) ==
    /\ governed_work[r] = "pending"
    /\ r \in high_risk
    /\ deciding' = deciding \union {<<r, decision>>}
    /\ UNCHANGED <<stores, denying, admitted, cleared, stage, runs>>

\* HumanApprovalStore.decide: the last decision wins.
DecideWrite(r, decision) ==
    /\ <<r, decision>> \in deciding
    /\ approvals' = [approvals EXCEPT ![r] = decision]
    /\ denying' = IF decision = "denied" THEN denying \union {r} ELSE denying
    /\ UNCHANGED <<secret_references, governed_work, high_risk, ledger, actual_minor,
                   deciding, admitted, cleared, stage, runs>>

\* The UPDATE that marks a denied request, whatever its status is by now.
DecideMark(r) ==
    /\ r \in denying
    /\ governed_work' = [governed_work EXCEPT ![r] = "denied"]
    /\ UNCHANGED <<secret_references, high_risk, approvals, ledger, actual_minor, callers>>

----------------------------------------------------------------------------
(* authorize_billable, the runtime, reconcile_billable                     *)

\* authorize_billable reads the work: it is pending.
AuthorizeRead(r) ==
    /\ governed_work[r] = "pending"
    /\ admitted' = admitted \union {r}
    /\ UNCHANGED <<stores, deciding, denying, cleared, stage, runs>>

\* A gate that lets high-risk work pass unless it was denied.
PassesMutant(r) == r \in high_risk => approvals[r] # "denied"

Passes(r) == r \in high_risk => approvals[r] = "approved"

\* SecurityFinanceGate.authorize: high-risk work needs its approval.
AuthorizeApproval(r) ==
    /\ r \in admitted
    /\ Passes(r)
    /\ cleared' = cleared \union {r}
    /\ UNCHANGED <<stores, deciding, denying, admitted, stage, runs>>

\* A cap that forgets the amount about to be reserved.
UnderCapMutant == Used <= HardCap

UnderCap == Used + Price <= HardCap

\* A reservation that overwrites the one of an earlier execution.
UnreservedMutant(r) == ledger[r] # "reserved"

\* The primary key of ledger.
Unreserved(r) == ledger[r] = "none"

\* FinancialLedger.reserve, one transaction.
Reserve(r) ==
    /\ r \in cleared
    /\ UnderCap
    /\ Unreserved(r)
    /\ ledger' = [ledger EXCEPT ![r] = "reserved"]
    /\ stage' = [stage EXCEPT ![r] = "authorized"]
    /\ UNCHANGED <<secret_references, governed_work, high_risk, approvals, actual_minor,
                   deciding, denying, admitted, cleared, runs>>

\* The runtime executes the request and succeeds or raises.
RunWork(r, outcome) ==
    /\ stage[r] = "authorized"
    /\ stage' = [stage EXCEPT ![r] = outcome]
    /\ runs' = [runs EXCEPT ![r] = @ + 1]
    /\ UNCHANGED <<stores, deciding, denying, admitted, cleared>>

\* A failed execution is charged like a successful one.
ChargeMutant(r) == Price

\* actual_minor: the amount after success, nothing after an exception.
Charge(r) == IF stage[r] = "succeeded" THEN Price ELSE 0

\* FinancialLedger.reconcile.
ReconcileLedger(r) ==
    /\ stage[r] \in {"succeeded", "raised"}
    /\ ledger' = [ledger EXCEPT ![r] = "reconciled"]
    /\ actual_minor' = [actual_minor EXCEPT ![r] = Charge(r)]
    /\ stage' = [stage EXCEPT ![r] = IF @ = "succeeded" THEN "charged" ELSE "refunded"]
    /\ UNCHANGED <<secret_references, governed_work, high_risk, approvals,
                   deciding, denying, admitted, cleared, runs>>

\* A status that is not one of the terminal ones.
OutcomeMutant(r) == stage[r]

\* The terminal status: only "executed" and "failed" are accepted.
Outcome(r) == IF stage[r] = "charged" THEN "executed" ELSE "failed"

\* The UPDATE of reconcile_billable, whatever the status is by now.
ReconcileWork(r) ==
    /\ stage[r] \in {"charged", "refunded"}
    /\ governed_work' = [governed_work EXCEPT ![r] = Outcome(r)]
    /\ stage' = [stage EXCEPT ![r] = "done"]
    /\ UNCHANGED <<secret_references, high_risk, approvals, ledger, actual_minor,
                   deciding, denying, admitted, cleared, runs>>

DecideStep(r) ==
    \/ \E decision \in {"approved", "denied"} : DecideCheck(r, decision) \/ DecideWrite(r, decision)
    \/ DecideMark(r)

ExecuteStep(r) ==
    \/ AuthorizeRead(r)
    \/ AuthorizeApproval(r)
    \/ Reserve(r)
    \/ \E outcome \in {"succeeded", "raised"} : RunWork(r, outcome)
    \/ ReconcileLedger(r)
    \/ ReconcileWork(r)

Next ==
    \/ \E s \in Secret : RegisterSecretReference(s)
    \/ \E r \in Request, secrets \in SUBSET Secret :
          \E risk \in {{}, {r}} : Submit(r, secrets, risk)
    \/ \E r \in Request : DecideStep(r) \/ ExecuteStep(r)

Spec == Init /\ [][Next]_vars

----------------------------------------------------------------------------
(* Properties                                                              *)

\* The stores hold rows of their declared kind.
TypeOK ==
    /\ secret_references \subseteq Secret
    /\ governed_work \in [Request -> WorkStatus]
    /\ high_risk \subseteq Request
    /\ approvals \in [Request -> {"none", "approved", "denied"}]
    /\ ledger \in [Request -> {"none", "reserved", "reconciled"}]
    /\ actual_minor \in [Request -> {0, Price}]
    /\ deciding \subseteq Request \X {"approved", "denied"}
    /\ denying \subseteq Request
    /\ admitted \subseteq Request
    /\ cleared \subseteq Request
    /\ stage \in [Request -> Stages]
    /\ runs \in [Request -> Nat]

\* Concurrent reservations and reconciliations never take the account over
\* its hard cap.
HardCapHolds == Used <= HardCap

\* However many callers execute a request at once, the runtime runs it at most
\* once, and only under a reservation.
RunsAtMostOnce ==
    \A r \in Request :
        /\ runs[r] <= 1
        /\ runs[r] = 1 => ledger[r] # "none"

\* "Absence ... always blocks": nothing high-risk runs that no person has
\* decided on.
UndecidedNeverRuns ==
    \A r \in high_risk : runs[r] > 0 => approvals[r] # "none"

\* The recorded outcome and the ledger agree: executed work was run and
\* charged, failed work was run and not charged, and a charge is never kept
\* for work the runtime did not run.
LedgerMatchesOutcome ==
    \A r \in Request :
        /\ governed_work[r] = "executed" =>
              runs[r] = 1 /\ ledger[r] = "reconciled" /\ actual_minor[r] = Price
        /\ governed_work[r] = "failed" =>
              runs[r] = 1 /\ ledger[r] = "reconciled" /\ actual_minor[r] = 0
        /\ ledger[r] = "reconciled" => runs[r] = 1

\* Governed work runs once, under a reservation, and not without the decision
\* it needs, in well-typed tables.
GatewayInv == TypeOK /\ RunsAtMostOnce /\ UndecidedNeverRuns
=============================================================================
