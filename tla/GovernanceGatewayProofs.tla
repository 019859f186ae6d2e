---------------------- MODULE GovernanceGatewayProofs ----------------------
(***************************************************************************)
(* Proofs about the gates on the execution path, for any requests, any     *)
(* price and any hard cap, and any number of racing callers.               *)
(***************************************************************************)
EXTENDS GovernanceGateway, FiniteSetTheorems, TLAPS

\* A caller that got past a check still knows something true: the request was
\* submitted, and if it is high-risk somebody has decided on it.
CallersKnow ==
    /\ \A r \in admitted : governed_work[r] # "none"
    /\ cleared \subseteq admitted
    /\ \A r \in cleared \intersect high_risk : approvals[r] # "none"

\* The progress of the one executor agrees with ledger, runs and outcome.
StageMatches ==
    \A r \in Request :
        /\ stage[r] # "none" => r \in cleared
        /\ ledger[r] = (CASE stage[r] = "none" -> "none"
                          [] stage[r] \in {"authorized", "succeeded", "raised"} -> "reserved"
                          [] stage[r] \in {"charged", "refunded", "done"} -> "reconciled")
        /\ runs[r] = (IF stage[r] \in {"none", "authorized"} THEN 0 ELSE 1)
        /\ stage[r] = "charged" => actual_minor[r] = Price
        /\ stage[r] = "refunded" => actual_minor[r] = 0
        /\ governed_work[r] = "executed" => stage[r] = "done" /\ actual_minor[r] = Price
        /\ governed_work[r] = "failed" => stage[r] = "done" /\ actual_minor[r] = 0

\* The units in use can be counted and are under the cap.
CapInv == IsFiniteSet(UnitsInUse) /\ HardCapHolds

\* The inductive invariant of the gateway.
GatesInv == TypeOK /\ CallersKnow /\ StageMatches /\ CapInv

----------------------------------------------------------------------------
(* What a row holds                                                        *)

\* A row never holds more than the price.
LEMMA HeldBounded ==
    ASSUME TypeOK, NEW r \in Request
    PROVE  Held(r) \in Nat /\ Held(r) <= Price
  <1>1. ledger[r] \in {"none", "reserved", "reconciled"} /\ actual_minor[r] \in {0, Price}
    BY DEF TypeOK
  <1> QED
    BY <1>1, GatewayAssumption DEF Held

\* A step that does not touch ledger and amounts keeps the units in use.
LEMMA UnitsKept ==
    ASSUME UNCHANGED <<ledger, actual_minor>>
    PROVE  UnitsInUse' = UnitsInUse
  BY DEF UnitsInUse, Held

\* A reservation takes exactly the price.
LEMMA ReservedUnits ==
    ASSUME TypeOK, CapInv, NEW r \in Request, Reserve(r)
    PROVE  CapInv'
  <1> DEFINE New == {r} \X (1..Price)
  <1>1. UnitsInUse' = UnitsInUse \union New
    <2>1. \A q \in Request : Held(q)' = IF q = r THEN Price ELSE Held(q)
      BY GatewayAssumption DEF TypeOK, Reserve, Unreserved, Held
    <2>2. Held(r) = 0
      BY DEF Reserve, Unreserved, Held
    <2>3. ASSUME NEW u \in Request \X (1..Price)
          PROVE  u[2] <= Held(u[1])' <=> u \in UnitsInUse \union New
      <3>1. u[1] \in Request /\ u[2] \in 1..Price /\ u = <<u[1], u[2]>>
        OBVIOUS
      <3>2. CASE u[1] = r
        BY <2>1, <3>1, <3>2, GatewayAssumption
      <3>3. CASE u[1] # r
        BY <2>1, <3>1, <3>3 DEF UnitsInUse
      <3> QED
        BY <3>2, <3>3
    <2>4. New \subseteq Request \X (1..Price)
      OBVIOUS
    <2> QED
      BY <2>3, <2>4 DEF UnitsInUse
  <1>2. IsFiniteSet(New) /\ Cardinality(New) = Price
    <2>1. IsFiniteSet(1..Price) /\ Cardinality(1..Price) = Price
      BY FS_Interval, GatewayAssumption
    <2>2. IsFiniteSet({r}) /\ Cardinality({r}) = 1
      BY FS_Singleton
    <2> QED
      BY <2>1, <2>2, FS_Product, GatewayAssumption
  <1>3. IsFiniteSet(UnitsInUse \union New)
        /\ Cardinality(UnitsInUse \union New)
             = Cardinality(UnitsInUse) + Price - Cardinality(UnitsInUse \intersect New)
    BY <1>2, FS_Union DEF CapInv
  <1>4. UnitsInUse \intersect New = {}
    BY GatewayAssumption DEF Reserve, Unreserved, UnitsInUse, Held
  <1>5. Cardinality(UnitsInUse \intersect New) = 0
    BY <1>4, FS_EmptySet
  <1>6. Cardinality(UnitsInUse) \in Nat
    BY FS_CardinalityType DEF CapInv
  <1>7. Cardinality(UnitsInUse) + Price <= HardCap
    BY DEF Reserve, UnderCap, Used
  <1> QED
    BY <1>1, <1>3, <1>5, <1>6, <1>7, GatewayAssumption DEF CapInv, HardCapHolds, Used

\* A reconciliation never takes more than was reserved.
LEMMA ReconciledUnits ==
    ASSUME TypeOK, StageMatches, CapInv, NEW r \in Request, ReconcileLedger(r)
    PROVE  CapInv'
  <1>1. ledger[r] = "reserved"
    BY DEF ReconcileLedger, StageMatches
  <1>2. Held(r) = Price
    BY <1>1 DEF Held
  <1>3. Held(r)' = Charge(r) /\ Charge(r) \in {0, Price}
    BY DEF TypeOK, ReconcileLedger, Charge, Held
  <1>4. \A q \in Request : q # r => Held(q)' = Held(q)
    BY DEF TypeOK, ReconcileLedger, Held
  <1>5. UnitsInUse' \in SUBSET UnitsInUse
    <2> SUFFICES ASSUME NEW u \in Request \X (1..Price), u[2] <= Held(u[1])'
                 PROVE  u[2] <= Held(u[1])
      BY DEF UnitsInUse
    <2>1. u[1] \in Request /\ u[2] \in 1..Price
      OBVIOUS
    <2>2. CASE u[1] = r
      BY <1>2, <2>1, <2>2, GatewayAssumption
    <2>3. CASE u[1] # r
      BY <1>4, <2>1, <2>3
    <2> QED
      BY <2>2, <2>3
  <1>6. IsFiniteSet(UnitsInUse') /\ Cardinality(UnitsInUse') <= Cardinality(UnitsInUse)
    BY <1>5, FS_Subset DEF CapInv
  <1>7. Cardinality(UnitsInUse) \in Nat /\ Cardinality(UnitsInUse') \in Nat
    BY <1>6, FS_CardinalityType DEF CapInv
  <1> QED
    BY <1>6, <1>7, GatewayAssumption DEF CapInv, HardCapHolds, Used

----------------------------------------------------------------------------
(* The invariant                                                           *)

\* The invariant holds of empty tables.
LEMMA GatesStart == Init => GatesInv
  <1> SUFFICES ASSUME Init PROVE GatesInv
    OBVIOUS
  <1>1. TypeOK /\ CallersKnow /\ StageMatches
    BY DEF Init, TypeOK, CallersKnow, StageMatches, WorkStatus, Stages
  <1>2. UnitsInUse = {}
    BY GatewayAssumption DEF Init, UnitsInUse, Held
  <1>3. IsFiniteSet(UnitsInUse) /\ Cardinality(UnitsInUse) = 0
    BY <1>2, FS_EmptySet
  <1> QED
    BY <1>1, <1>3, GatewayAssumption DEF GatesInv, CapInv, HardCapHolds, Used

\* A caller that only remembers what it has read.
LEMMA ReadsKeep ==
    ASSUME GatesInv, NEW r \in Request,
           \/ \E decision \in {"approved", "denied"} : DecideCheck(r, decision)
           \/ AuthorizeRead(r)
           \/ AuthorizeApproval(r)
    PROVE  GatesInv'
  <1>1. UNCHANGED <<stores, stage, runs>>
    BY DEF DecideCheck, AuthorizeRead, AuthorizeApproval
  <1>2. TypeOK'
    BY <1>1 DEF GatesInv, TypeOK, stores, DecideCheck, AuthorizeRead, AuthorizeApproval
  <1>3. CallersKnow'
    BY <1>1 DEF GatesInv, TypeOK, CallersKnow, stores, DecideCheck, AuthorizeRead, AuthorizeApproval,
                Passes
  <1>4. StageMatches'
    BY <1>1 DEF GatesInv, StageMatches, stores, DecideCheck, AuthorizeRead, AuthorizeApproval
  <1>5. CapInv'
    BY <1>1, UnitsKept DEF GatesInv, CapInv, HardCapHolds, Used, stores
  <1> QED
    BY <1>2, <1>3, <1>4, <1>5 DEF GatesInv

\* Submissions, decisions and their marks.
LEMMA RequestsKeep ==
    ASSUME GatesInv, NEW r \in Request,
           \/ \E s \in Secret : RegisterSecretReference(s)
           \/ \E secrets \in SUBSET Secret, risk \in {{}, {r}} : Submit(r, secrets, risk)
           \/ \E decision \in {"approved", "denied"} : DecideWrite(r, decision)
           \/ DecideMark(r)
    PROVE  GatesInv'
  <1>1. UNCHANGED <<ledger, actual_minor, admitted, cleared, stage, runs, deciding>>
    BY DEF RegisterSecretReference, Submit, DecideWrite, DecideMark, callers
  <1>2. TypeOK'
    BY <1>1 DEF GatesInv, TypeOK, callers, WorkStatus, RegisterSecretReference, Submit, DecideWrite,
                DecideMark
  <1>3. CallersKnow'
    <2>1. CASE \E s \in Secret : RegisterSecretReference(s)
      BY <1>1, <2>1 DEF GatesInv, TypeOK, CallersKnow, RegisterSecretReference
    <2>2. CASE \E secrets \in SUBSET Secret, risk \in {{}, {r}} : Submit(r, secrets, risk)
      BY <1>1, <2>2 DEF GatesInv, TypeOK, CallersKnow, Submit
    <2>3. CASE \E decision \in {"approved", "denied"} : DecideWrite(r, decision)
      BY <1>1, <2>3 DEF GatesInv, TypeOK, CallersKnow, DecideWrite
    <2>4. CASE DecideMark(r)
      BY <1>1, <2>4 DEF GatesInv, TypeOK, CallersKnow, DecideMark
    <2> QED
      BY <2>1, <2>2, <2>3, <2>4
  <1>4. StageMatches'
    BY <1>1 DEF GatesInv, TypeOK, StageMatches, RegisterSecretReference, Submit, DecideWrite, DecideMark
  <1>5. CapInv'
    BY <1>1, UnitsKept DEF GatesInv, CapInv, HardCapHolds, Used
  <1> QED
    BY <1>2, <1>3, <1>4, <1>5 DEF GatesInv

\* The executor that got the reservation.
LEMMA ExecutorKeeps ==
    ASSUME GatesInv, NEW r \in Request,
           \/ Reserve(r)
           \/ \E outcome \in {"succeeded", "raised"} : RunWork(r, outcome)
           \/ ReconcileLedger(r)
           \/ ReconcileWork(r)
    PROVE  GatesInv'
  <1>1. TypeOK'
    BY GatewayAssumption DEF GatesInv, TypeOK, StageMatches, WorkStatus, Stages, stores, Reserve,
                             RunWork, ReconcileLedger, ReconcileWork, Charge, Outcome
  <1>2. CallersKnow'
    BY DEF GatesInv, TypeOK, CallersKnow, stores, Reserve, RunWork, ReconcileLedger, ReconcileWork,
           Outcome
  <1>3. StageMatches'
    <2>1. CASE Reserve(r)
      BY <2>1 DEF GatesInv, TypeOK, StageMatches, Stages, Reserve, Unreserved
    <2>2. CASE \E outcome \in {"succeeded", "raised"} : RunWork(r, outcome)
      BY <2>2 DEF GatesInv, TypeOK, StageMatches, Stages, stores, RunWork
    <2>3. CASE ReconcileLedger(r)
      BY <2>3 DEF GatesInv, TypeOK, StageMatches, ReconcileLedger, Charge
    <2>4. CASE ReconcileWork(r)
      BY <2>4 DEF GatesInv, TypeOK, StageMatches, ReconcileWork, Outcome
    <2> QED
      BY <2>1, <2>2, <2>3, <2>4
  <1>4. CapInv'
    <2>1. CASE Reserve(r)
      BY <2>1, ReservedUnits DEF GatesInv
    <2>2. CASE ReconcileLedger(r)
      BY <2>2, ReconciledUnits DEF GatesInv
    <2>3. CASE UNCHANGED <<ledger, actual_minor>>
      BY <2>3, UnitsKept DEF GatesInv, CapInv, HardCapHolds, Used
    <2> QED
      BY <2>1, <2>2, <2>3 DEF RunWork, ReconcileWork, stores
  <1> QED
    BY <1>1, <1>2, <1>3, <1>4 DEF GatesInv

\* Every transaction of the gateway keeps the invariant.
LEMMA GatesStep == GatesInv /\ [Next]_vars => GatesInv'
  <1> SUFFICES ASSUME GatesInv, [Next]_vars PROVE GatesInv'
    OBVIOUS
  <1>1. CASE UNCHANGED vars
    <2>1. UNCHANGED <<stores, callers>>
      BY <1>1 DEF vars
    <2>2. UnitsInUse' = UnitsInUse
      BY <2>1, UnitsKept DEF stores
    <2> QED
      BY <2>1, <2>2 DEF GatesInv, TypeOK, CallersKnow, StageMatches, CapInv, HardCapHolds, Used, stores,
                        callers
  <1>2. CASE \E s \in Secret : RegisterSecretReference(s)
    <2>1. CASE Request = {}
      BY <1>2, <2>1, UnitsKept
         DEF GatesInv, TypeOK, CallersKnow, StageMatches, CapInv, HardCapHolds, Used,
             RegisterSecretReference, callers
    <2>2. CASE Request # {}
      BY <1>2, <2>2, RequestsKeep
    <2> QED
      BY <2>1, <2>2
  <1>3. ASSUME NEW r \in Request, \E secrets \in SUBSET Secret, risk \in {{}, {r}} :
                                     Submit(r, secrets, risk)
        PROVE  GatesInv'
    BY <1>3, RequestsKeep
  <1>4. ASSUME NEW r \in Request, DecideStep(r)
        PROVE  GatesInv'
    BY <1>4, RequestsKeep, ReadsKeep DEF DecideStep
  <1>5. ASSUME NEW r \in Request, ExecuteStep(r)
        PROVE  GatesInv'
    BY <1>5, ReadsKeep, ExecutorKeeps DEF ExecuteStep
  <1> QED
    BY <1>1, <1>2, <1>3, <1>4, <1>5 DEF Next

\* The inductive invariant holds in every reachable state.
LEMMA GatesInvariant == Spec => []GatesInv
  BY GatesStart, GatesStep, PTL DEF Spec

----------------------------------------------------------------------------
(* Theorems                                                                *)

\* However many callers execute and decide, governed work runs at most once,
\* under a reservation, and high-risk work never without a person's decision.
THEOREM GatesHold == Spec => []GatewayInv
  <1>1. GatesInv => GatewayInv
    BY DEF GatesInv, GatewayInv, TypeOK, CallersKnow, StageMatches, RunsAtMostOnce, UndecidedNeverRuns,
           Stages
  <1> QED
    BY <1>1, GatesInvariant, PTL

\* The account never exceeds its hard cap, for any prices and any number of
\* concurrent reservations.
THEOREM CapHolds == Spec => []HardCapHolds
  <1>1. GatesInv => HardCapHolds
    BY DEF GatesInv, CapInv
  <1> QED
    BY <1>1, GatesInvariant, PTL

\* The recorded outcome, the runs and the ledger agree, although they are
\* written in transactions of their own.
THEOREM OutcomesMatchLedger == Spec => []LedgerMatchesOutcome
  <1>1. GatesInv => LedgerMatchesOutcome
    BY DEF GatesInv, TypeOK, StageMatches, LedgerMatchesOutcome, Stages
  <1> QED
    BY <1>1, GatesInvariant, PTL
=============================================================================
