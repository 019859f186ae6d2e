---------------------------- MODULE SideEffects ----------------------------
(***************************************************************************)
(* The record_side_effect command of services/control_plane/server.py:     *)
(* a thread of the HTTP server that asks the scheduler, then the grant     *)
(* policy, then the scheduler again, in three transactions.  Workers,      *)
(* leases, revocations and kill switches move in between, and the thread   *)
(* may die after any of them.                                              *)
(***************************************************************************)
EXTENDS WorkerScheduler, GrantPolicy

CONSTANTS Handler      \* threads serving record_side_effect

ASSUME HandlerAssumption == Worker \subseteq Subject /\ Task \subseteq Resource /\ "write" \in Action

VARIABLES
    pc,        \* what a handler has done: "idle", "authorized", "reserved"
    request    \* the <<lease, grant_id, now>> it serves: a set of at most one

handlers == <<pc, request>>
allVars  == <<vars, grantTables, handlers>>

SideEffectsInit ==
    /\ Init
    /\ GrantInit
    /\ pc = [h \in Handler |-> "idle"]
    /\ request = [h \in Handler |-> {}]

\* An answer that leaves the request in the thread's hands.
AnswerMutant(h) ==
    /\ pc' = [pc EXCEPT ![h] = "idle"]
    /\ UNCHANGED request

\* The command answers, with success or with an error.
Answer(h) ==
    /\ pc' = [pc EXCEPT ![h] = "idle"]
    /\ request' = [request EXCEPT ![h] = {}]

\* scheduler.authorize; an error changes nothing.
HandlerAuthorize(h, lease, g, now) ==
    /\ pc[h] = "idle"
    /\ Authorized(lease, now)
    /\ pc' = [pc EXCEPT ![h] = "authorized"]
    /\ request' = [request EXCEPT ![h] = {<<lease, g, now>>}]
    /\ UNCHANGED <<vars, grantTables>>

\* A handler that does not charge the grant.
ReserveMutant(lease, g, now) == Admits(g, lease[2], "write", lease[1], now) /\ UNCHANGED grantTables

\* The call of authorize_and_record: subject and resource are the lease's.
Reserve(lease, g, now) == AuthorizeAndRecord(g, lease[2], "write", lease[1], now)

HandlerReserve(h, lease, g, now) ==
    /\ pc[h] = "authorized"
    /\ \/ /\ Reserve(lease, g, now)
          /\ pc' = [pc EXCEPT ![h] = "reserved"]
          /\ UNCHANGED request
       \/ /\ ~Admits(g, lease[2], "write", lease[1], now)
          /\ Answer(h)
          /\ UNCHANGED grantTables
    /\ UNCHANGED vars

\* scheduler.record_side_effect, which authorizes again.
HandlerRecord(h, lease, g, now) ==
    /\ pc[h] = "reserved"
    /\ \/ RecordSideEffect(lease, now)
       \/ /\ ~Authorized(lease, now) \/ <<lease[1], lease[3]>> \in scheduler_effects
          /\ UNCHANGED vars
    /\ Answer(h)
    /\ UNCHANGED grantTables

\* The process stops while the thread is between two transactions.
HandlerDies(h) ==
    /\ pc[h] # "idle"
    /\ Answer(h)
    /\ UNCHANGED <<vars, grantTables>>

HandlerStep(h) ==
    \/ \E lease \in issued, g \in Grant, now \in Nows : HandlerAuthorize(h, lease, g, now)
    \/ \E r \in request[h] : HandlerReserve(h, r[1], r[2], r[3])
    \/ \E r \in request[h] : HandlerRecord(h, r[1], r[2], r[3])
    \/ HandlerDies(h)

\* The scheduler commands other than record_side_effect.
SchedulerStep ==
    \/ \E w \in Worker : WorkerStep(w)
    \/ \E t \in Task, cap \in Capability, w \in Worker, now \in Nows, zone \in Zone :
          Schedule(t, cap, w, now, zone)
    \/ \E lease \in issued : \E now \in Nows, zone \in Zone : Heartbeat(lease, now, zone)
    \/ \E lease \in issued : Release(lease)
    \/ Tick

SideEffectsNext ==
    \/ SchedulerStep /\ UNCHANGED <<grantTables, handlers>>
    \/ GrantStep /\ UNCHANGED <<vars, handlers>>
    \/ \E h \in Handler : HandlerStep(h)

SideEffectsSpec == SideEffectsInit /\ [][SideEffectsNext]_allVars

----------------------------------------------------------------------------
(* Properties                                                              *)

\* Both stores are well typed, and a handler past its first transaction has
\* the request it serves.
SideEffectsTypeOK ==
    /\ TypeOK
    /\ GrantTypeOK
    /\ pc \in [Handler -> {"idle", "authorized", "reserved"}]
    /\ request \in [Handler -> SUBSET (Lease \X Grant \X Time)]
    /\ \A h \in Handler : Cardinality(request[h]) = (IF pc[h] = "idle" THEN 0 ELSE 1)

\* Every effect on record was authorized: the worker that held the task under
\* that fence is the subject of a grant whose scope has the task and which
\* was charged for it.
EffectHasGrant ==
    \A e \in scheduler_effects : \E l \in issued, g \in Grant :
        /\ l[1] = e[1] /\ l[3] = e[2]
        /\ SubjectOf[g] = l[2]
        /\ "write" \in ActionsOf[g]
        /\ <<g, e[1]>> \in grant_resources

\* The units charged so far, numbered per grant: as many as the sum of
\* used_side_effects.
UnitsCharged == UNION {{g} \X (1..used_side_effects[g]) : g \in Grant}

\* An effect costs a unit of some grant's budget and no unit pays twice, even
\* though charge and record are two transactions: the effects on record and
\* the reservations in flight never exceed the units charged.
EffectsAreCharged ==
    Cardinality(scheduler_effects) + Cardinality({h \in Handler : pc[h] = "reserved"})
        <= Cardinality(UnitsCharged)

\* Whatever handlers race, die or serve expired holders: every effect is granted
\* and paid for, in well-typed stores.
SideEffectsInv == SideEffectsTypeOK /\ EffectHasGrant /\ EffectsAreCharged
=============================================================================
