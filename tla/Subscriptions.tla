--------------------------- MODULE Subscriptions ---------------------------
(***************************************************************************)
(* A user's subscription as services/identity_commercial_access.py and     *)
(* services/commercial_access.py keep it: the provider's signed lifecycle  *)
(* events move the binding in one transaction and the user's entitlement   *)
(* in another.  Events are delivered late, out of order and again, to any  *)
(* handler; a handler may stop between its transactions.                   *)
(*                                                                         *)
(* An event is its subscription, the state its type asks for and the time  *)
(* it occurred; its event_id stands for all three.                         *)
(***************************************************************************)
EXTENDS Naturals, FiniteSets

CONSTANTS Subscription,  \* provider subscriptions of one tenant and user
          Grant,         \* ids of trusted grants
          GrantOf,       \* the subscription a grant belongs to
          PeriodStart, PeriodEnd,   \* the period of a grant
          Server,        \* threads that handle deliveries
          MaxTime        \* bound on the clock

ASSUME SubscriptionAssumption ==
    /\ GrantOf \in [Grant -> Subscription]
    /\ PeriodStart \in [Grant -> Nat] /\ PeriodEnd \in [Grant -> Nat]
    /\ \A g \in Grant : PeriodStart[g] < PeriodEnd[g]
    /\ MaxTime \in Nat

\* _PROVIDER_EVENT_STATES: what an event type makes of a subscription.
Targets == {"ACTIVE", "SUSPENDED", "CANCELLED"}
Event   == Subscription \X Targets \X (1..MaxTime)

VARIABLES
    binding,      \* state of commercial_provider_subscriptions, or "none"
    last_event,   \* its last_provider_event_at, 0 for none
    applied,      \* commercial_provider_events
    grants,       \* commercial_trusted_grants
    projected,    \* commercial_entitlement_events
    access,       \* state of commercial_entitlements, or "none"
    source,       \* the event it was written for, in a set
    valid_until,  \* 0 for none
    version,
    member,       \* the canonical identity: "active" or "inactive"
    serving,      \* where a thread is
    delivery,     \* the event it handles and the grant it resolved, in a set
    clock

bindingTables     == <<binding, last_event, applied>>
entitlementTables == <<projected, access, source, valid_until, version>>
threads           == <<serving, delivery>>
subscriptionVars  == <<bindingTables, grants, entitlementTables, member, threads, clock>>

SubscriptionTypeOK ==
    /\ binding \in [Subscription -> Targets \union {"none", "PENDING"}]
    /\ last_event \in [Subscription -> 0..MaxTime]
    /\ applied \subseteq Event /\ projected \subseteq Event
    /\ grants \subseteq Grant
    /\ access \in Targets \union {"none"} /\ source \subseteq Event
    /\ valid_until \in Nat /\ version \in Nat
    /\ member \in {"active", "inactive"}
    /\ serving \in [Server -> {"idle", "apply", "identity", "entitle", "deny"}]
    /\ \A h \in Server :
          /\ delivery[h] \subseteq Event \X (Grant \union {0})
          /\ delivery[h] = {} <=> serving[h] = "idle"
    /\ clock \in 0..MaxTime

SubscriptionInit ==
    /\ binding = [s \in Subscription |-> "none"]
    /\ last_event = [s \in Subscription |-> 0]
    /\ applied = {} /\ grants = {} /\ projected = {}
    /\ access = "none" /\ source = {} /\ valid_until = 0 /\ version = 0
    /\ member = "active"
    /\ serving = [h \in Server |-> "idle"]
    /\ delivery = [h \in Server |-> {}]
    /\ clock = 0

GoOn(h, step) == serving' = [serving EXCEPT ![h] = step] /\ UNCHANGED delivery

Take(h, step, e, g) ==
    /\ serving' = [serving EXCEPT ![h] = step]
    /\ delivery' = [delivery EXCEPT ![h] = {<<e, g>>}]

\* A thread that forgets what it handled, but not that it did.
FinishMutant(h) ==
    /\ delivery' = [delivery EXCEPT ![h] = {}]
    /\ UNCHANGED serving

\* The call returns or raises.
Finish(h) ==
    /\ serving' = [serving EXCEPT ![h] = "idle"]
    /\ delivery' = [delivery EXCEPT ![h] = {}]

-----------------------------------------------------------------------------
(* Bindings and grants *)

CreateBinding(s) ==
    /\ member = "active"
    /\ binding[s] = "none"
    /\ binding' = [binding EXCEPT ![s] = "PENDING"]
    /\ UNCHANGED <<last_event, applied, grants, entitlementTables, member, threads, clock>>

CreateTrustedGrant(g) ==
    /\ member = "active"
    /\ binding[GrantOf[g]] # "none"
    /\ clock < PeriodEnd[g]
    /\ grants' = grants \union {g}
    /\ UNCHANGED <<bindingTables, entitlementTables, member, threads, clock>>

\* resolve_trusted_grant: the current grants of a subscription.
Current(s) == {g \in grants : GrantOf[g] = s /\ PeriodStart[g] <= clock /\ clock < PeriodEnd[g]}

-----------------------------------------------------------------------------
(* The store's two transactions *)

\* A binding that takes events in the order they are delivered.
InTimeMutant(e) == binding[e[1]] # "none"

\* The binding exists and the event is later than the last one applied.
InTime(e) == binding[e[1]] # "none" /\ e[3] > last_event[e[1]]

\* apply_verified_provider_event: an event that was applied before is answered
\* with the binding it made then; one out of order raises.
ApplyEvent(e) ==
    \/ e \in applied /\ UNCHANGED bindingTables
    \/ /\ e \notin applied /\ InTime(e)
       /\ binding' = [binding EXCEPT ![e[1]] = e[2]]
       /\ last_event' = [last_event EXCEPT ![e[1]] = e[3]]
       /\ applied' = applied \union {e}

Refused(e) == e \notin applied /\ ~InTime(e)

\* An entitlement that is written for every delivery of an event.
FreshMutant(e) == TRUE

\* The event has not been projected before.
Fresh(e) == e \notin projected

\* apply_entitlement under the event's id: once per event.
ApplyEntitlement(e, until) ==
    \/ /\ Fresh(e)
       /\ projected' = projected \union {e}
       /\ access' = e[2] /\ source' = {e}
       /\ valid_until' = until
       /\ version' = version + 1
    \/ ~Fresh(e) /\ UNCHANGED entitlementTables

-----------------------------------------------------------------------------
(* activate_from_trusted_grant *)

\* A policy that accepts an event from before the period it pays for.
WithinMutant(e, g) == e[3] <= clock

\* The event is neither from the future nor older than the grant's period.
Within(e, g) == PeriodStart[g] <= e[3] /\ e[3] <= clock

ActivateResolve(h, e, g) ==
    /\ serving[h] = "idle"
    /\ e[2] = "ACTIVE"
    /\ Current(e[1]) = {g}
    /\ Within(e, g)
    /\ Take(h, "apply", e, g)
    /\ UNCHANGED <<bindingTables, grants, entitlementTables, member, clock>>

ActivateApply(h, e) ==
    /\ serving[h] = "apply"
    /\ \/ ApplyEvent(e) /\ GoOn(h, "identity")
       \/ Refused(e) /\ Finish(h) /\ UNCHANGED bindingTables
    /\ UNCHANGED <<grants, entitlementTables, member, clock>>

\* The identity is looked up in its own database, before the entitlement's
\* transaction.
ActivateIdentity(h) ==
    /\ serving[h] = "identity"
    /\ \/ member = "active" /\ GoOn(h, "entitle")
       \/ member # "active" /\ Finish(h)
    /\ UNCHANGED <<bindingTables, grants, entitlementTables, member, clock>>

ActivateEntitle(h, e, g) ==
    /\ serving[h] = "entitle"
    /\ ApplyEntitlement(e, PeriodEnd[g])
    /\ Finish(h)
    /\ UNCHANGED <<bindingTables, grants, member, clock>>

-----------------------------------------------------------------------------
(* reconcile_verified_provider_entitlement *)

\* An activation only moves the binding, as does apply_verified_provider_event.
ReconcileApply(h, e) ==
    /\ serving[h] = "idle"
    /\ e[3] <= clock
    /\ ApplyEvent(e)
    /\ IF e[2] = "ACTIVE" THEN UNCHANGED threads ELSE Take(h, "deny", e, 0)
    /\ UNCHANGED <<grants, entitlementTables, member, clock>>

ReconcileEntitle(h, e) ==
    /\ serving[h] = "deny"
    /\ ApplyEntitlement(e, 0)
    /\ Finish(h)
    /\ UNCHANGED <<bindingTables, grants, member, clock>>

-----------------------------------------------------------------------------
(* The environment *)

MemberChanges ==
    /\ member' \in {"active", "inactive"} \ {member}
    /\ UNCHANGED <<bindingTables, grants, entitlementTables, threads, clock>>

Tick ==
    /\ clock < MaxTime
    /\ clock' = clock + 1
    /\ UNCHANGED <<bindingTables, grants, entitlementTables, member, threads>>

\* The process stops; the provider delivers again what was not answered.
ServerStops ==
    /\ serving' = [h \in Server |-> "idle"]
    /\ delivery' = [h \in Server |-> {}]
    /\ UNCHANGED <<bindingTables, grants, entitlementTables, member, clock>>

SubscriptionNext ==
    \/ \E s \in Subscription : CreateBinding(s)
    \/ \E g \in Grant : CreateTrustedGrant(g)
    \/ \E h \in Server, e \in Event :
          ReconcileApply(h, e) \/ \E g \in Grant : ActivateResolve(h, e, g)
    \/ \E h \in Server : \E d \in delivery[h] :
          \/ ActivateApply(h, d[1]) \/ ActivateIdentity(h) \/ ActivateEntitle(h, d[1], d[2])
          \/ ReconcileEntitle(h, d[1])
    \/ MemberChanges \/ Tick \/ ServerStops

-----------------------------------------------------------------------------
(* Properties *)

\* Whatever order events are delivered in, the binding is what the latest of
\* the applied ones says (apply_verified_provider_event).
BindingIsLatest ==
    \A s \in Subscription :
        LET of == {e \in applied : e[1] = s}
        IN  \/ of = {} /\ last_event[s] = 0
            \/ \E e \in of : /\ e[3] = last_event[s] /\ binding[s] = e[2]
                             /\ \A f \in of \ {e} : f[3] < e[3]

\* The entitlement was written once for each projected event, the last of them
\* its source, and none of them is an event the binding refused, however often
\* events are redelivered and handlers stop (apply_entitlement).
EntitlementHasLineage ==
    /\ version = Cardinality(projected)
    /\ projected \subseteq applied
    /\ access = "none" <=> projected = {}
    /\ \A e \in source : e \in projected /\ access = e[2]

\* An active entitlement ends with the period of a trusted grant of the
\* subscription, and the event that activated it is not from before that
\* period (activate_from_trusted_grant).
ActiveIsGranted ==
    access = "ACTIVE" =>
        \E e \in source, g \in grants : /\ GrantOf[g] = e[1] /\ valid_until = PeriodEnd[g]
                                         /\ PeriodStart[g] <= e[3]

\* Bindings follow their latest event, entitlements the events they were
\* projected from, and active ones a trusted grant, in well-typed tables.
SubscriptionInv == SubscriptionTypeOK /\ BindingIsLatest /\ EntitlementHasLineage /\ ActiveIsGranted

\* Once every applied event is projected and no handler is busy, a subscription
\* that is suspended or cancelled gives no access ("may only reduce access, so
\* they are projected fail-closed").  The two transactions of an activation let
\* a later cancellation pass between them, and a redelivered activation that
\* was applied but not yet projected is answered with its old snapshot.
CancelledIsDenied ==
    (access = "ACTIVE" /\ applied = projected /\ \A h \in Server : serving[h] = "idle")
        => \E e \in source : binding[e[1]] = "ACTIVE"
=============================================================================
