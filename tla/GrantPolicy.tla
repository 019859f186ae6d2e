---------------------------- MODULE GrantPolicy ----------------------------
(***************************************************************************)
(* The durable grant tables of services/runtime/durable_grants.py.  Every  *)
(* method is one transaction.  A grant's row is written once and only its  *)
(* counter changes later, so the columns are constants of the grant id.    *)
(***************************************************************************)
EXTENDS Naturals, FiniteSets

CONSTANTS
    Grant,          \* grant_id values
    Subject,        \* subject_id values
    Action,         \* action names
    Resource,       \* resource names
    SubjectOf,      \* execution_grants.subject_id
    ActionsOf,      \* execution_grants.actions_json
    ResourcesOf,    \* execution_grants.resources_json
    ExpiresAt,      \* execution_grants.expires_at, as an instant
    MaxEffects,     \* execution_grants.max_side_effects
    MaxResources    \* execution_grants.max_resources

ASSUME GrantAssumption ==
    /\ SubjectOf \in [Grant -> Subject]
    /\ ActionsOf \in [Grant -> SUBSET Action]
    /\ ResourcesOf \in [Grant -> SUBSET Resource]
    /\ ExpiresAt \in [Grant -> Nat]
    /\ MaxEffects \in [Grant -> Nat]
    /\ MaxResources \in [Grant -> Nat]

VARIABLES
    execution_grants,   \* the grants that have a row
    used_side_effects,  \* execution_grants.used_side_effects
    grant_resources,    \* rows (grant_id, resource)
    revoked_grants,     \* grant ids, registered or not
    stopped_subjects    \* subject ids

grantTables == <<execution_grants, used_side_effects, grant_resources,
                 revoked_grants, stopped_subjects>>

ResourcesUsed(g) == {r \in Resource : <<g, r>> \in grant_resources}

GrantInit ==
    /\ execution_grants = {}
    /\ used_side_effects = [g \in Grant |-> 0]
    /\ grant_resources = {}
    /\ revoked_grants = {}
    /\ stopped_subjects = {}

\* register; a second row with the same id is an IntegrityError.
RegisterGrant(g) ==
    /\ g \notin execution_grants
    /\ execution_grants' = execution_grants \union {g}
    /\ UNCHANGED <<used_side_effects, grant_resources, revoked_grants, stopped_subjects>>

\* A scope check that forgets the subject.
InScopeMutant(g, subject, action, resource) ==
    action \in ActionsOf[g] /\ resource \in ResourcesOf[g]

InScope(g, subject, action, resource) ==
    /\ SubjectOf[g] = subject
    /\ action \in ActionsOf[g]
    /\ resource \in ResourcesOf[g]

\* A budget check off by one.
WithinBudgetMutant(g, resource) ==
    /\ used_side_effects[g] <= MaxEffects[g]
    /\ <<g, resource>> \in grant_resources \/ Cardinality(ResourcesUsed(g)) < MaxResources[g]

\* The blast radius: one more effect, and one more resource if it is new.
WithinBudget(g, resource) ==
    /\ used_side_effects[g] < MaxEffects[g]
    /\ <<g, resource>> \in grant_resources \/ Cardinality(ResourcesUsed(g)) < MaxResources[g]

\* A check that reads the kill switch but not the revocations.
LiveMutant(g, subject) ==
    /\ g \in execution_grants
    /\ subject \notin stopped_subjects

\* Registered, not revoked, not stopped.
Live(g, subject) ==
    /\ g \in execution_grants
    /\ g \notin revoked_grants
    /\ subject \notin stopped_subjects

Admits(g, subject, action, resource, now) ==
    /\ Live(g, subject)
    /\ now < ExpiresAt[g]
    /\ InScope(g, subject, action, resource)
    /\ WithinBudget(g, resource)

\* authorize_and_record (and authorize, which calls it).
AuthorizeAndRecord(g, subject, action, resource, now) ==
    /\ Admits(g, subject, action, resource, now)
    /\ used_side_effects' = [used_side_effects EXCEPT ![g] = @ + 1]
    /\ grant_resources' = grant_resources \union {<<g, resource>>}
    /\ UNCHANGED <<execution_grants, revoked_grants, stopped_subjects>>

\* revoke; it may come before register.
Revoke(g) ==
    /\ revoked_grants' = revoked_grants \union {g}
    /\ UNCHANGED <<execution_grants, used_side_effects, grant_resources, stopped_subjects>>

\* kill; nothing in the durable policy restarts a stopped subject.
Kill(subject) ==
    /\ stopped_subjects' = stopped_subjects \union {subject}
    /\ UNCHANGED <<execution_grants, used_side_effects, grant_resources, revoked_grants>>

GrantStep ==
    \/ \E g \in Grant : RegisterGrant(g) \/ Revoke(g)
    \/ \E subject \in Subject : Kill(subject)

----------------------------------------------------------------------------
(* Properties                                                              *)

\* The grant tables hold rows of their declared kind.
GrantTypeOK ==
    /\ execution_grants \subseteq Grant
    /\ used_side_effects \in [Grant -> Nat]
    /\ grant_resources \subseteq Grant \X Resource
    /\ revoked_grants \subseteq Grant
    /\ stopped_subjects \subseteq Subject

\* The outcome of authorize_and_record once a grant is revoked or its subject
\* stopped: nothing is ever charged to it again.
StopStep ==
    \A g \in Grant :
        g \in revoked_grants \/ SubjectOf[g] \in stopped_subjects =>
            /\ used_side_effects'[g] = used_side_effects[g]
            /\ g \in revoked_grants' \/ SubjectOf[g] \in stopped_subjects'

\* Revocation and the kill switch are permanent: every step is a StopStep.
StoppedStaysStopped == [][StopStep]_grantTables

\* The blast radius of a grant is bounded: it never authorizes more effects or
\* more distinct resources than its budget, none outside its scope, and none
\* before it has a row.
BlastRadiusBounded ==
    \A g \in Grant :
        /\ used_side_effects[g] <= MaxEffects[g]
        /\ Cardinality(ResourcesUsed(g)) <= MaxResources[g]
        /\ ResourcesUsed(g) \subseteq ResourcesOf[g]
        /\ used_side_effects[g] > 0 <=> ResourcesUsed(g) # {}
        /\ Cardinality(ResourcesUsed(g)) <= used_side_effects[g]
        /\ used_side_effects[g] > 0 => g \in execution_grants
=============================================================================
