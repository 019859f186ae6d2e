------------------------- MODULE SideEffectsProofs -------------------------
(***************************************************************************)
(* Proofs about the record_side_effect command over scheduler and grants,  *)
(* for any workers, tasks, grants and budgets, any number of handlers, and *)
(* callers whose clocks lag as they like.                                  *)
(***************************************************************************)
EXTENDS SideEffects, WorkerSchedulerProofs

\* The handlers between the charge and the record.
Reserved == {h \in Handler : pc[h] = "reserved"}

\* A handler serves a lease that was handed out; once it has charged the grant,
\* that grant covers the lease's holder and task.
RequestsAreReal ==
    \A h \in Handler : \A r \in request[h] :
        /\ r[1] \in issued
        /\ pc[h] = "reserved" =>
              /\ SubjectOf[r[2]] = r[1][2]
              /\ "write" \in ActionsOf[r[2]]
              /\ <<r[2], r[1][1]>> \in grant_resources

\* Types of the composition.  A handler has one request, or none when idle.
HandlerTypes ==
    /\ GrantTypeOK
    /\ pc \in [Handler -> {"idle", "authorized", "reserved"}]
    /\ request \in [Handler -> SUBSET (Lease \X Grant \X Time)]
    /\ \A h \in Handler :
          IF pc[h] = "idle" THEN request[h] = {} ELSE \E r : request[h] = {r}

\* What is counted can be counted.
Countable ==
    /\ IsFiniteSet(scheduler_effects)
    /\ IsFiniteSet(Reserved)
    /\ IsFiniteSet(UnitsCharged)
    /\ \A g \in Grant : IsFiniteSet(ResourcesUsed(g))

\* The inductive invariant of the composition.
EffectsInv ==
    /\ SchedulerInv
    /\ HandlerTypes
    /\ RequestsAreReal
    /\ Countable
    /\ EffectHasGrant
    /\ EffectsAreCharged
    /\ BlastRadiusBounded

----------------------------------------------------------------------------
(* The grant tables                                                        *)

\* Steps that charge nothing keep the blast radius.
LEMMA UnchargedKeeps ==
    ASSUME GrantTypeOK, Countable, BlastRadiusBounded,
           UNCHANGED <<used_side_effects, grant_resources>>,
           execution_grants \subseteq execution_grants'
    PROVE  /\ BlastRadiusBounded'
           /\ \A g \in Grant : IsFiniteSet(ResourcesUsed(g))'
           /\ UnitsCharged' = UnitsCharged
  <1>1. \A g \in Grant : ResourcesUsed(g)' = ResourcesUsed(g)
    BY DEF ResourcesUsed
  <1> QED
    BY <1>1 DEF BlastRadiusBounded, Countable, UnitsCharged

\* A charge adds the resource to those used and one unit to those charged.
LEMMA ChargeKeeps ==
    ASSUME GrantTypeOK, Countable, BlastRadiusBounded,
           NEW g \in Grant, NEW subject, NEW action, NEW resource \in Resource, NEW now,
           AuthorizeAndRecord(g, subject, action, resource, now)
    PROVE  /\ GrantTypeOK'
           /\ BlastRadiusBounded'
           /\ \A k \in Grant : IsFiniteSet(ResourcesUsed(k))'
           /\ IsFiniteSet(UnitsCharged')
           /\ Cardinality(UnitsCharged') = Cardinality(UnitsCharged) + 1
  <1> DEFINE used == used_side_effects[g]
             unit == <<g, used + 1>>
  <1>1. /\ used \in Nat /\ MaxEffects[g] \in Nat /\ MaxResources[g] \in Nat
        /\ used < MaxEffects[g] /\ g \in execution_grants /\ resource \in ResourcesOf[g]
        /\ <<g, resource>> \in grant_resources \/ Cardinality(ResourcesUsed(g)) < MaxResources[g]
    BY GrantAssumption DEF AuthorizeAndRecord, Admits, WithinBudget, Live, InScope, GrantTypeOK
  <1>2. /\ used_side_effects'[g] = used + 1
        /\ \A k \in Grant : k # g => used_side_effects'[k] = used_side_effects[k]
        /\ \A k \in Grant : used_side_effects[k] \in Nat
        /\ execution_grants' = execution_grants
    BY DEF AuthorizeAndRecord, GrantTypeOK
  <1>3. GrantTypeOK'
    BY <1>1 DEF GrantTypeOK, AuthorizeAndRecord
  <1>4. /\ ResourcesUsed(g)' = ResourcesUsed(g) \union {resource}
        /\ \A k \in Grant : k # g => ResourcesUsed(k)' = ResourcesUsed(k)
    BY DEF ResourcesUsed, AuthorizeAndRecord
  <1>5. /\ IsFiniteSet(ResourcesUsed(g)) /\ Cardinality(ResourcesUsed(g)) \in Nat
        /\ IsFiniteSet(ResourcesUsed(g) \union {resource})
        /\ Cardinality(ResourcesUsed(g) \union {resource}) =
              IF resource \in ResourcesUsed(g) THEN Cardinality(ResourcesUsed(g))
              ELSE Cardinality(ResourcesUsed(g)) + 1
    BY FS_CardinalityType, FS_AddElement DEF Countable
  <1>6. resource \in ResourcesUsed(g) <=> <<g, resource>> \in grant_resources
    BY DEF ResourcesUsed
  <1>7. BlastRadiusBounded'
    <2> SUFFICES ASSUME NEW k \in Grant
                 PROVE  /\ used_side_effects'[k] <= MaxEffects[k]
                        /\ Cardinality(ResourcesUsed(k)') <= MaxResources[k]
                        /\ ResourcesUsed(k)' \subseteq ResourcesOf[k]
                        /\ used_side_effects'[k] > 0 <=> ResourcesUsed(k)' # {}
                        /\ Cardinality(ResourcesUsed(k)') <= used_side_effects'[k]
                        /\ used_side_effects'[k] > 0 => k \in execution_grants'
      BY DEF BlastRadiusBounded
    <2>1. CASE k = g
      <3>1. /\ Cardinality(ResourcesUsed(g)) <= MaxResources[g]
            /\ ResourcesUsed(g) \subseteq ResourcesOf[g]
            /\ Cardinality(ResourcesUsed(g)) <= used
        BY DEF BlastRadiusBounded
      <3>2. /\ Cardinality(ResourcesUsed(g) \union {resource}) <= MaxResources[g]
            /\ Cardinality(ResourcesUsed(g) \union {resource}) <= used + 1
        BY <1>1, <1>5, <1>6, <3>1
      <3>3. ResourcesUsed(g)' \subseteq ResourcesOf[g] /\ ResourcesUsed(g)' # {}
        BY <1>1, <1>4, <3>1
      <3> QED
        BY <1>1, <1>2, <1>4, <2>1, <3>2, <3>3
    <2>2. CASE k # g
      BY <1>2, <1>4, <2>2 DEF BlastRadiusBounded
    <2> QED
      BY <2>1, <2>2
  <1>8. UnitsCharged' = UnitsCharged \union {unit} /\ unit \notin UnitsCharged
    <2>1. 1..(used + 1) = (1..used) \union {used + 1} /\ used + 1 \notin 1..used
      BY <1>1
    <2>2. \A k, n : <<k, n>> \in UnitsCharged <=> k \in Grant /\ n \in 1..used_side_effects[k]
      BY DEF UnitsCharged
    <2>3. \A k, n : <<k, n>> \in UnitsCharged' <=> k \in Grant /\ n \in 1..used_side_effects'[k]
      BY DEF UnitsCharged
    <2>4. \A k, n : <<k, n>> \in UnitsCharged'
                       <=> <<k, n>> \in UnitsCharged \/ (k = g /\ n = used + 1)
      BY <1>2, <2>1, <2>2, <2>3
    <2>5. \A u \in UnitsCharged \union UnitsCharged' : u = <<u[1], u[2]>>
      BY DEF UnitsCharged
    <2>6. \A u \in UnitsCharged' : u \in UnitsCharged \union {unit}
      BY <2>4, <2>5
    <2>7. \A u \in UnitsCharged : u \in UnitsCharged'
      BY <2>4, <2>5
    <2>8. unit \in UnitsCharged' /\ unit \notin UnitsCharged
      BY <2>1, <2>2, <2>4
    <2> QED
      BY <2>6, <2>7, <2>8
  <1>9. IsFiniteSet(UnitsCharged') /\ Cardinality(UnitsCharged') = Cardinality(UnitsCharged) + 1
    <2> HIDE DEF unit
    <2> QED
      BY <1>8, FS_AddElement DEF Countable
  <1> QED
    BY <1>3, <1>4, <1>5, <1>7, <1>9 DEF Countable

----------------------------------------------------------------------------
(* The steps of the composition                                            *)

\* The invariant holds before any worker, grant or handler exists.
LEMMA EffectsStart == SideEffectsInit => EffectsInv
  <1> SUFFICES ASSUME SideEffectsInit PROVE EffectsInv
    OBVIOUS
  <1>1. SchedulerInv
    BY SchedulerInvInit DEF SideEffectsInit
  <1>2. HandlerTypes /\ RequestsAreReal
    BY DEF SideEffectsInit, GrantInit, HandlerTypes, GrantTypeOK, RequestsAreReal
  <1>3. Reserved = {} /\ UnitsCharged = {} /\ scheduler_effects = {}
        /\ \A g \in Grant : ResourcesUsed(g) = {} /\ used_side_effects[g] = 0
    <2>1. \A g \in Grant : 1..used_side_effects[g] = {}
      BY DEF SideEffectsInit, GrantInit
    <2> QED
      BY <2>1 DEF SideEffectsInit, GrantInit, Init, Reserved, UnitsCharged, ResourcesUsed
  <1>4. Countable
    BY <1>3, FS_EmptySet DEF Countable
  <1>5. EffectHasGrant /\ EffectsAreCharged
    BY <1>3, FS_EmptySet DEF EffectHasGrant, EffectsAreCharged, Reserved
  <1>6. BlastRadiusBounded
    BY <1>3, FS_EmptySet, GrantAssumption DEF BlastRadiusBounded
  <1> QED
    BY <1>1, <1>2, <1>4, <1>5, <1>6 DEF EffectsInv

\* A record, with whatever now its handler still carries, keeps the scheduler's
\* invariant.
LEMMA RecordKeeps ==
    ASSUME SchedulerInv, NEW lease \in Lease, NEW now, RecordSideEffect(lease, now)
    PROVE  SchedulerInv'
  <1>1. lease[1] \in Task /\ lease[3] \in Nat
    BY LeaseColumns
  <1>2. TypeOK'
    BY <1>1 DEF SchedulerInv, TypeOK, RecordSideEffect
  <1>3. LeaseIsLatest' /\ OneWorkerPerFence' /\ LeasedWorkerRegistered'
    BY DEF SchedulerInv, LeaseIsLatest, OneWorkerPerFence, LeasedWorkerRegistered, RecordSideEffect
  <1>4. 0 < lease[3] /\ lease[3] <= scheduler_fences[lease[1]]
    BY DEF SchedulerInv, LeaseIsLatest, FencesBounded, RecordSideEffect, Authorized
  <1>5. FencesBounded'
    BY <1>4 DEF SchedulerInv, FencesBounded, RecordSideEffect
  <1> QED
    BY <1>2, <1>3, <1>5 DEF SchedulerInv

\* The commands of the scheduler.
LEMMA SchedulerKeeps ==
    ASSUME EffectsInv, SchedulerStep, UNCHANGED <<grantTables, handlers>>
    PROVE  EffectsInv'
  <1>1. [Next]_vars
    BY DEF SchedulerStep, Next, LeaseStep
  <1>2. SchedulerInv'
    BY <1>1, SchedulerInvStep DEF EffectsInv
  <1>3. scheduler_effects' = scheduler_effects /\ issued \subseteq issued'
    BY DEF SchedulerStep, WorkerStep, Register, Unregister, Schedule, Heartbeat, Release, Tick
  <1>4. HandlerTypes'
    BY DEF EffectsInv, HandlerTypes, GrantTypeOK, grantTables, handlers
  <1>5. RequestsAreReal'
    BY <1>3 DEF EffectsInv, RequestsAreReal, grantTables, handlers
  <1>6. Reserved' = Reserved
    BY DEF Reserved, handlers
  <1>7. /\ BlastRadiusBounded'
        /\ \A g \in Grant : IsFiniteSet(ResourcesUsed(g))'
        /\ UnitsCharged' = UnitsCharged
    BY UnchargedKeeps DEF EffectsInv, HandlerTypes, grantTables
  <1>8. Countable'
    BY <1>3, <1>6, <1>7 DEF EffectsInv, Countable
  <1>9. EffectHasGrant'
    BY <1>3 DEF EffectsInv, EffectHasGrant, grantTables
  <1>10. EffectsAreCharged'
    BY <1>3, <1>6, <1>7 DEF EffectsInv, EffectsAreCharged, Reserved
  <1> QED
    BY <1>2, <1>4, <1>5, <1>7, <1>8, <1>9, <1>10 DEF EffectsInv

\* register, revoke and kill.
LEMMA GrantsKeep ==
    ASSUME EffectsInv, GrantStep, UNCHANGED <<vars, handlers>>
    PROVE  EffectsInv'
  <1>1. /\ UNCHANGED <<used_side_effects, grant_resources>>
        /\ execution_grants \subseteq execution_grants'
    BY DEF GrantStep, RegisterGrant, Revoke, Kill
  <1>2. SchedulerInv'
    BY SchedulerInvStep DEF EffectsInv
  <1>3. HandlerTypes'
    BY <1>1 DEF EffectsInv, HandlerTypes, GrantTypeOK, handlers, GrantStep, RegisterGrant, Revoke, Kill
  <1>4. RequestsAreReal' /\ EffectHasGrant' /\ Reserved' = Reserved
    BY <1>1 DEF EffectsInv, RequestsAreReal, EffectHasGrant, Reserved, vars, handlers
  <1>5. /\ BlastRadiusBounded'
        /\ \A g \in Grant : IsFiniteSet(ResourcesUsed(g))'
        /\ UnitsCharged' = UnitsCharged
    BY <1>1, UnchargedKeeps DEF EffectsInv, HandlerTypes
  <1>6. Countable' /\ EffectsAreCharged'
    BY <1>4, <1>5 DEF EffectsInv, Countable, EffectsAreCharged, Reserved, vars
  <1> QED
    BY <1>2, <1>3, <1>4, <1>5, <1>6 DEF EffectsInv

\* A handler that only looks, dies or answers.
LEMMA HandlerLooks ==
    ASSUME EffectsInv, NEW h \in Handler, UNCHANGED <<vars, grantTables>>,
           \/ \E lease \in issued, g \in Grant, now \in Nows :
                 /\ pc[h] = "idle"
                 /\ pc' = [pc EXCEPT ![h] = "authorized"]
                 /\ request' = [request EXCEPT ![h] = {<<lease, g, now>>}]
           \/ Answer(h)
    PROVE  EffectsInv'
  <1>1. SchedulerInv'
    BY SchedulerInvStep DEF EffectsInv
  <1>2. HandlerTypes'
    <2>1. ASSUME NEW lease \in issued, NEW g \in Grant, NEW now \in Nows,
                 pc' = [pc EXCEPT ![h] = "authorized"],
                 request' = [request EXCEPT ![h] = {<<lease, g, now>>}]
          PROVE  HandlerTypes'
      <3>1. <<lease, g, now>> \in Lease \X Grant \X Time
        BY DEF EffectsInv, SchedulerInv, TypeOK, Nows
      <3> QED
        BY <2>1, <3>1 DEF EffectsInv, HandlerTypes, GrantTypeOK, grantTables
    <2>2. CASE Answer(h)
      BY <2>2 DEF EffectsInv, HandlerTypes, GrantTypeOK, grantTables, Answer
    <2> QED
      BY <2>1, <2>2
  <1>3. RequestsAreReal'
    <2>1. ASSUME NEW lease \in issued, NEW g \in Grant, NEW now \in Nows,
                 pc' = [pc EXCEPT ![h] = "authorized"],
                 request' = [request EXCEPT ![h] = {<<lease, g, now>>}]
          PROVE  RequestsAreReal'
      <3>1. <<lease, g, now>>[1] = lease
        OBVIOUS
      <3> QED
        BY <2>1, <3>1 DEF EffectsInv, HandlerTypes, RequestsAreReal, vars, grantTables
    <2>2. CASE Answer(h)
      BY <2>2 DEF EffectsInv, HandlerTypes, RequestsAreReal, vars, grantTables, Answer
    <2> QED
      BY <2>1, <2>2
  <1>4. Reserved' = Reserved \ {h}
    BY DEF EffectsInv, HandlerTypes, Reserved, Answer
  <1>5. /\ BlastRadiusBounded'
        /\ \A g \in Grant : IsFiniteSet(ResourcesUsed(g))'
        /\ UnitsCharged' = UnitsCharged
    BY UnchargedKeeps DEF EffectsInv, HandlerTypes, grantTables
  <1>6. /\ IsFiniteSet(Reserved')
        /\ Cardinality(Reserved') \in Nat /\ Cardinality(Reserved) \in Nat
        /\ Cardinality(Reserved') <= Cardinality(Reserved)
    BY <1>4, FS_Subset, FS_CardinalityType DEF EffectsInv, Countable
  <1>7. Countable' /\ EffectHasGrant'
    BY <1>5, <1>6 DEF EffectsInv, Countable, EffectHasGrant, vars, grantTables
  <1>8. EffectsAreCharged'
    <2>1. Cardinality(scheduler_effects) \in Nat /\ Cardinality(UnitsCharged) \in Nat
      BY FS_CardinalityType DEF EffectsInv, Countable
    <2>2. scheduler_effects' = scheduler_effects
      BY DEF vars
    <2>3. Cardinality(scheduler_effects) + Cardinality(Reserved) <= Cardinality(UnitsCharged)
      BY DEF EffectsInv, EffectsAreCharged, Reserved
    <2>4. Cardinality(scheduler_effects') + Cardinality(Reserved') <= Cardinality(UnitsCharged')
      BY <1>5, <1>6, <2>1, <2>2, <2>3
    <2> QED
      BY <2>4 DEF EffectsAreCharged, Reserved
  <1> QED
    BY <1>1, <1>2, <1>3, <1>5, <1>7, <1>8 DEF EffectsInv

\* The second transaction: the grant is charged and the handler goes on.
LEMMA ReserveKeeps ==
    ASSUME EffectsInv, NEW h \in Handler, NEW r \in request[h], pc[h] = "authorized",
           Reserve(r[1], r[2], r[3]), pc' = [pc EXCEPT ![h] = "reserved"], UNCHANGED <<request, vars>>
    PROVE  EffectsInv'
  <1>1. r \in Lease \X Grant \X Time
    BY DEF EffectsInv, HandlerTypes
  <1>2. r[1] \in Lease /\ r[2] \in Grant
    BY <1>1
  <1>3. r[1][1] \in Task /\ r[1][1] \in Resource
    BY <1>2, LeaseColumns, HandlerAssumption
  <1>4. /\ GrantTypeOK'
        /\ BlastRadiusBounded'
        /\ \A g \in Grant : IsFiniteSet(ResourcesUsed(g))'
        /\ IsFiniteSet(UnitsCharged')
        /\ Cardinality(UnitsCharged') = Cardinality(UnitsCharged) + 1
    BY <1>2, <1>3, ChargeKeeps DEF EffectsInv, HandlerTypes, Reserve
  <1>5. SchedulerInv'
    BY SchedulerInvStep DEF EffectsInv
  <1>6. HandlerTypes'
    BY <1>4 DEF EffectsInv, HandlerTypes
  <1>7. /\ grant_resources' = grant_resources \union {<<r[2], r[1][1]>>}
        /\ SubjectOf[r[2]] = r[1][2] /\ "write" \in ActionsOf[r[2]]
    BY DEF Reserve, AuthorizeAndRecord, Admits, InScope
  <1>8. request[h] = {r}
    BY DEF EffectsInv, HandlerTypes
  <1>9. RequestsAreReal'
    <2> SUFFICES ASSUME NEW k \in Handler, NEW q \in request'[k]
                 PROVE  /\ q[1] \in issued'
                        /\ pc'[k] = "reserved" =>
                              /\ SubjectOf[q[2]] = q[1][2]
                              /\ "write" \in ActionsOf[q[2]]
                              /\ <<q[2], q[1][1]>> \in grant_resources'
      BY DEF RequestsAreReal
    <2>1. q \in request[k] /\ q[1] \in issued'
      BY DEF EffectsInv, RequestsAreReal, vars
    <2>2. CASE k = h
      BY <1>7, <1>8, <2>1, <2>2
    <2>3. CASE k # h
      BY <1>7, <2>1, <2>3 DEF EffectsInv, HandlerTypes, RequestsAreReal
    <2> QED
      BY <2>1, <2>2, <2>3
  <1>10. EffectHasGrant'
    BY <1>7 DEF EffectsInv, EffectHasGrant, vars
  <1>11. Reserved' = Reserved \union {h} /\ h \notin Reserved
    BY DEF EffectsInv, HandlerTypes, Reserved
  <1>12. IsFiniteSet(Reserved') /\ Cardinality(Reserved') = Cardinality(Reserved) + 1
    BY <1>11, FS_AddElement DEF EffectsInv, Countable
  <1>13. Countable'
    BY <1>4, <1>12 DEF EffectsInv, Countable, vars
  <1>14. EffectsAreCharged'
    <2>1. Cardinality(scheduler_effects) \in Nat /\ Cardinality(UnitsCharged) \in Nat
          /\ Cardinality(Reserved) \in Nat
      BY FS_CardinalityType DEF EffectsInv, Countable
    <2>2. scheduler_effects' = scheduler_effects
      BY DEF vars
    <2>3. Cardinality(scheduler_effects) + Cardinality(Reserved) <= Cardinality(UnitsCharged)
      BY DEF EffectsInv, EffectsAreCharged, Reserved
    <2>4. Cardinality(scheduler_effects') + Cardinality(Reserved') <= Cardinality(UnitsCharged')
      BY <1>4, <1>12, <2>1, <2>2, <2>3
    <2> QED
      BY <2>4 DEF EffectsAreCharged, Reserved
  <1> QED
    BY <1>4, <1>5, <1>6, <1>9, <1>10, <1>13, <1>14 DEF EffectsInv

\* The third transaction: the effect takes the place of the reservation.
LEMMA EffectKeeps ==
    ASSUME EffectsInv, NEW h \in Handler, NEW r \in request[h], pc[h] = "reserved",
           RecordSideEffect(r[1], r[3]), Answer(h), UNCHANGED grantTables
    PROVE  EffectsInv'
  <1> DEFINE effect == <<r[1][1], r[1][3]>>
  <1>1. r \in Lease \X Grant \X Time
    BY DEF EffectsInv, HandlerTypes
  <1>2. r[1] \in Lease /\ r[2] \in Grant
    BY <1>1
  <1>3. SchedulerInv'
    BY <1>2, RecordKeeps DEF EffectsInv
  <1>4. HandlerTypes'
    BY DEF EffectsInv, HandlerTypes, GrantTypeOK, grantTables, Answer
  <1>5. /\ scheduler_effects' = scheduler_effects \union {effect}
        /\ effect \notin scheduler_effects
        /\ issued' = issued
    BY DEF RecordSideEffect
  <1>6. RequestsAreReal'
    BY <1>5 DEF EffectsInv, HandlerTypes, RequestsAreReal, grantTables, Answer
  <1>7. EffectHasGrant'
    <2>1. /\ r[1] \in issued /\ SubjectOf[r[2]] = r[1][2] /\ "write" \in ActionsOf[r[2]]
          /\ <<r[2], r[1][1]>> \in grant_resources
      BY DEF EffectsInv, RequestsAreReal
    <2>2. \E l \in issued, g \in Grant :
              /\ l[1] = effect[1] /\ l[3] = effect[2] /\ SubjectOf[g] = l[2]
              /\ "write" \in ActionsOf[g] /\ <<g, effect[1]>> \in grant_resources
      BY <1>2, <2>1
    <2>3. UNCHANGED grant_resources
      BY DEF grantTables
    <2> HIDE DEF effect
    <2> QED
      BY <1>5, <2>2, <2>3 DEF EffectsInv, EffectHasGrant
  <1>8. /\ BlastRadiusBounded'
        /\ \A g \in Grant : IsFiniteSet(ResourcesUsed(g))'
        /\ UnitsCharged' = UnitsCharged
    BY UnchargedKeeps DEF EffectsInv, HandlerTypes, grantTables
  <1>9. Reserved' = Reserved \ {h} /\ h \in Reserved
    BY DEF EffectsInv, HandlerTypes, Reserved, Answer
  <1>10. IsFiniteSet(Reserved') /\ Cardinality(Reserved') = Cardinality(Reserved) - 1
    BY <1>9, FS_RemoveElement DEF EffectsInv, Countable
  <1>11. IsFiniteSet(scheduler_effects')
         /\ Cardinality(scheduler_effects') = Cardinality(scheduler_effects) + 1
    <2> HIDE DEF effect
    <2> QED
      BY <1>5, FS_AddElement DEF EffectsInv, Countable
  <1>12. Countable'
    BY <1>8, <1>10, <1>11 DEF EffectsInv, Countable
  <1>13. EffectsAreCharged'
    <2>1. Cardinality(scheduler_effects) \in Nat /\ Cardinality(UnitsCharged) \in Nat
          /\ Cardinality(Reserved) \in Nat
      BY FS_CardinalityType DEF EffectsInv, Countable
    <2>2. Cardinality(scheduler_effects) + Cardinality(Reserved) <= Cardinality(UnitsCharged)
      BY DEF EffectsInv, EffectsAreCharged, Reserved
    <2>3. Cardinality(scheduler_effects') + Cardinality(Reserved') <= Cardinality(UnitsCharged')
      BY <1>8, <1>10, <1>11, <2>1, <2>2
    <2> QED
      BY <2>3 DEF EffectsAreCharged, Reserved
  <1> QED
    BY <1>3, <1>4, <1>6, <1>7, <1>8, <1>12, <1>13 DEF EffectsInv

\* Every step of scheduler, grants and handlers keeps the invariant.
LEMMA EffectsStep == EffectsInv /\ [SideEffectsNext]_allVars => EffectsInv'
  <1> SUFFICES ASSUME EffectsInv, [SideEffectsNext]_allVars PROVE EffectsInv'
    OBVIOUS
  <1>1. CASE UNCHANGED allVars
    <2>1. UNCHANGED <<vars, grantTables, handlers>>
      BY <1>1 DEF allVars
    <2>2. SchedulerInv'
      BY <2>1, SchedulerInvStep DEF EffectsInv
    <2>3. UnitsCharged' = UnitsCharged /\ Reserved' = Reserved
          /\ \A g \in Grant : ResourcesUsed(g)' = ResourcesUsed(g)
      BY <2>1 DEF UnitsCharged, Reserved, ResourcesUsed, grantTables, handlers
    <2>4. HandlerTypes' /\ RequestsAreReal' /\ EffectHasGrant'
      BY <2>1 DEF EffectsInv, HandlerTypes, GrantTypeOK, RequestsAreReal, EffectHasGrant, vars,
                  grantTables, handlers
    <2>5. Countable' /\ EffectsAreCharged'
      BY <2>1, <2>3 DEF EffectsInv, Countable, EffectsAreCharged, Reserved, vars
    <2>6. BlastRadiusBounded'
      BY <2>1, <2>3 DEF EffectsInv, BlastRadiusBounded, grantTables
    <2> QED
      BY <2>2, <2>4, <2>5, <2>6 DEF EffectsInv
  <1>2. CASE SchedulerStep /\ UNCHANGED <<grantTables, handlers>>
    BY <1>2, SchedulerKeeps
  <1>3. CASE GrantStep /\ UNCHANGED <<vars, handlers>>
    BY <1>3, GrantsKeep
  <1>4. ASSUME NEW h \in Handler, HandlerStep(h)
        PROVE  EffectsInv'
    <2>1. CASE \E lease \in issued, g \in Grant, now \in Nows : HandlerAuthorize(h, lease, g, now)
      <3>1. UNCHANGED <<vars, grantTables>>
        BY <2>1 DEF HandlerAuthorize
      <3>2. \E lease \in issued, g \in Grant, now \in Nows :
               /\ pc[h] = "idle"
               /\ pc' = [pc EXCEPT ![h] = "authorized"]
               /\ request' = [request EXCEPT ![h] = {<<lease, g, now>>}]
        BY <2>1 DEF HandlerAuthorize
      <3> QED
        BY <3>1, <3>2, HandlerLooks
    <2>2. ASSUME NEW r \in request[h], HandlerReserve(h, r[1], r[2], r[3])
          PROVE  EffectsInv'
      BY <2>2, ReserveKeeps, HandlerLooks DEF HandlerReserve
    <2>3. ASSUME NEW r \in request[h], HandlerRecord(h, r[1], r[2], r[3])
          PROVE  EffectsInv'
      BY <2>3, EffectKeeps, HandlerLooks DEF HandlerRecord
    <2>4. CASE HandlerDies(h)
      BY <2>4, HandlerLooks DEF HandlerDies
    <2> QED
      BY <1>4, <2>1, <2>2, <2>3, <2>4 DEF HandlerStep
  <1> QED
    BY <1>1, <1>2, <1>3, <1>4 DEF SideEffectsNext

\* The inductive invariant holds in every reachable state.
LEMMA EffectsInvariant == SideEffectsSpec => []EffectsInv
  BY EffectsStart, EffectsStep, PTL DEF SideEffectsSpec

----------------------------------------------------------------------------
(* Theorems                                                                *)

\* Whatever handlers race, die or serve expired holders, an effect on record is
\* covered by a grant of its holder, and no unit of a budget pays for two.
THEOREM EffectsAreGrantedAndPaid == SideEffectsSpec => []SideEffectsInv
  <1>1. EffectsInv => SideEffectsInv
    <2> SUFFICES ASSUME EffectsInv PROVE SideEffectsInv
      OBVIOUS
    <2>1. \A h \in Handler : Cardinality(request[h]) = (IF pc[h] = "idle" THEN 0 ELSE 1)
      <3> SUFFICES ASSUME NEW h \in Handler
                   PROVE  Cardinality(request[h]) = (IF pc[h] = "idle" THEN 0 ELSE 1)
        OBVIOUS
      <3>1. CASE pc[h] = "idle"
        BY <3>1, FS_EmptySet DEF EffectsInv, HandlerTypes
      <3>2. CASE pc[h] # "idle"
        <4>1. PICK r : request[h] = {r}
          BY <3>2 DEF EffectsInv, HandlerTypes
        <4> QED
          BY <3>2, <4>1, FS_Singleton
      <3> QED
        BY <3>1, <3>2
    <2> QED
      BY <2>1 DEF EffectsInv, SchedulerInv, HandlerTypes, SideEffectsInv, SideEffectsTypeOK
  <1> QED
    BY <1>1, EffectsInvariant, PTL

\* The blast radius of every grant stays within its budgets and its scope.
THEOREM BlastRadiusHolds == SideEffectsSpec => []BlastRadiusBounded
  <1>1. EffectsInv => BlastRadiusBounded
    BY DEF EffectsInv
  <1> QED
    BY <1>1, EffectsInvariant, PTL

\* Nothing is ever charged to a grant that was revoked or whose subject was
\* stopped, and neither is taken back.
THEOREM StopsAreFinal == SideEffectsSpec => StoppedStaysStopped
  <1>1. EffectsInv /\ [SideEffectsNext]_allVars => [StopStep]_grantTables
    <2> SUFFICES ASSUME EffectsInv, SideEffectsNext, ~UNCHANGED grantTables, NEW k \in Grant,
                        k \in revoked_grants \/ SubjectOf[k] \in stopped_subjects
                 PROVE  /\ used_side_effects'[k] = used_side_effects[k]
                        /\ k \in revoked_grants' \/ SubjectOf[k] \in stopped_subjects'
      BY DEF StopStep, allVars
    <2>1. CASE GrantStep
      BY <2>1 DEF GrantStep, RegisterGrant, Revoke, Kill
    <2>2. ASSUME NEW h \in Handler, NEW r \in request[h], Reserve(r[1], r[2], r[3])
          PROVE  /\ used_side_effects'[k] = used_side_effects[k]
                 /\ k \in revoked_grants' \/ SubjectOf[k] \in stopped_subjects'
      <3>1. k # r[2] /\ UNCHANGED <<revoked_grants, stopped_subjects>>
        BY <2>2 DEF Reserve, AuthorizeAndRecord, Admits, Live, InScope
      <3>2. used_side_effects'[k] = used_side_effects[k]
        BY <2>2, <3>1 DEF Reserve, AuthorizeAndRecord, EffectsInv, HandlerTypes, GrantTypeOK
      <3> QED
        BY <3>1, <3>2
    <2>3. \/ GrantStep
          \/ \E h \in Handler : \E r \in request[h] : Reserve(r[1], r[2], r[3])
      BY DEF SideEffectsNext, HandlerStep, HandlerAuthorize, HandlerReserve, HandlerRecord, HandlerDies
    <2> QED
      BY <2>1, <2>2, <2>3
  <1> QED
    BY <1>1, EffectsInvariant, PTL DEF SideEffectsSpec, StoppedStaysStopped
=============================================================================
