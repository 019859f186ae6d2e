----------------------- MODULE WorkerSchedulerProofs -----------------------
(***************************************************************************)
(* Proofs about the durable worker scheduler, for any sets of workers and  *)
(* tasks, any lease duration and any lag of the callers' clocks.           *)
(***************************************************************************)
EXTENDS WorkerScheduler, FiniteSetTheorems, TLAPS

\* Tokens never exceed the task's latest fence, on leases and on effects.
FencesBounded ==
    /\ \A l \in issued : 0 < l[3] /\ l[3] <= scheduler_fences[l[1]]
    /\ \A e \in scheduler_effects : 0 < e[2] /\ e[2] <= scheduler_fences[e[1]]

\* The inductive invariant of the scheduler.
SchedulerInv ==
    /\ TypeOK
    /\ LeaseIsLatest
    /\ OneWorkerPerFence
    /\ LeasedWorkerRegistered
    /\ FencesBounded

tables == <<scheduler_fences, scheduler_leases, scheduler_effects, issued>>

\* A lease is a tuple of its five columns.
LEMMA LeaseColumns ==
    ASSUME NEW l \in Lease
    PROVE  /\ l[1] \in Task /\ l[2] \in Worker /\ l[3] \in Nat
           /\ l[4] \in Nat /\ l[5] \in Zone
           /\ l = <<l[1], l[2], l[3], l[4], l[5]>>
  BY DEF Lease

\* The row schedule writes is a lease.
LEMMA NewLeaseType ==
    ASSUME TypeOK, NEW t \in Task, NEW w \in Worker, NEW now \in Nows, NEW zone \in Zone
    PROVE  /\ NewLease(t, w, now, zone) \in Lease
           /\ NewLease(t, w, now, zone)[1] = t
           /\ NewLease(t, w, now, zone)[2] = w
           /\ NewLease(t, w, now, zone)[3] = scheduler_fences[t] + 1
  <1>1. now + Duration \in Nat
    BY SchedulerAssumption DEF Nows, Time
  <1>2. scheduler_fences[t] + 1 \in Nat
    BY SchedulerAssumption DEF TypeOK
  <1> QED
    BY <1>1, <1>2 DEF NewLease, NextFence, Lease

\* The row heartbeat writes is a lease of the same holder and fence.
LEMMA RenewedType ==
    ASSUME TypeOK, NEW lease \in Lease, NEW now \in Nows, NEW zone \in Zone
    PROVE  /\ Renewed(lease, now, zone) \in Lease
           /\ Renewed(lease, now, zone)[1] = lease[1]
           /\ Renewed(lease, now, zone)[2] = lease[2]
           /\ Renewed(lease, now, zone)[3] = lease[3]
  <1>1. now + Duration \in Nat
    BY SchedulerAssumption DEF Nows, Time
  <1> QED
    BY <1>1, LeaseColumns DEF Renewed, Lease

\* The steps of the scheduler, with the leases they use typed.
LEMMA StepCases ==
    ASSUME TypeOK, [Next]_vars
    PROVE  \/ UNCHANGED <<tables, capabilities, quota>>
           \/ \E w \in Worker, caps \in SUBSET Capability, max \in 1..MaxQuota :
                 Register(w, caps, max)
           \/ \E w \in Worker : Unregister(w)
           \/ \E t \in Task, cap \in Capability, w \in Worker, now \in Nows, zone \in Zone :
                 Schedule(t, cap, w, now, zone)
           \/ \E lease \in Lease, now \in Nows, zone \in Zone :
                 lease \in issued /\ Heartbeat(lease, now, zone)
           \/ \E lease \in Lease, now \in Nows : lease \in issued /\ RecordSideEffect(lease, now)
           \/ \E lease \in Lease : lease \in issued /\ Release(lease)
  <1>1. CASE UNCHANGED vars
    BY <1>1 DEF vars, tables
  <1>2. CASE Tick
    BY <1>2 DEF Tick, tables
  <1>3. CASE \E w \in Worker : WorkerStep(w)
    BY <1>3 DEF WorkerStep
  <1>4. CASE \E t \in Task, cap \in Capability, w \in Worker, now \in Nows, zone \in Zone :
                 Schedule(t, cap, w, now, zone)
    BY <1>4
  <1>5. CASE \E lease \in issued : LeaseStep(lease)
    <2>1. PICK lease \in issued : LeaseStep(lease)
      BY <1>5
    <2>2. lease \in Lease
      BY DEF TypeOK
    <2> QED
      BY <2>1, <2>2 DEF LeaseStep
  <1> QED
    BY <1>1, <1>2, <1>3, <1>4, <1>5 DEF Next

\* Empty tables satisfy the invariant.
LEMMA SchedulerInvInit == Init => SchedulerInv
  <1> SUFFICES ASSUME Init PROVE SchedulerInv
    OBVIOUS
  <1>1. TypeOK
    BY SchedulerAssumption DEF Init, TypeOK, Time
  <1> QED
    BY <1>1 DEF Init, SchedulerInv, LeaseIsLatest, OneWorkerPerFence, LeasedWorkerRegistered,
                FencesBounded

\* Every step keeps the tables well typed.
LEMMA TypeStep == TypeOK /\ [Next]_vars => TypeOK'
  <1> SUFFICES ASSUME TypeOK, [Next]_vars PROVE TypeOK'
    OBVIOUS
  <1> USE SchedulerAssumption
  <1>1. clock' \in Time
    <2>1. CASE Tick
      BY <2>1 DEF Tick, TypeOK, Time
    <2>2. CASE \E w \in Worker : WorkerStep(w)
      BY <2>2 DEF WorkerStep, Register, Unregister, TypeOK
    <2>3. CASE \E t \in Task, cap \in Capability, w \in Worker, now \in Nows, zone \in Zone :
                 Schedule(t, cap, w, now, zone)
      BY <2>3 DEF Schedule, TypeOK
    <2>4. CASE \E lease \in issued : LeaseStep(lease)
      BY <2>4 DEF LeaseStep, Heartbeat, RecordSideEffect, Release, TypeOK
    <2>5. CASE UNCHANGED vars
      BY <2>5 DEF vars, TypeOK
    <2> QED
      BY <2>1, <2>2, <2>3, <2>4, <2>5 DEF Next
  <1>2. CASE UNCHANGED <<tables, capabilities, quota>>
    BY <1>1, <1>2 DEF TypeOK, tables
  <1>3. ASSUME NEW w \in Worker, NEW caps \in SUBSET Capability, NEW max \in 1..MaxQuota,
               Register(w, caps, max)
        PROVE  TypeOK'
    BY <1>1, <1>3 DEF TypeOK, Register
  <1>4. ASSUME NEW w \in Worker, Unregister(w) PROVE TypeOK'
    BY <1>1, <1>4 DEF TypeOK, Unregister
  <1>5. ASSUME NEW t \in Task, NEW cap \in Capability, NEW w \in Worker,
               NEW now \in Nows, NEW zone \in Zone, Schedule(t, cap, w, now, zone)
        PROVE  TypeOK'
    <2>1. NewLease(t, w, now, zone) \in Lease
      BY NewLeaseType
    <2>2. scheduler_fences' \in [Task -> 0..MaxFence]
      BY <1>5 DEF TypeOK, Schedule, NextFence
    <2> QED
      BY <1>1, <1>5, <2>1, <2>2 DEF TypeOK, Schedule, LeasesOfOthers
  <1>6. ASSUME NEW lease \in Lease, NEW now \in Nows, NEW zone \in Zone,
               Heartbeat(lease, now, zone)
        PROVE  TypeOK'
    <2>1. Renewed(lease, now, zone) \in Lease
      BY RenewedType
    <2> QED
      BY <1>1, <1>6, <2>1 DEF TypeOK, Heartbeat, LeasesOfOthers
  <1>7. ASSUME NEW lease \in Lease, NEW now \in Nows, RecordSideEffect(lease, now)
        PROVE  TypeOK'
    <2>1. <<lease[1], lease[3]>> \in Task \X Nat
      BY LeaseColumns
    <2> QED
      BY <1>1, <1>7, <2>1 DEF TypeOK, RecordSideEffect
  <1>8. ASSUME NEW lease \in Lease, Release(lease) PROVE TypeOK'
    BY <1>1, <1>8 DEF TypeOK, Release, LeasesOfOthers
  <1> QED
    BY <1>2, <1>3, <1>4, <1>5, <1>6, <1>7, <1>8, StepCases

\* The scheduler's tables are always well typed.
THEOREM SchedulerTypeCorrect == Spec => []TypeOK
  <1>1. Init => TypeOK
    BY SchedulerInvInit DEF SchedulerInv
  <1> QED
    BY <1>1, TypeStep, PTL DEF Spec

\* An upsert or a deletion keeps the rows of the other tasks.
LEMMA OtherRows ==
    ASSUME NEW t, NEW l \in LeasesOfOthers(t)
    PROVE  l \in scheduler_leases /\ l[1] # t
  BY DEF LeasesOfOthers

\* schedule opens a new fence: no lease and no effect carries it yet.
LEMMA FreshFence ==
    ASSUME SchedulerInv, NEW t \in Task
    PROVE  /\ \A l \in issued : l[1] = t => l[3] < scheduler_fences[t] + 1
           /\ \A e \in scheduler_effects : e[1] = t => e[2] < scheduler_fences[t] + 1
  <1>1. scheduler_fences[t] \in Nat
    BY SchedulerAssumption DEF SchedulerInv, TypeOK
  <1>2. ASSUME NEW l \in issued, l[1] = t PROVE l[3] < scheduler_fences[t] + 1
    <2>1. l[3] \in Nat /\ l[3] <= scheduler_fences[t]
      BY <1>2, LeaseColumns DEF SchedulerInv, TypeOK, FencesBounded
    <2> QED
      BY <1>1, <2>1
  <1>3. ASSUME NEW e \in scheduler_effects, e[1] = t PROVE e[2] < scheduler_fences[t] + 1
    <2>1. e[2] \in Nat /\ e[2] <= scheduler_fences[t]
      BY <1>3 DEF SchedulerInv, TypeOK, FencesBounded
    <2> QED
      BY <1>1, <2>1
  <1> QED
    BY <1>2, <1>3

\* Every step preserves the invariant.
LEMMA SchedulerInvStep == SchedulerInv /\ [Next]_vars => SchedulerInv'
  <1> SUFFICES ASSUME SchedulerInv, [Next]_vars PROVE SchedulerInv'
    OBVIOUS
  <1> USE SchedulerAssumption
  <1>0. TypeOK /\ TypeOK'
    BY TypeStep DEF SchedulerInv
  <1>1. CASE UNCHANGED <<tables, capabilities, quota>>
    BY <1>0, <1>1 DEF tables, SchedulerInv, LeaseIsLatest, OneWorkerPerFence,
       LeasedWorkerRegistered, FencesBounded
  <1>2. ASSUME NEW w \in Worker, NEW caps \in SUBSET Capability, NEW max \in 1..MaxQuota,
               Register(w, caps, max)
        PROVE  SchedulerInv'
    <2>1. UNCHANGED tables
      BY <1>2 DEF Register, tables
    <2>2. LeasedWorkerRegistered'
      BY <1>0, <1>2, LeaseColumns DEF Register, SchedulerInv, LeasedWorkerRegistered, TypeOK
    <2> QED
      BY <1>0, <2>1, <2>2 DEF tables, SchedulerInv, LeaseIsLatest, OneWorkerPerFence,
         FencesBounded
  <1>3. ASSUME NEW w \in Worker, Unregister(w) PROVE SchedulerInv'
    <2>1. UNCHANGED tables
      BY <1>3 DEF Unregister, tables
    <2>2. LeasedWorkerRegistered'
      BY <1>0, <1>3, LeaseColumns
         DEF Unregister, Unleased, SchedulerInv, LeasedWorkerRegistered, TypeOK
    <2> QED
      BY <1>0, <2>1, <2>2 DEF tables, SchedulerInv, LeaseIsLatest, OneWorkerPerFence,
         FencesBounded
  <1>4. ASSUME NEW t \in Task, NEW cap \in Capability, NEW w \in Worker,
               NEW now \in Nows, NEW zone \in Zone, Schedule(t, cap, w, now, zone)
        PROVE  SchedulerInv'
    <2> DEFINE new == NewLease(t, w, now, zone)
               fence == scheduler_fences[t] + 1
    <2>1. new \in Lease /\ new[1] = t /\ new[2] = w /\ new[3] = fence
      BY <1>0, NewLeaseType
    <2>2. /\ scheduler_leases' = LeasesOfOthers(t) \union {new}
          /\ issued' = issued \union {new}
          /\ scheduler_fences' = [scheduler_fences EXCEPT ![t] = fence]
          /\ UNCHANGED <<quota, scheduler_effects>>
      BY <1>4 DEF Schedule, NextFence
    <2>3. fence \in Nat /\ fence > 0 /\ scheduler_fences[t] < fence
      BY <1>0 DEF TypeOK
    <2> HIDE DEF new, fence
    <2>4. LeaseIsLatest'
      <3> SUFFICES ASSUME NEW l \in scheduler_leases'
                   PROVE  /\ l[3] = scheduler_fences'[l[1]]
                          /\ l \in issued'
                          /\ \A m \in scheduler_leases' : l[1] = m[1] => l = m
        BY DEF LeaseIsLatest
      <3>1. CASE l = new
        BY <1>0, <2>1, <2>2, <3>1, OtherRows DEF TypeOK
      <3>2. CASE l \in LeasesOfOthers(t)
        <4>1. l \in scheduler_leases /\ l[1] # t
          BY <3>2, OtherRows
        <4>2. l[1] \in Task
          BY <1>0, <4>1, LeaseColumns DEF TypeOK
        <4>3. \A m \in scheduler_leases' : l[1] = m[1] => l = m
          BY <2>1, <2>2, <4>1, OtherRows DEF SchedulerInv, LeaseIsLatest
        <4> QED
          BY <1>0, <2>2, <4>1, <4>2, <4>3 DEF SchedulerInv, LeaseIsLatest, TypeOK
      <3> QED
        BY <2>2, <3>1, <3>2
    <2>5. OneWorkerPerFence'
      <3>1. \A l \in issued : l[1] = t => l[3] # fence
        BY <1>0, <2>3, FreshFence, LeaseColumns DEF TypeOK, fence
      <3> QED
        BY <2>1, <2>2, <3>1 DEF SchedulerInv, OneWorkerPerFence
    <2>6. LeasedWorkerRegistered'
      <3>1. quota[w] > 0
        BY <1>4 DEF Schedule, Selected, Eligible
      <3> QED
        BY <2>1, <2>2, <3>1, OtherRows DEF SchedulerInv, LeasedWorkerRegistered
    <2>7. FencesBounded'
      <3>1. ASSUME NEW l \in issued' PROVE 0 < l[3] /\ l[3] <= scheduler_fences'[l[1]]
        <4>1. CASE l = new
          BY <1>0, <2>1, <2>2, <2>3, <4>1 DEF TypeOK
        <4>2. CASE l \in issued /\ l[1] = t
          BY <1>0, <2>2, <2>3, <4>2, FreshFence, LeaseColumns
             DEF TypeOK, fence, SchedulerInv, FencesBounded
        <4>3. CASE l \in issued /\ l[1] # t
          BY <1>0, <2>2, <4>3, LeaseColumns DEF TypeOK, SchedulerInv, FencesBounded
        <4> QED
          BY <2>2, <4>1, <4>2, <4>3
      <3>2. ASSUME NEW e \in scheduler_effects'
            PROVE  0 < e[2] /\ e[2] <= scheduler_fences'[e[1]]
        <4>1. e \in scheduler_effects /\ e[1] \in Task /\ e[2] \in Nat
          BY <1>0, <2>2 DEF TypeOK
        <4>2. 0 < e[2] /\ e[2] <= scheduler_fences[e[1]]
          BY <4>1 DEF SchedulerInv, FencesBounded
        <4> QED
          BY <1>0, <2>2, <2>3, <4>1, <4>2 DEF TypeOK
      <3> QED
        BY <3>1, <3>2 DEF FencesBounded
    <2> QED
      BY <1>0, <2>4, <2>5, <2>6, <2>7 DEF SchedulerInv
  <1>5. ASSUME NEW lease \in Lease, lease \in issued, NEW now \in Nows, NEW zone \in Zone,
               Heartbeat(lease, now, zone)
        PROVE  SchedulerInv'
    <2> DEFINE new == Renewed(lease, now, zone)
    <2>1. new \in Lease /\ new[1] = lease[1] /\ new[2] = lease[2] /\ new[3] = lease[3]
      BY <1>0, RenewedType
    <2>2. /\ lease \in scheduler_leases
          /\ scheduler_leases' = LeasesOfOthers(lease[1]) \union {new}
          /\ issued' = issued \union {new}
          /\ UNCHANGED <<quota, scheduler_effects, scheduler_fences>>
      BY <1>5 DEF Heartbeat, Authorized
    <2> HIDE DEF new
    <2>3. LeaseIsLatest'
      BY <2>1, <2>2, OtherRows DEF SchedulerInv, LeaseIsLatest
    <2>4. OneWorkerPerFence'
      BY <1>5, <2>1, <2>2 DEF SchedulerInv, OneWorkerPerFence
    <2>5. LeasedWorkerRegistered'
      BY <2>1, <2>2, OtherRows DEF SchedulerInv, LeasedWorkerRegistered
    <2>6. FencesBounded'
      BY <1>5, <2>1, <2>2 DEF SchedulerInv, FencesBounded
    <2> QED
      BY <1>0, <2>3, <2>4, <2>5, <2>6 DEF SchedulerInv
  <1>6. ASSUME NEW lease \in Lease, lease \in issued, NEW now \in Nows,
               RecordSideEffect(lease, now)
        PROVE  SchedulerInv'
    <2>1. FencesBounded'
      <3> DEFINE new == <<lease[1], lease[3]>>
      <3>1. new[1] = lease[1] /\ new[2] = lease[3]
        OBVIOUS
      <3>2. /\ scheduler_effects' = scheduler_effects \union {new}
            /\ UNCHANGED <<issued, scheduler_fences>>
        BY <1>6 DEF RecordSideEffect
      <3>3. 0 < lease[3] /\ lease[3] <= scheduler_fences[lease[1]]
        BY <1>6 DEF SchedulerInv, FencesBounded
      <3> HIDE DEF new
      <3> QED
        BY <3>1, <3>2, <3>3 DEF SchedulerInv, FencesBounded
    <2> QED
      BY <1>0, <1>6, <2>1 DEF RecordSideEffect, SchedulerInv, LeaseIsLatest,
         OneWorkerPerFence, LeasedWorkerRegistered
  <1>7. ASSUME NEW lease \in Lease, lease \in issued, Release(lease) PROVE SchedulerInv'
    <2>1. /\ scheduler_leases' = LeasesOfOthers(lease[1])
          /\ UNCHANGED <<quota, scheduler_effects, scheduler_fences, issued>>
      BY <1>7 DEF Release
    <2> QED
      BY <1>0, <2>1, OtherRows DEF SchedulerInv, LeaseIsLatest, OneWorkerPerFence,
         LeasedWorkerRegistered, FencesBounded
  <1> QED
    BY <1>0, <1>1, <1>2, <1>3, <1>4, <1>5, <1>6, <1>7, StepCases

\* The invariant holds in every reachable state.
THEOREM SchedulerInvariant == Spec => []SchedulerInv
  BY SchedulerInvInit, SchedulerInvStep, PTL DEF Spec

\* A lease row is the only one of its task and carries its latest fence.
THEOREM LeasesAreLatest == Spec => []LeaseIsLatest
  <1>1. SchedulerInv => LeaseIsLatest
    BY DEF SchedulerInv
  <1> QED
    BY <1>1, SchedulerInvariant, PTL

\* A fencing token never belongs to two workers.
THEOREM FencesIdentifyWorkers == Spec => []OneWorkerPerFence
  <1>1. SchedulerInv => OneWorkerPerFence
    BY DEF SchedulerInv
  <1> QED
    BY <1>1, SchedulerInvariant, PTL

\* A worker is never unregistered under its leases.
THEOREM LeasedWorkersRegistered == Spec => []LeasedWorkerRegistered
  <1>1. SchedulerInv => LeasedWorkerRegistered
    BY DEF SchedulerInv
  <1> QED
    BY <1>1, SchedulerInvariant, PTL

\* A lease row, its fence and its worker identify one another.
THEOREM HoldersAreIdentified == Spec => []LeasesIdentifyHolders
  BY LeasesAreLatest, FencesIdentifyWorkers, LeasedWorkersRegistered, PTL DEF LeasesIdentifyHolders

\* A commit carries the task's latest fence.
LEMMA RecordIsLatest ==
    ASSUME SchedulerInv, NEW lease \in Lease, NEW now \in Nows, RecordSideEffect(lease, now)
    PROVE  /\ lease[3] = scheduler_fences[lease[1]]
           /\ lease \in scheduler_leases
           /\ <<lease[1], scheduler_fences[lease[1]]>> \notin scheduler_effects
           /\ scheduler_effects' =
                 scheduler_effects \union {<<lease[1], scheduler_fences[lease[1]]>>}
  <1>1. lease[3] = scheduler_fences[lease[1]] /\ lease \in scheduler_leases
    BY DEF RecordSideEffect, Authorized, SchedulerInv, LeaseIsLatest
  <1> QED
    BY <1>1 DEF RecordSideEffect

\* Commits of a task come in the order of their fences, each from the holder
\* of the latest one.
THEOREM StaleNeverCommits == Spec => StaleWorkerNeverCommits
  <1>1. SchedulerInv /\ [Next]_vars => [CommitStep]_vars
    <2> SUFFICES ASSUME SchedulerInv, [Next]_vars, NEW t \in Task, NEW f \in 1..MaxFence,
                        <<t, f>> \in scheduler_effects' \ scheduler_effects
                 PROVE  /\ f = scheduler_fences[t]
                        /\ \A g \in 1..MaxFence : <<t, g>> \in scheduler_effects => g < f
      BY DEF CommitStep
    <2>1. TypeOK
      BY DEF SchedulerInv
    <2>2. \E lease \in Lease, now \in Nows : RecordSideEffect(lease, now)
      BY <2>1, StepCases DEF tables, Register, Unregister, Schedule, Heartbeat, Release
    <2>3. PICK lease \in Lease, now \in Nows : RecordSideEffect(lease, now)
      BY <2>2
    <2>4. <<t, f>> = <<lease[1], scheduler_fences[lease[1]]>>
      BY <2>3, RecordIsLatest
    <2>5. t = lease[1] /\ f = scheduler_fences[t]
      BY <2>4
    <2>6. ASSUME NEW g \in 1..MaxFence, <<t, g>> \in scheduler_effects PROVE g < f
      <3>1. g <= scheduler_fences[t]
        BY <2>6 DEF SchedulerInv, FencesBounded
      <3>2. g # f
        BY <2>6
      <3> QED
        BY <2>5, <3>1, <3>2, SchedulerAssumption
    <2> QED
      BY <2>5, <2>6
  <1> QED
    BY <1>1, SchedulerInvariant, PTL DEF Spec, StaleWorkerNeverCommits

----------------------------------------------------------------------------
(* Refinement                                                              *)

\* Every step of the scheduler is a step of FencedTasks or changes nothing
\* that FencedTasks sees.
LEMMA FencedStep == SchedulerInv /\ [Next]_vars => [Abstract!Next]_(Abstract!vars)
  <1> SUFFICES ASSUME SchedulerInv, [Next]_vars PROVE [Abstract!Next]_(Abstract!vars)
    OBVIOUS
  <1> DEFINE holder == [t \in Task |-> HolderOf(t)]
  <1>0. TypeOK /\ SchedulerInv'
    BY SchedulerInvStep DEF SchedulerInv
  <1>1. CASE UNCHANGED <<scheduler_fences, scheduler_leases, scheduler_effects>>
    BY <1>1 DEF Abstract!vars, HolderOf
  <1>2. ASSUME NEW t \in Task, NEW cap \in Capability, NEW w \in Worker,
               NEW now \in Nows, NEW zone \in Zone, Schedule(t, cap, w, now, zone)
        PROVE  Abstract!Next
    <2>1. NewLease(t, w, now, zone)[1] = t /\ NewLease(t, w, now, zone)[2] = w
      BY <1>0, NewLeaseType
    <2>2. scheduler_leases' = LeasesOfOthers(t) \union {NewLease(t, w, now, zone)}
      BY <1>2 DEF Schedule
    <2>3. ASSUME NEW u \in Task PROVE HolderOf(u)' = IF u = t THEN {w} ELSE HolderOf(u)
      BY <2>1, <2>2 DEF HolderOf, LeasesOfOthers
    <2>4. holder' = [holder EXCEPT ![t] = {w}]
      BY <2>3
    <2>5. /\ scheduler_fences' = [scheduler_fences EXCEPT ![t] = scheduler_fences[t] + 1]
          /\ UNCHANGED scheduler_effects
      BY <1>2 DEF Schedule, NextFence
    <2>6. Abstract!Assign(t, w)
      BY <2>4, <2>5 DEF Abstract!Assign
    <2> QED
      BY <2>6 DEF Abstract!Next
  <1>3. ASSUME NEW lease \in Lease, NEW now \in Nows, NEW zone \in Zone,
               Heartbeat(lease, now, zone)
        PROVE  UNCHANGED Abstract!vars
    <2>1. /\ Renewed(lease, now, zone)[1] = lease[1]
          /\ Renewed(lease, now, zone)[2] = lease[2]
      BY <1>0, RenewedType
    <2>2. /\ lease \in scheduler_leases
          /\ scheduler_leases' = LeasesOfOthers(lease[1]) \union {Renewed(lease, now, zone)}
      BY <1>3 DEF Heartbeat, Authorized
    <2>3. \A m \in scheduler_leases : m[1] = lease[1] => m = lease
      BY <2>2 DEF SchedulerInv, LeaseIsLatest
    <2>4. ASSUME NEW u \in Task PROVE HolderOf(u)' = HolderOf(u)
      <3>1. CASE u = lease[1]
        <4>1. HolderOf(u) = {lease[2]}
          BY <2>2, <2>3, <3>1 DEF HolderOf
        <4>2. HolderOf(u)' = {lease[2]}
          BY <2>1, <2>2, <3>1 DEF HolderOf, LeasesOfOthers
        <4> QED
          BY <4>1, <4>2
      <3>2. CASE u # lease[1]
        BY <2>1, <2>2, <3>2 DEF HolderOf, LeasesOfOthers
      <3> QED
        BY <3>1, <3>2
    <2> QED
      BY <1>3, <2>4 DEF Heartbeat, Abstract!vars
  <1>4. ASSUME NEW lease \in Lease, NEW now \in Nows, RecordSideEffect(lease, now)
        PROVE  Abstract!Next
    <2>1. lease[1] \in Task
      BY LeaseColumns
    <2>2. lease[2] \in HolderOf(lease[1])
      BY <1>4, RecordIsLatest DEF HolderOf
    <2>3. UNCHANGED <<scheduler_fences, holder>>
      BY <1>4 DEF RecordSideEffect, HolderOf
    <2>4. Abstract!Commit(lease[1])
      BY <1>4, <2>1, <2>2, <2>3, RecordIsLatest DEF Abstract!Commit
    <2> QED
      BY <2>1, <2>4 DEF Abstract!Next
  <1>5. ASSUME NEW lease \in Lease, Release(lease) PROVE Abstract!Next
    <2>1. lease[1] \in Task
      BY LeaseColumns
    <2>2. scheduler_leases' = LeasesOfOthers(lease[1])
      BY <1>5 DEF Release
    <2>3. ASSUME NEW u \in Task PROVE HolderOf(u)' = IF u = lease[1] THEN {} ELSE HolderOf(u)
      BY <2>2 DEF HolderOf, LeasesOfOthers
    <2>4. holder' = [holder EXCEPT ![lease[1]] = {}]
      BY <2>3
    <2>5. Abstract!Return(lease[1])
      BY <1>5, <2>4 DEF Release, Abstract!Return
    <2> QED
      BY <2>1, <2>5 DEF Abstract!Next
  <1>6. ASSUME NEW w \in Worker, NEW caps \in SUBSET Capability, NEW max \in 1..MaxQuota,
               Register(w, caps, max)
        PROVE  UNCHANGED <<scheduler_fences, scheduler_leases, scheduler_effects>>
    BY <1>6 DEF Register
  <1>7. ASSUME NEW w \in Worker, Unregister(w)
        PROVE  UNCHANGED <<scheduler_fences, scheduler_leases, scheduler_effects>>
    BY <1>7 DEF Unregister
  <1>8. UNCHANGED <<tables, capabilities, quota>> =>
           UNCHANGED <<scheduler_fences, scheduler_leases, scheduler_effects>>
    BY DEF tables
  <1> QED
    BY <1>0, <1>1, <1>2, <1>3, <1>4, <1>5, <1>6, <1>7, <1>8, StepCases

\* The durable scheduler implements the abstract fenced tasks.
THEOREM SchedulerImplementsFencedTasks == Spec => ImplementsFencedTasks
  <1>1. Init => Abstract!Init
    <2> SUFFICES ASSUME Init PROVE Abstract!Init
      OBVIOUS
    <2>1. \A t \in Task : HolderOf(t) = {}
      BY DEF Init, HolderOf
    <2> QED
      BY <2>1 DEF Init, Abstract!Init
  <1> QED
    BY <1>1, FencedStep, SchedulerInvariant, PTL DEF Spec, ImplementsFencedTasks, Abstract!Spec

----------------------------------------------------------------------------
(* Quotas                                                                  *)

\* The lease rows can be counted, and no worker runs more than its quota.
QuotaInv == IsFiniteSet(scheduler_leases) /\ WorkerQuota

\* Callers whose clock is the true one and who write the same offset count
\* exactly the leases that run.
LEMMA LoadIsExact ==
    ASSUME TypeOK, MaxLag = 0, \A y, z \in Zone : y = z,
           NEW w \in Worker, NEW now \in Nows, NEW zone \in Zone
    PROVE  now = clock /\ Load(w, now, zone) = Cardinality(Running(w))
  <1>1. now = clock /\ clock \in Nat
    BY SchedulerAssumption DEF Nows, Time, TypeOK
  <1>2. ASSUME NEW l \in scheduler_leases
        PROVE  l[4] + l[5] > now + zone <=> Active(l, clock)
    <2>1. l \in Lease
      BY DEF TypeOK
    <2>2. l[4] \in Nat /\ l[5] = zone /\ zone \in Nat
      BY <2>1, LeaseColumns, SchedulerAssumption
    <2> QED
      BY <1>1, <2>2 DEF Active
  <1>3. {l \in scheduler_leases : l[2] = w /\ l[4] + l[5] > now + zone} = Running(w)
    BY <1>2 DEF Running
  <1> QED
    BY <1>1, <1>3 DEF Load

\* Quotas survive a step that replaces the row of a task by one of worker w,
\* who had room for it.
LEMMA RowReplaced ==
    ASSUME TypeOK, QuotaInv, NEW t, NEW w \in Worker, NEW new,
           new[2] = w,
           scheduler_leases' = LeasesOfOthers(t) \union {new},
           UNCHANGED <<quota, clock>>,
           \/ Cardinality(Running(w)) < quota[w]
           \/ \E old \in Running(w) : old[1] = t
    PROVE  QuotaInv'
  <1>1. LeasesOfOthers(t) \in SUBSET scheduler_leases
    BY DEF LeasesOfOthers
  <1>2. IsFiniteSet(scheduler_leases')
    BY <1>1, FS_Subset, FS_AddElement DEF QuotaInv
  <1>3. ASSUME NEW v \in Worker
        PROVE  Cardinality(Running(v))' <= quota'[v]
    <2> DEFINE Rest == {l \in Running(v) : l[1] # t}
    <2>1. IsFiniteSet(Running(v)) /\ Cardinality(Running(v)) \in Nat
      BY FS_Subset, FS_CardinalityType DEF QuotaInv, Running
    <2>2. IsFiniteSet(Rest) /\ Cardinality(Rest) \in Nat
          /\ Cardinality(Rest) <= Cardinality(Running(v))
      BY <2>1, FS_Subset, FS_CardinalityType
    <2>3. Cardinality(Running(v)) <= quota[v] /\ quota[v] \in Nat /\ quota' = quota
      BY SchedulerAssumption DEF QuotaInv, WorkerQuota, TypeOK
    <2>4. CASE v # w
      <3>1. Running(v)' = Rest
        BY <2>4 DEF Running, LeasesOfOthers, Active
      <3> QED
        BY <2>1, <2>2, <2>3, <3>1
    <2>5. CASE v = w
      <3>1. Running(v)' \in SUBSET (Rest \union {new})
        BY DEF Running, LeasesOfOthers, Active
      <3>2. IsFiniteSet(Rest \union {new}) /\ Cardinality(Rest \union {new}) <= Cardinality(Rest) + 1
        <4> HIDE DEF Rest
        <4>1. /\ IsFiniteSet(Rest \union {new})
              /\ Cardinality(Rest \union {new}) =
                    IF new \in Rest THEN Cardinality(Rest) ELSE Cardinality(Rest) + 1
          BY <2>2, FS_AddElement
        <4> QED
          BY <2>2, <4>1
      <3>3. /\ Cardinality(Running(v)') <= Cardinality(Rest \union {new})
            /\ Cardinality(Running(v)') \in Nat /\ Cardinality(Rest \union {new}) \in Nat
        BY <3>1, <3>2, FS_Subset, FS_CardinalityType
      <3>4. Cardinality(Rest) < quota[w]
        <4>1. CASE Cardinality(Running(w)) < quota[w]
          BY <2>1, <2>2, <2>3, <2>5, <4>1
        <4>2. CASE \E old \in Running(w) : old[1] = t
          <5>1. PICK old \in Running(w) : old[1] = t
            BY <4>2
          <5>2. Rest \in SUBSET (Running(v) \ {old})
            BY <5>1
          <5>3. IsFiniteSet(Running(v) \ {old})
                /\ Cardinality(Running(v) \ {old}) = Cardinality(Running(v)) - 1
            BY <2>1, <2>5, <5>1, FS_RemoveElement
          <5>4. Cardinality(Rest) <= Cardinality(Running(v) \ {old})
            BY <5>2, <5>3, FS_Subset
          <5> QED
            BY <2>1, <2>2, <2>3, <2>5, <5>3, <5>4
        <4> QED
          BY <4>1, <4>2
      <3> QED
        BY <2>2, <2>3, <2>5, <3>2, <3>3, <3>4
    <2> QED
      BY <2>4, <2>5
  <1> QED
    BY <1>2, <1>3 DEF QuotaInv, WorkerQuota

\* Quotas survive a step after which fewer leases run.
LEMMA FewerRun ==
    ASSUME TypeOK, QuotaInv, scheduler_leases' \subseteq scheduler_leases,
           clock' \in Nat, clock <= clock',
           \A w \in Worker : quota'[w] \in Nat /\ (quota[w] <= quota'[w] \/ Running(w) = {})
    PROVE  QuotaInv'
  <1>1. IsFiniteSet(scheduler_leases')
    BY FS_Subset DEF QuotaInv
  <1>2. ASSUME NEW w \in Worker
        PROVE  Cardinality(Running(w))' <= quota'[w]
    <2>1. IsFiniteSet(Running(w)) /\ Cardinality(Running(w)) \in Nat
      BY FS_Subset, FS_CardinalityType DEF QuotaInv, Running
    <2>2. Running(w)' \in SUBSET Running(w)
      <3> SUFFICES ASSUME NEW l \in scheduler_leases', l[2] = w, l[4] > clock'
                   PROVE  l[4] > clock
        BY DEF Running, Active
      <3>1. l \in Lease /\ clock \in Nat
        BY SchedulerAssumption DEF TypeOK, Time
      <3> QED
        BY <3>1, LeaseColumns
    <2>3. Cardinality(Running(w)') <= Cardinality(Running(w)) /\ Cardinality(Running(w)') \in Nat
      BY <2>1, <2>2, FS_Subset, FS_CardinalityType
    <2>4. Cardinality(Running(w)) <= quota[w] /\ quota[w] \in Nat
      BY SchedulerAssumption DEF QuotaInv, WorkerQuota, TypeOK
    <2>5. CASE quota[w] <= quota'[w]
      BY <2>1, <2>3, <2>4, <2>5
    <2>6. CASE Running(w) = {}
      BY <2>1, <2>3, <2>6, FS_EmptySet
    <2> QED
      BY <2>5, <2>6
  <1> QED
    BY <1>1, <1>2 DEF QuotaInv, WorkerQuota

\* Every step of the scheduler keeps the quotas.
LEMMA QuotaStep ==
    ASSUME MaxLag = 0, \A y, z \in Zone : y = z, SchedulerInv, QuotaInv, [Next]_vars
    PROVE  QuotaInv'
  <1> USE SchedulerAssumption
  <1>0. TypeOK /\ clock \in Nat
    BY DEF SchedulerInv, TypeOK, Time
  <1>1. CASE UNCHANGED vars
    BY <1>0, <1>1, FewerRun DEF vars, TypeOK
  <1>2. CASE Tick
    BY <1>0, <1>2, FewerRun DEF Tick, TypeOK
  <1>3. ASSUME NEW w \in Worker, NEW caps \in SUBSET Capability, NEW max \in 1..MaxQuota,
               Register(w, caps, max)
        PROVE  QuotaInv'
    <2>1. \A v \in Worker : quota'[v] \in Nat /\ quota[v] <= quota'[v]
      BY <1>0, <1>3 DEF Register, TypeOK
    <2> QED
      BY <1>0, <1>3, <2>1, FewerRun DEF Register
  <1>4. ASSUME NEW w \in Worker, Unregister(w)
        PROVE  QuotaInv'
    <2>1. \A v \in Worker : quota'[v] \in Nat /\ (quota[v] <= quota'[v] \/ Running(v) = {})
      BY <1>0, <1>4 DEF Unregister, Unleased, TypeOK, Running
    <2> QED
      BY <1>0, <1>4, <2>1, FewerRun DEF Unregister
  <1>5. ASSUME NEW t \in Task, NEW cap \in Capability, NEW w \in Worker, NEW now \in Nows,
               NEW zone \in Zone, Schedule(t, cap, w, now, zone)
        PROVE  QuotaInv'
    <2>1. Cardinality(Running(w)) < quota[w]
      BY <1>0, <1>5, LoadIsExact DEF Schedule, Selected, Eligible
    <2>2. NewLease(t, w, now, zone)[2] = w
      BY <1>0, NewLeaseType
    <2> QED
      BY <1>0, <1>5, <2>1, <2>2, RowReplaced DEF Schedule
  <1>6. ASSUME NEW lease \in issued, NEW now \in Nows, NEW zone \in Zone, Heartbeat(lease, now, zone)
        PROVE  QuotaInv'
    <2>1. lease \in Lease
      BY <1>0 DEF TypeOK
    <2>2. lease[2] \in Worker /\ Renewed(lease, now, zone)[2] = lease[2]
      BY <1>0, <2>1, LeaseColumns, RenewedType
    <2>3. now = clock
      BY <1>0, <2>2, LoadIsExact
    <2>4. lease \in Running(lease[2])
      BY <1>6, <2>3 DEF Heartbeat, Authorized, Running
    <2> QED
      BY <1>0, <1>6, <2>2, <2>4, RowReplaced DEF Heartbeat
  <1>7. ASSUME NEW lease \in issued, NEW now \in Nows, RecordSideEffect(lease, now)
        PROVE  QuotaInv'
    BY <1>0, <1>7, FewerRun DEF RecordSideEffect, TypeOK
  <1>8. ASSUME NEW lease \in issued, Release(lease)
        PROVE  QuotaInv'
    BY <1>0, <1>8, FewerRun DEF Release, LeasesOfOthers, TypeOK
  <1> QED
    BY <1>1, <1>2, <1>3, <1>4, <1>5, <1>6, <1>7, <1>8 DEF Next, WorkerStep, LeaseStep

\* No worker ever runs more leases than its quota, provided the callers' clocks
\* are the true one and they write their times with one offset: the quota query
\* compares text, and a heartbeat sent late would revive a lease whose place
\* was given away.
THEOREM QuotasHold ==
    ASSUME MaxLag = 0, \A y, z \in Zone : y = z
    PROVE  Spec => []WorkerQuota
  <1>1. Init => QuotaInv
    <2> SUFFICES ASSUME Init PROVE QuotaInv
      OBVIOUS
    <2>1. IsFiniteSet(scheduler_leases) /\ Cardinality({}) = 0
      BY FS_EmptySet DEF Init
    <2>2. \A w \in Worker : Running(w) = {} /\ quota[w] = 0
      BY DEF Init, Running
    <2> QED
      BY <2>1, <2>2 DEF QuotaInv, WorkerQuota
  <1>2. SchedulerInv /\ QuotaInv /\ [Next]_vars => QuotaInv'
    BY QuotaStep
  <1>3. QuotaInv => WorkerQuota
    BY DEF QuotaInv
  <1> QED
    BY <1>1, <1>2, <1>3, SchedulerInvariant, PTL DEF Spec
=============================================================================
