---------------------------- MODULE StoresProofs ----------------------------
(***************************************************************************)
(* Proofs about the stores that share no state with one another: the live  *)
(* event log and its projections, the evidence store, publications,        *)
(* accounts and e-mail challenges, for any threads, clients, records,      *)
(* packages, identities and faults.                                        *)
(***************************************************************************)
EXTENDS LiveState, EvidenceStore, Publications, Accounts, EmailChallenges, FiniteSetTheorems,
        WellFoundedInduction, TLAPS

----------------------------------------------------------------------------
(* The live event log and its projections                                  *)

\* A non-empty set of naturals has a least element.
LEMMA LeastIn ==
    ASSUME NEW S \in SUBSET Nat, S # {}
    PROVE  \E m \in S : \A k \in S : m <= k
<1>1. IsWellFoundedOn(OpToRel(<, Nat), Nat)
  BY NatLessThanWellFounded
<1>2. PICK m \in S : \A k \in S : ~(<<k, m>> \in OpToRel(<, Nat))
  BY <1>1, WFMin
<1>3. ASSUME NEW k \in S PROVE ~(k < m)
  <2>1. <<k, m>> \in Nat \X Nat
    OBVIOUS
  <2>2. <<k, m>>[1] = k /\ <<k, m>>[2] = m
    OBVIOUS
  <2>3. k < m => <<k, m>> \in OpToRel(<, Nat)
    BY <2>1, <2>2, Zenon DEF OpToRel
  <2> QED  BY <1>2, <2>3, Zenon
<1> QED  BY <1>3

\* What Max chooses is the greatest element.
LEMMA MaxIs ==
    ASSUME NEW S \in SUBSET Nat, NEW m \in S, \A k \in S : k <= m
    PROVE  Max(S) = m
<1>1. m \in Nat /\ \A k \in S : m >= k
  OBVIOUS
<1>2. Max(S) \in S /\ \A k \in S : Max(S) >= k
  BY <1>1 DEF Max
<1>3. Max(S) \in Nat /\ Max(S) <= m /\ Max(S) >= m
  BY <1>2
<1> QED  BY <1>1, <1>3

\* A bounded set of naturals has one.
LEMMA MaxExists ==
    ASSUME NEW S \in SUBSET Nat, S # {}, NEW n \in Nat, \A k \in S : k <= n
    PROVE  Max(S) \in S /\ \A k \in S : k <= Max(S)
<1> DEFINE T == {n - k : k \in S}
<1>1. T \in SUBSET Nat /\ T # {}
  <2>1. \A k \in S : n - k \in Nat
    OBVIOUS
  <2> QED  BY <2>1
<1>2. PICK t \in T : \A k \in T : t <= k
  BY <1>1, LeastIn
<1>3. PICK m \in S : t = n - m
  BY <1>2
<1>4. \A k \in S : k <= m
  <2> SUFFICES ASSUME NEW k \in S PROVE k <= m
    OBVIOUS
  <2>1. n - k \in T
    OBVIOUS
  <2>2. n - m <= n - k
    BY <1>2, <1>3, <2>1
  <2> QED  BY <2>2
<1>5. Max(S) = m
  BY <1>4, MaxIs
<1> QED  BY <1>4, <1>5

\* The positions of an aggregate's events.
Positions(a) == {i \in 1..Len(log) : log[i][1] = a}

\* The inductive invariant of the log: what a publisher has read may be old
\* but is never ahead, every version up to the row's is in the log, and the
\* versions of an aggregate rise with their positions.
ReadsAreNotAhead == \A p \in Publisher : \A e \in publishing[p] : e[2] <= row[e[1]][1] + 1

EveryVersionIsThere ==
    \A a \in Aggregate : \A v \in 1..row[a][1] : \E i \in 1..Len(log) : log[i] = <<a, v>>

VersionsRise ==
    \A i, j \in 1..Len(log) : i < j /\ log[i][1] = log[j][1] => log[i][2] < log[j][2]

RowIsAhead == \A i \in 1..Len(log) : log[i][2] <= row[log[i][1]][1]

LogInv ==
    /\ log \in Seq(Aggregate \X (1..MaxEvents)) /\ Len(log) <= MaxEvents
    /\ row \in [Aggregate -> Nat \X Nat]
    /\ publishing \in [Publisher -> SUBSET (Aggregate \X (1..MaxEvents + 1))]
    /\ VersionsAreDense
    /\ ReadsAreNotAhead /\ EveryVersionIsThere /\ VersionsRise /\ RowIsAhead

\* The inductive invariant of the projections.
ViewsInv ==
    /\ last \in [Projection -> Nat] /\ \A r \in Projection : last[r] <= Len(log)
    /\ states \in [Projection -> [Aggregate -> 0..MaxEvents]]
    /\ restored \subseteq Projection
    /\ PrefixUntilRestored

\* The log's events.
LEMMA LogParts ==
    ASSUME LogInv
    PROVE  /\ Len(log) \in Nat
           /\ \A i \in 1..Len(log) : /\ log[i][1] \in Aggregate /\ log[i][2] \in 1..MaxEvents
                                     /\ log[i] = <<log[i][1], log[i][2]>>
BY DEF LogInv

\* The order of an aggregate's events is that of their versions.
LEMMA Rises ==
    ASSUME LogInv, NEW i \in 1..Len(log), NEW j \in 1..Len(log), log[i][1] = log[j][1]
    PROVE  i < j <=> log[i][2] < log[j][2]
<1>1. i \in Int /\ j \in Int /\ log[i][2] \in Int /\ log[j][2] \in Int
  BY LogParts, LiveAssumption
<1>2. (i < j => log[i][2] < log[j][2]) /\ (j < i => log[j][2] < log[i][2])
  BY DEF LogInv, VersionsRise
<1> QED  BY <1>1, <1>2

\* A row is ahead of the events.
LEMMA Ahead ==
    ASSUME LogInv, NEW i \in 1..Len(log)
    PROVE  row[log[i][1]][1] \in Nat /\ log[i][2] <= row[log[i][1]][1]
<1>1. log[i][1] \in Aggregate
  BY LogParts
<1>2. \A a \in Aggregate : row[a][1] \in Nat
  BY DEF LogInv
<1>3. RowIsAhead
  BY DEF LogInv
<1> QED  BY <1>1, <1>2, <1>3 DEF RowIsAhead

\* Steps that write nothing to the log.
LEMMA LogStays ==
    ASSUME LogInv, log' = log, row' = row,
           publishing' \in [Publisher -> SUBSET (Aggregate \X (1..MaxEvents + 1))], ReadsAreNotAhead'
    PROVE  LogInv'
<1>1. VersionsAreDense'
  <2>1. VersionsAreDense
    BY DEF LogInv
  <2> QED  BY <2>1, Zenon DEF VersionsAreDense
<1>2. EveryVersionIsThere' /\ VersionsRise' /\ RowIsAhead'
  BY DEF LogInv, EveryVersionIsThere, VersionsRise, RowIsAhead
<1> QED  BY <1>1, <1>2 DEF LogInv

\* A step that leaves log and projections alone keeps the projections right.
LEMMA ViewsStay ==
    ASSUME ViewsInv, log' = log, last' = last, states' = states, restored' = restored
    PROVE  ViewsInv'
<1>1. PrefixUntilRestored
  BY DEF ViewsInv
<1>2. ASSUME NEW r \in Projection \ restored', NEW a \in Aggregate
      PROVE  states'[r][a] = LatestIn(a, 1, last'[r])
  BY <1>1 DEF PrefixUntilRestored
<1>3. PrefixUntilRestored'
  BY <1>2 DEF PrefixUntilRestored, LatestIn
<1> QED  BY <1>3 DEF ViewsInv

\* The positions of an aggregate are finitely many.
LEMMA PositionsCount ==
    ASSUME LogInv, NEW a \in Aggregate
    PROVE  IsFiniteSet(Positions(a)) /\ Cardinality(Positions(a)) \in 0..Len(log)
<1>1. IsFiniteSet(1..Len(log)) /\ Cardinality(1..Len(log)) = Len(log) /\ Len(log) \in Nat
  <2>1. Len(log) \in Nat
    BY LogParts
  <2> QED  BY <2>1, FS_Interval
<1>2. Positions(a) \in SUBSET (1..Len(log))
  BY DEF Positions
<1>3. IsFiniteSet(Positions(a)) /\ Cardinality(Positions(a)) <= Len(log)
  BY <1>1, <1>2, FS_Subset
<1>4. Cardinality(Positions(a)) \in Nat
  BY <1>3, FS_CardinalityType
<1> QED  BY <1>1, <1>3, <1>4

\* The row of an aggregate.
LEMMA RowIs ==
    ASSUME LogInv, NEW a \in Aggregate
    PROVE  /\ row[a] = <<Cardinality(Positions(a)), Max({0} \union Positions(a))>>
           /\ row[a][1] = Cardinality(Positions(a)) /\ row[a][1] \in 0..MaxEvents
           /\ row[a][2] \in 0..Len(log)
<1>1. row[a] = <<Cardinality(Positions(a)), Max({0} \union Positions(a))>>
  BY DEF LogInv, VersionsAreDense, Positions
<1>2. Cardinality(Positions(a)) \in 0..Len(log) /\ Len(log) \in Nat /\ Len(log) <= MaxEvents
  BY PositionsCount, LogParts DEF LogInv
<1>3. Max({0} \union Positions(a)) \in {0} \union Positions(a)
  <2>1. {0} \union Positions(a) \in SUBSET Nat /\ \A k \in {0} \union Positions(a) : k <= Len(log)
    BY <1>2 DEF Positions
  <2> QED  BY <1>2, <2>1, MaxExists
<1>4. Max({0} \union Positions(a)) \in 0..Len(log)
  BY <1>2, <1>3 DEF Positions
<1> QED  BY <1>1, <1>2, <1>4, LiveAssumption

\* What LatestIn finds: the version of the last event, if there is one.
LEMMA LatestIs ==
    ASSUME LogInv, NEW a \in Aggregate, NEW lo \in Nat, 1 <= lo, NEW hi \in Nat, hi <= Len(log),
           NEW j \in lo..hi, log[j][1] = a, \A k \in lo..hi : log[k][1] = a => k <= j
    PROVE  LatestIn(a, lo, hi) = log[j][2]
<1> DEFINE S == {0} \union {log[i][2] : i \in {k \in lo..hi : log[k][1] = a}}
<1>1. \A k \in lo..hi : k \in 1..Len(log)
  BY LogParts
<1>2. \A k \in lo..hi : log[k][2] \in Nat
  BY <1>1, LogParts, LiveAssumption
<1>3. S \in SUBSET Nat /\ log[j][2] \in S
  BY <1>2
<1>4. ASSUME NEW k \in lo..hi, log[k][1] = a PROVE log[k][2] <= log[j][2]
  <2>1. k = j \/ log[k][2] < log[j][2]
    <3>1. k \in 1..Len(log) /\ j \in 1..Len(log) /\ k <= j /\ log[k][1] = log[j][1]
      BY <1>1, <1>4
    <3>2. k < j <=> log[k][2] < log[j][2]
      BY <3>1, Rises
    <3> QED  BY <3>1, <3>2
  <2> QED  BY <1>2, <2>1
<1>5. \A v \in S : v <= log[j][2]
  BY <1>2, <1>4
<1> QED  BY <1>3, <1>5, MaxIs DEF LatestIn

\* An aggregate without an event in a range has no latest one there.
LEMMA LatestIsNone ==
    ASSUME NEW a, NEW lo, NEW hi, \A k \in lo..hi : log[k][1] # a
    PROVE  LatestIn(a, lo, hi) = 0
<1>1. {0} \union {log[i][2] : i \in {k \in lo..hi : log[k][1] = a}} = {0}
  OBVIOUS
<1>2. Max({0}) = 0
  BY MaxIs
<1> QED  BY <1>1, <1>2 DEF LatestIn

\* An aggregate that has events in a stretch of the log has a first and a last.
LEMMA FirstAndLast ==
    ASSUME LogInv, NEW a \in Aggregate, NEW lo \in Nat, 1 <= lo, NEW hi \in Nat, hi <= Len(log),
           NEW n \in lo..hi, log[n][1] = a
    PROVE  /\ \E j \in lo..hi : log[j][1] = a /\ \A k \in lo..hi : log[k][1] = a => k <= j
           /\ \E j \in lo..hi : log[j][1] = a /\ \A k \in lo..hi : log[k][1] = a => j <= k
<1> DEFINE S == {k \in lo..hi : log[k][1] = a}
<1>1. S \in SUBSET Nat /\ S # {} /\ \A k \in S : k <= hi
  OBVIOUS
<1>2. PICK top \in S : \A k \in S : k <= top
  BY <1>1, MaxExists
<1>3. PICK m \in S : \A k \in S : m <= k
  BY <1>1, LeastIn
<1>4. \E j \in lo..hi : log[j][1] = a /\ \A k \in lo..hi : log[k][1] = a => k <= j
  BY <1>2
<1>5. \E j \in lo..hi : log[j][1] = a /\ \A k \in lo..hi : log[k][1] = a => j <= k
  BY <1>3
<1> QED  BY <1>4, <1>5

\* publish reads.
LEMMA PublishReadKeeps ==
    ASSUME LogInv, ViewsInv, NEW p \in Publisher, NEW a \in Aggregate, PublishRead(p, a)
    PROVE  LogInv' /\ ViewsInv'
<1>1. UNCHANGED <<log, row, last, states, restored>>
  BY DEF PublishRead
<1>2. row[a][1] \in 0..MaxEvents
  BY RowIs
<1>3. publishing' = [publishing EXCEPT ![p] = {<<a, row[a][1] + 1>>}]
  BY DEF PublishRead
<1>4. publishing' \in [Publisher -> SUBSET (Aggregate \X (1..MaxEvents + 1))]
  BY <1>2, <1>3, LiveAssumption DEF LogInv
<1>5. ReadsAreNotAhead'
  BY <1>1, <1>2, <1>3 DEF LogInv, ReadsAreNotAhead
<1> QED  BY <1>1, <1>4, <1>5, LogStays, ViewsStay

\* publish writes: the version it read is free only if it is still the next.
LEMMA PublishWriteKeeps ==
    ASSUME LogInv, ViewsInv, NEW p \in Publisher, PublishWrite(p)
    PROVE  LogInv' /\ ViewsInv'
<1>1. publishing' = [publishing EXCEPT ![p] = {}] /\ UNCHANGED <<last, states, restored>>
  BY DEF PublishWrite
<1>2. /\ publishing' \in [Publisher -> SUBSET (Aggregate \X (1..MaxEvents + 1))]
      /\ \A q \in Publisher : publishing'[q] \subseteq publishing[q]
  BY <1>1 DEF LogInv
<1>3. CASE UNCHANGED <<log, row>>
  <2>1. ReadsAreNotAhead'
    BY <1>2, <1>3 DEF LogInv, ReadsAreNotAhead
  <2> QED  BY <1>1, <1>2, <1>3, <2>1, LogStays, ViewsStay
<1>4. ASSUME NEW e \in publishing[p], Free(e), Len(log) < MaxEvents,
             log' = Append(log, e), row' = [row EXCEPT ![e[1]] = <<e[2], Len(log) + 1>>]
      PROVE  LogInv' /\ ViewsInv'
  <2> DEFINE a == e[1]  n == Len(log) + 1
  <2>1. a \in Aggregate /\ e[2] \in 1..MaxEvents + 1 /\ e = <<a, e[2]>>
    BY DEF LogInv
  <2>2. /\ row[a][1] \in 0..MaxEvents /\ row[a][1] = Cardinality(Positions(a))
        /\ IsFiniteSet(Positions(a)) /\ Cardinality(Positions(a)) \in 0..Len(log)
    BY <2>1, RowIs, PositionsCount
  <2>3. Len(log) \in Nat /\ n \in Nat /\ Len(log) <= MaxEvents /\ MaxEvents \in Nat
    BY LogParts, LiveAssumption DEF LogInv
  <2>4. e[2] = row[a][1] + 1
    <3>1. e[2] <= row[a][1] + 1
      BY DEF LogInv, ReadsAreNotAhead
    <3>2. e[2] \notin 1..row[a][1]
      BY <1>4, <2>1 DEF LogInv, EveryVersionIsThere, Free
    <3> QED  BY <2>1, <2>2, <2>3, <3>1, <3>2
  <2>5. e[2] \in 1..MaxEvents
    BY <1>4, <2>2, <2>3, <2>4
  <2>6. /\ log' \in Seq(Aggregate \X (1..MaxEvents)) /\ Len(log') = n /\ Len(log') <= MaxEvents
        /\ log'[n] = e /\ \A i \in 1..Len(log) : log'[i] = log[i]
    BY <1>4, <2>1, <2>3, <2>5 DEF LogInv
  <2>7. /\ row' \in [Aggregate -> Nat \X Nat] /\ row'[a] = <<e[2], n>>
        /\ \A b \in Aggregate \ {a} : row'[b] = row[b]
        /\ \A b \in Aggregate : row'[b][1] \in Nat /\ row[b][1] <= row'[b][1]
    <3>1. row' \in [Aggregate -> Nat \X Nat] /\ row'[a] = <<e[2], n>>
          /\ \A b \in Aggregate \ {a} : row'[b] = row[b]
      BY <1>4, <2>1, <2>3, <2>5 DEF LogInv
    <3>2. \A b \in Aggregate : row[b][1] \in Nat
      BY DEF LogInv
    <3> QED  BY <2>1, <2>3, <2>4, <2>5, <3>1, <3>2
  <2>8. ReadsAreNotAhead'
    <3> SUFFICES ASSUME NEW q \in Publisher, NEW f \in publishing'[q] PROVE f[2] <= row'[f[1]][1] + 1
      BY DEF ReadsAreNotAhead
    <3>1. f \in publishing[q] /\ f[1] \in Aggregate /\ f[2] \in Nat /\ f[2] <= row[f[1]][1] + 1
      BY <1>2, <2>3 DEF LogInv, ReadsAreNotAhead
    <3>2. row[f[1]][1] \in Nat /\ row'[f[1]][1] \in Nat /\ row[f[1]][1] <= row'[f[1]][1]
      BY <2>7, <3>1 DEF LogInv
    <3> QED  BY <3>1, <3>2
  <2>9. EveryVersionIsThere'
    <3> SUFFICES ASSUME NEW b \in Aggregate, NEW v \in 1..row'[b][1]
                 PROVE  \E i \in 1..Len(log') : log'[i] = <<b, v>>
      BY DEF EveryVersionIsThere
    <3>1. CASE b = a /\ v = e[2]
      <4>1. n \in 1..Len(log') /\ log'[n] = <<b, v>>
        BY <2>1, <2>3, <2>6, <3>1
      <4> QED  BY <4>1
    <3>2. CASE ~(b = a /\ v = e[2])
      <4>1. v \in 1..row[b][1]
        BY <2>2, <2>4, <2>7, <3>2
      <4>2. PICK i \in 1..Len(log) : log[i] = <<b, v>>
        BY <4>1 DEF LogInv, EveryVersionIsThere
      <4>3. i \in 1..Len(log') /\ log'[i] = <<b, v>>
        BY <2>3, <2>6, <4>2
      <4> QED  BY <4>3
    <3> QED  BY <3>1, <3>2
  <2>10. VersionsRise'
    <3> SUFFICES ASSUME NEW i \in 1..n, NEW j \in 1..n, i < j, log'[i][1] = log'[j][1]
                 PROVE  log'[i][2] < log'[j][2]
      BY <2>6 DEF VersionsRise
    <3>1. i \in 1..Len(log) /\ log'[i] = log[i]
      BY <2>3, <2>6
    <3>2. CASE j = n
      <4>1. log[i][1] = a /\ log[i][2] <= row[a][1] /\ log[i][2] \in Nat
        <5>1. log[i][1] = a
          BY <2>6, <3>1, <3>2
        <5>2. log[i][2] <= row[log[i][1]][1] /\ log[i][2] \in Nat
          BY <2>3, <3>1, Ahead, LogParts
        <5> QED  BY <5>1, <5>2
      <4> QED  BY <2>2, <2>4, <2>6, <3>1, <3>2, <4>1
    <3>3. CASE j \in 1..Len(log)
      BY <2>6, <3>1, <3>3 DEF LogInv, VersionsRise
    <3> QED  BY <2>3, <3>2, <3>3
  <2>11. RowIsAhead'
    <3> SUFFICES ASSUME NEW i \in 1..n PROVE log'[i][2] <= row'[log'[i][1]][1]
      BY <2>6 DEF RowIsAhead
    <3>1. CASE i = n
      BY <2>5, <2>6, <2>7, <3>1
    <3>2. CASE i \in 1..Len(log)
      <4>1. log'[i] = log[i] /\ log[i][1] \in Aggregate /\ log[i][2] \in Nat /\ log[i][2] <= row[log[i][1]][1]
        BY <2>3, <2>6, <3>2, LogParts, Ahead
      <4>2. row[log[i][1]][1] \in Nat /\ row'[log[i][1]][1] \in Nat /\ row[log[i][1]][1] <= row'[log[i][1]][1]
        BY <2>7, <4>1 DEF LogInv
      <4> QED  BY <4>1, <4>2
    <3> QED  BY <2>3, <3>1, <3>2
  <2>12. /\ Positions(a)' = Positions(a) \union {n} /\ n \notin Positions(a)
         /\ \A b \in Aggregate \ {a} : Positions(b)' = Positions(b)
    BY <2>1, <2>3, <2>6 DEF Positions
  <2>13. Cardinality(Positions(a)') = e[2]
    <3>1. Cardinality(Positions(a) \union {n}) = Cardinality(Positions(a)) + 1
      BY <2>2, <2>12, FS_AddElement
    <3> QED  BY <2>2, <2>4, <2>12, <3>1
  <2>14. VersionsAreDense'
    <3> SUFFICES ASSUME NEW b \in Aggregate
                 PROVE  /\ \A i \in Positions(b)' :
                              log'[i][2] = Cardinality({j \in Positions(b)' : j <= i})
                        /\ row'[b] = <<Cardinality(Positions(b)'), Max({0} \union Positions(b)')>>
      BY DEF VersionsAreDense, Positions
    <3>1. \A i \in Positions(b) : log[i][2] = Cardinality({j \in Positions(b) : j <= i})
      BY DEF LogInv, VersionsAreDense, Positions
    <3>2. Positions(b) \subseteq 1..Len(log)
      BY DEF Positions
    <3>3. CASE b # a
      <4>1. Positions(b)' = Positions(b) /\ row'[b] = row[b]
        BY <2>7, <2>12, <3>3
      <4> QED  BY <2>6, <3>1, <3>2, <4>1, RowIs
    <3>4. CASE b = a
      <4>1. ASSUME NEW i \in Positions(a) PROVE log'[i][2] = Cardinality({j \in Positions(a)' : j <= i})
        <5>1. {j \in Positions(a)' : j <= i} = {j \in Positions(a) : j <= i}
          BY <2>3, <2>12, <3>2, <3>4, <4>1
        <5> QED  BY <2>6, <3>1, <3>2, <3>4, <4>1, <5>1
      <4>2. log'[n][2] = Cardinality({j \in Positions(a)' : j <= n})
        <5>1. {j \in Positions(a)' : j <= n} = Positions(a)'
          BY <2>3, <2>12, <3>2, <3>4
        <5> QED  BY <2>6, <2>13, <5>1
      <4>3. Max({0} \union Positions(a)') = n
        <5>1. /\ {0} \union Positions(a)' \in SUBSET Nat /\ n \in {0} \union Positions(a)'
              /\ \A k \in {0} \union Positions(a)' : k <= n
          BY <2>3, <2>12, <3>2, <3>4
        <5> QED  BY <5>1, MaxIs
      <4> QED  BY <2>7, <2>12, <2>13, <3>4, <4>1, <4>2, <4>3
    <3> QED  BY <3>3, <3>4
  <2>15. LogInv'
    BY <1>2, <2>6, <2>7, <2>8, <2>9, <2>10, <2>11, <2>14 DEF LogInv
  <2>16. ASSUME NEW r \in Projection, NEW b \in Aggregate
         PROVE  LatestIn(b, 1, last[r])' = LatestIn(b, 1, last[r])
    <3>1. \A i \in 1..last[r] : log'[i] = log[i]
      BY <2>3, <2>6 DEF ViewsInv
    <3>2. {log'[i][2] : i \in {j \in 1..last[r] : log'[j][1] = b}}
            = {log[i][2] : i \in {j \in 1..last[r] : log[j][1] = b}}
      BY <3>1
    <3> QED  BY <1>1, <3>2 DEF LatestIn
  <2>17. PrefixUntilRestored'
    BY <1>1, <2>16 DEF ViewsInv, PrefixUntilRestored
  <2>18. \A r \in Projection : last'[r] <= Len(log')
    BY <1>1, <2>3, <2>6 DEF ViewsInv
  <2> QED  BY <1>1, <2>15, <2>17, <2>18 DEF ViewsInv
<1> QED  BY <1>3, <1>4 DEF PublishWrite

\* How far reconcile gets: it stays within the batch, and everything it
\* applied was in order.
LEMMA ReachesIs ==
    ASSUME LogInv, ViewsInv, NEW r \in Projection, NEW from \in 1..Len(log), NEW to \in 1..Len(log)
    PROVE  /\ Reaches(r, from, to) \in last[r]..Len(log)
           /\ Reaches(r, from, to) # last[r] =>
                 /\ from <= last[r] + 1
                 /\ \A i \in last[r] + 1..Reaches(r, from, to) : InOrder(r, i)
<1>1. last[r] \in Nat /\ last[r] <= Len(log) /\ Len(log) \in Nat
  BY LogParts DEF ViewsInv
<1>2. CASE ~NoGap(r, from)
  BY <1>1, <1>2 DEF Reaches
<1>3. CASE NoGap(r, from)
  <2> DEFINE S == {m \in last[r] + 1..to : \A i \in last[r] + 1..m : i >= from => InOrder(r, i)}
  <2>1. Reaches(r, from, to) = Max({last[r]} \union S)
    BY <1>3 DEF Reaches
  <2>2. {last[r]} \union S \in SUBSET Nat /\ \A k \in {last[r]} \union S : last[r] <= k /\ k <= Len(log)
    BY <1>1
  <2>3. Max({last[r]} \union S) \in {last[r]} \union S
    BY <1>1, <2>2, MaxExists
  <2>4. from <= last[r] + 1
    BY <1>3 DEF NoGap
  <2>5. \A m \in S : \A i \in last[r] + 1..m : InOrder(r, i)
    BY <1>1, <2>4
  <2> QED  BY <1>1, <2>1, <2>2, <2>3, <2>4, <2>5
<1> QED  BY <1>2, <1>3

\* What a projection holds after a batch, and that it missed nothing.
LEMMA ReconcileStep ==
    ASSUME LogInv, ViewsInv, NEW r \in Projection, NEW from \in 1..Len(log), NEW to \in 1..Len(log),
           Reconcile(r, from, to), NEW a \in Aggregate
    PROVE  \/ /\ last[r] <= last'[r] /\ states'[r][a] = states[r][a]
              /\ \A k \in last[r] + 1..last'[r] : log[k][1] # a
           \/ \E j \in last[r] + 1..last'[r] :
                 /\ log[j] = <<a, states'[r][a]>>
                 /\ \A k \in last[r] + 1..last'[r] : log[k][1] = a => k <= j
                 /\ \A k \in last[r] + 1..last'[r] : InOrder(r, k)
<1> DEFINE end == Reaches(r, from, to)
           start == Max({last[r] + 1, from})
<1>1. last[r] \in Nat /\ last[r] <= Len(log) /\ Len(log) \in Nat
  BY LogParts DEF ViewsInv
<1>2. /\ last'[r] = end
      /\ states'[r][a] = LET v == LatestIn(a, start, end) IN IF v # 0 THEN v ELSE states[r][a]
  BY DEF Reconcile, ViewsInv
<1>3. end \in last[r]..Len(log) /\ (end # last[r] => /\ from <= last[r] + 1
                                                     /\ \A i \in last[r] + 1..end : InOrder(r, i))
  BY ReachesIs
<1> HIDE DEF end
<1>4. CASE end = last[r]
  <2>1. start >= last[r] + 1 /\ start \in Nat
    <3>1. {last[r] + 1, from} \in SUBSET Nat /\ {last[r] + 1, from} # {}
          /\ \A k \in {last[r] + 1, from} : k <= last[r] + 1 + from
      BY <1>1
    <3>2. last[r] + 1 + from \in Nat
      BY <1>1
    <3>3. start \in {last[r] + 1, from} /\ \A k \in {last[r] + 1, from} : k <= start
      BY <3>1, <3>2, MaxExists
    <3> QED  BY <1>1, <3>3
  <2>2. start..end = {} /\ last[r] + 1..end = {}
    BY <1>1, <1>4, <2>1
  <2>3. LatestIn(a, start, end) = 0
    BY <2>2, LatestIsNone
  <2> QED  BY <1>1, <1>2, <1>4, <2>2, <2>3
<1>5. CASE end # last[r]
  <2>1. start = last[r] + 1
    <3>1. {last[r] + 1, from} \in SUBSET Nat /\ \A k \in {last[r] + 1, from} : k <= last[r] + 1
      BY <1>1, <1>3, <1>5
    <3> QED  BY <3>1, MaxIs
  <2>2. CASE \A k \in last[r] + 1..end : log[k][1] # a
    <3>1. LatestIn(a, start, end) = 0
      BY <2>1, <2>2, LatestIsNone
    <3> QED  BY <1>1, <1>2, <1>3, <2>2, <3>1
  <2>3. ASSUME NEW k \in last[r] + 1..end, log[k][1] = a
        PROVE \E j \in last[r] + 1..end :
                 /\ log[j] = <<a, states'[r][a]>>
                 /\ \A m \in last[r] + 1..end : log[m][1] = a => m <= j
    <3>1. last[r] + 1 \in Nat /\ 1 <= last[r] + 1 /\ end \in Nat /\ end <= Len(log)
      BY <1>1, <1>3
    <3> DEFINE lo == last[r] + 1
    <3>2. PICK j \in lo..end : log[j][1] = a /\ \A m \in lo..end : log[m][1] = a => m <= j
      <4>1. lo \in Nat /\ 1 <= lo /\ k \in lo..end
        BY <3>1
      <4> HIDE DEF lo
      <4> QED  BY <2>3, <3>1, <4>1, FirstAndLast
    <3>3. LatestIn(a, last[r] + 1, end) = log[j][2]
      BY <3>1, <3>2, LatestIs
    <3>4. j \in 1..Len(log) /\ log[j] = <<a, log[j][2]>> /\ log[j][2] # 0
      BY <1>1, <1>3, <3>2, LogParts, LiveAssumption
    <3> QED  BY <1>2, <2>1, <3>2, <3>3, <3>4
  <2> QED  BY <1>2, <1>3, <1>5, <2>2, <2>3
<1> QED  BY <1>4, <1>5

\* reconcile.
LEMMA ReconcileViews ==
    ASSUME LogInv, ViewsInv, NEW r \in Projection, NEW from \in 1..Len(log), NEW to \in 1..Len(log),
           Reconcile(r, from, to)
    PROVE  LogInv' /\ ViewsInv'
<1>1. /\ UNCHANGED <<log, row, publishing, restored>>
      /\ last' = [last EXCEPT ![r] = Reaches(r, from, to)]
      /\ \A q \in Projection \ {r} : states'[q] = states[q] /\ last'[q] = last[q]
  BY DEF Reconcile, ViewsInv
<1>2. LogInv'
  BY <1>1, LogStays DEF LogInv, ReadsAreNotAhead
<1>3. last[r] \in Nat /\ last[r] <= Len(log) /\ Len(log) \in Nat /\ last'[r] \in last[r]..Len(log)
  BY <1>1, LogParts, ReachesIs DEF ViewsInv
<1>4. last' \in [Projection -> Nat] /\ \A q \in Projection : last'[q] <= Len(log)
  BY <1>1, <1>3 DEF ViewsInv
<1>5. ASSUME NEW a \in Aggregate PROVE states'[r][a] \in 0..MaxEvents
  <2>1. CASE states'[r][a] = states[r][a]
    BY <2>1 DEF ViewsInv
  <2>2. ASSUME NEW j \in last[r] + 1..last'[r], log[j] = <<a, states'[r][a]>>
        PROVE  states'[r][a] \in 0..MaxEvents
    <3>1. j \in 1..Len(log)
      BY <1>3
    <3>2. log[j][2] \in 1..MaxEvents
      BY <3>1, LogParts
    <3> QED  BY <2>2, <3>2
  <2> QED  BY <2>1, <2>2, ReconcileStep
<1>6. states' \in [Projection -> [Aggregate -> 0..MaxEvents]]
  <2>1. PICK f : DOMAIN f = Aggregate /\ f = [a \in Aggregate |-> f[a]] /\ states' = [states EXCEPT ![r] = f]
    <3> DEFINE f == [a \in Aggregate |->
                       LET v == LatestIn(a, Max({last[r] + 1, from}), Reaches(r, from, to))
                       IN IF v # 0 THEN v ELSE states[r][a]]
    <3>1. states' = [states EXCEPT ![r] = f]
      BY DEF Reconcile
    <3>2. DOMAIN f = Aggregate /\ f = [a \in Aggregate |-> f[a]]
      OBVIOUS
    <3> HIDE DEF f
    <3> QED  BY <3>1, <3>2
  <2>2. states'[r] = f
    BY <2>1 DEF ViewsInv
  <2>3. f \in [Aggregate -> 0..MaxEvents]
    BY <1>5, <2>1, <2>2
  <2> QED  BY <2>1, <2>3 DEF ViewsInv
<1>7. ASSUME NEW q \in Projection \ restored, NEW a \in Aggregate
      PROVE  states'[q][a] = LatestIn(a, 1, last'[q])
  <2>1. CASE q # r
    BY <1>1, <1>7, <2>1 DEF ViewsInv, PrefixUntilRestored
  <2>2. CASE q = r
    <3>1. states[r][a] = LatestIn(a, 1, last[r])
      BY <1>7, <2>2 DEF ViewsInv, PrefixUntilRestored
    <3>2. CASE /\ states'[r][a] = states[r][a] /\ \A k \in last[r] + 1..last'[r] : log[k][1] # a
      <4>1. {j \in 1..last'[r] : log[j][1] = a} = {j \in 1..last[r] : log[j][1] = a}
        BY <1>3, <3>2
      <4> QED  BY <2>2, <3>1, <3>2, <4>1 DEF LatestIn
    <3>3. ASSUME NEW j \in last[r] + 1..last'[r], log[j] = <<a, states'[r][a]>>,
                 \A k \in last[r] + 1..last'[r] : log[k][1] = a => k <= j
          PROVE  states'[r][a] = LatestIn(a, 1, last'[r])
      <4>1. \A k \in 1..last'[r] : log[k][1] = a => k <= j
        BY <1>3, <3>3
      <4>2. j \in 1..last'[r] /\ last'[r] \in Nat /\ last'[r] <= Len(log) /\ log[j][1] = a
        BY <1>3, <3>3
      <4>3. LatestIn(a, 1, last'[r]) = log[j][2]
        BY <4>1, <4>2, LatestIs
      <4> QED  BY <3>3, <4>3
    <3> QED  BY <2>2, <3>2, <3>3, ReconcileStep
  <2> QED  BY <2>1, <2>2
<1>8. PrefixUntilRestored'
  BY <1>1, <1>7 DEF PrefixUntilRestored, LatestIn
<1> QED  BY <1>1, <1>2, <1>4, <1>6, <1>8 DEF ViewsInv

\* restore_snapshot.
LEMMA RestoreKeeps ==
    ASSUME LogInv, ViewsInv, NEW r \in Projection, NEW i \in 1..Len(log), RestoreSnapshot(r, i)
    PROVE  LogInv' /\ ViewsInv'
<1>1. /\ UNCHANGED <<log, row, publishing>> /\ restored' = restored \union {r}
      /\ last' = [last EXCEPT ![r] = i]
      /\ states' = [states EXCEPT ![r][log[i][1]] = log[i][2]]
  BY DEF RestoreSnapshot
<1>2. LogInv'
  BY <1>1, LogStays DEF LogInv, ReadsAreNotAhead
<1>3. /\ Len(log) \in Nat /\ i \in Nat /\ i <= Len(log)
      /\ log[i][1] \in Aggregate /\ log[i][2] \in 0..MaxEvents
  BY LogParts, LiveAssumption
<1>4. /\ last' \in [Projection -> Nat] /\ \A q \in Projection : last'[q] <= Len(log)
      /\ states' \in [Projection -> [Aggregate -> 0..MaxEvents]]
      /\ \A q \in Projection \ {r} : states'[q] = states[q] /\ last'[q] = last[q]
  BY <1>1, <1>3 DEF ViewsInv
<1>5. ASSUME NEW q \in Projection \ restored', NEW a \in Aggregate
      PROVE  states'[q][a] = LatestIn(a, 1, last'[q])
  BY <1>1, <1>4 DEF ViewsInv, PrefixUntilRestored
<1>6. PrefixUntilRestored'
  BY <1>1, <1>5 DEF PrefixUntilRestored, LatestIn
<1> QED  BY <1>1, <1>2, <1>4, <1>6 DEF ViewsInv

\* The log and its projections, whatever publishers and batches do.
LEMMA LiveInvariant == LiveInit /\ [][LiveNext]_liveVars => [](LogInv /\ ViewsInv)
<1>1. LiveInit => LogInv /\ ViewsInv
  <2> SUFFICES ASSUME LiveInit PROVE LogInv /\ ViewsInv
    OBVIOUS
  <2>1. Len(log) = 0 /\ 1..Len(log) = {} /\ log \in Seq(Aggregate \X (1..MaxEvents))
    BY DEF LiveInit
  <2>2. \A a \in Aggregate : row[a] = <<0, 0>>
    BY DEF LiveInit
  <2>3. Max({0}) = 0 /\ Cardinality({}) = 0
    BY MaxIs, FS_EmptySet
  <2>4. VersionsAreDense
    <3>1. ASSUME NEW a \in Aggregate PROVE {i \in 1..Len(log) : log[i][1] = a} = {}
      BY <2>1
    <3>2. {0} \union {} = {0}
      OBVIOUS
    <3> QED  BY <2>2, <2>3, <3>1, <3>2 DEF VersionsAreDense
  <2>5. ReadsAreNotAhead /\ EveryVersionIsThere /\ VersionsRise /\ RowIsAhead
    BY <2>1, <2>2 DEF LiveInit, ReadsAreNotAhead, EveryVersionIsThere, VersionsRise, RowIsAhead
  <2>6. LogInv
    BY <2>1, <2>4, <2>5, LiveAssumption DEF LiveInit, LogInv
  <2>7. \A a \in Aggregate : LatestIn(a, 1, 0) = 0
    <3>1. 1..0 = {}
      OBVIOUS
    <3> QED  BY <3>1, LatestIsNone
  <2>8. ViewsInv
    BY <2>1, <2>7, LiveAssumption DEF LiveInit, ViewsInv, PrefixUntilRestored
  <2> QED  BY <2>6, <2>8
<1>2. LogInv /\ ViewsInv /\ [LiveNext]_liveVars => LogInv' /\ ViewsInv'
  <2>1. LogInv /\ ViewsInv /\ UNCHANGED liveVars => LogInv' /\ ViewsInv'
    <3> SUFFICES ASSUME LogInv, ViewsInv, UNCHANGED liveVars PROVE LogInv' /\ ViewsInv'
      OBVIOUS
    <3>1. UNCHANGED <<log, row, publishing, last, states, restored>>
      BY DEF liveVars
    <3>2. ReadsAreNotAhead' /\ publishing' \in [Publisher -> SUBSET (Aggregate \X (1..MaxEvents + 1))]
      BY <3>1 DEF LogInv, ReadsAreNotAhead
    <3> QED  BY <3>1, <3>2, LogStays, ViewsStay
  <2> QED  BY <2>1, PublishReadKeeps, PublishWriteKeeps, ReconcileViews, RestoreKeeps DEF LiveNext
<1> QED  BY <1>1, <1>2, PTL

\* However publishers race, the log is dense, and until it restores a snapshot
\* a projection is the log up to its last sequence.
THEOREM LiveHolds == LiveInit /\ [][LiveNext]_liveVars => []LiveInv
<1>1. LogInv /\ ViewsInv => LiveInv
  <2> SUFFICES ASSUME LogInv, ViewsInv PROVE LiveInv
    OBVIOUS
  <2>1. row \in [Aggregate -> (0..MaxEvents) \X (0..Len(log))]
    <3>1. \A a \in Aggregate : row[a] \in (0..MaxEvents) \X (0..Len(log))
      BY RowIs DEF LogInv
    <3> QED  BY <3>1 DEF LogInv
  <2>2. last \in [Projection -> 0..Len(log)]
    BY LogParts DEF ViewsInv
  <2> QED  BY <2>1, <2>2 DEF LogInv, ViewsInv, LiveInv, LiveTypeOK
<1> QED  BY <1>1, LiveInvariant, PTL

\* A projection that holds an aggregate never steps over an event of it.
THEOREM NothingIsSteppedOver == LiveInit /\ [][LiveNext]_liveVars => NothingSteppedOver
<1> DEFINE Follows(r, a) ==
       (states[r][a] # 0 /\ states'[r][a] # states[r][a]) =>
             \/ log[last'[r]] = <<a, states'[r][a]>>
             \/ \A v \in states[r][a] + 1..states'[r][a] :
                   \E i \in last[r] + 1..last'[r] : log[i] = <<a, v>>
<1>1. ASSUME LogInv, ViewsInv, LiveNext, NEW r \in Projection, NEW a \in Aggregate PROVE Follows(r, a)
  <2>1. CASE states'[r][a] = states[r][a]
    BY <2>1
  <2>2. ASSUME NEW q \in Projection, NEW i \in 1..Len(log), RestoreSnapshot(q, i) PROVE Follows(r, a)
    <3>1. CASE q = r /\ log[i][1] = a
      <4>1. last'[r] = i /\ states'[r][a] = log[i][2] /\ log[i] = <<a, log[i][2]>>
        BY <1>1, <2>2, <3>1, LogParts DEF RestoreSnapshot, ViewsInv
      <4> QED  BY <4>1
    <3>2. CASE ~(q = r /\ log[i][1] = a)
      <4>1. states'[r][a] = states[r][a]
        BY <1>1, <2>2, <3>2 DEF RestoreSnapshot, ViewsInv
      <4> QED  BY <4>1
    <3> QED  BY <3>1, <3>2
  <2>3. ASSUME NEW from \in 1..Len(log), NEW to \in 1..Len(log), Reconcile(r, from, to),
               states[r][a] # 0, states'[r][a] # states[r][a],
               NEW v \in states[r][a] + 1..states'[r][a]
        PROVE  \E i \in last[r] + 1..last'[r] : log[i] = <<a, v>>
    <3>1. PICK j \in last[r] + 1..last'[r] :
                 /\ log[j] = <<a, states'[r][a]>>
                 /\ \A k \in last[r] + 1..last'[r] : log[k][1] = a => k <= j
                 /\ \A k \in last[r] + 1..last'[r] : InOrder(r, k)
      BY <1>1, <2>3, ReconcileStep
    <3>2. last[r] \in Nat /\ last'[r] \in Nat /\ last'[r] <= Len(log) /\ Len(log) \in Nat
          /\ states[r][a] \in Nat
      <4>1. ViewsInv' /\ log' = log
        BY <1>1, <2>3, ReconcileViews DEF Reconcile
      <4>2. \A n \in 0..MaxEvents : n \in Nat
        BY LiveAssumption
      <4> QED  BY <1>1, <4>1, <4>2, LogParts DEF ViewsInv
    <3>3. PICK m \in last[r] + 1..last'[r] :
                 log[m][1] = a /\ \A k \in last[r] + 1..last'[r] : log[k][1] = a => m <= k
      <4> DEFINE lo == last[r] + 1  hi == last'[r]
      <4>1. /\ lo \in Nat /\ 1 <= lo /\ hi \in Nat /\ hi <= Len(log)
            /\ j \in lo..hi /\ log[j][1] = a
        BY <3>1, <3>2
      <4> HIDE DEF lo, hi
      <4>2. \E k \in lo..hi : log[k][1] = a /\ \A i \in lo..hi : log[i][1] = a => k <= i
        BY <1>1, <4>1, FirstAndLast
      <4> QED  BY <4>2 DEF lo, hi
    <3>4. LatestIn(a, last[r] + 1, m - 1) = 0
      <4>1. \A k \in last[r] + 1..m - 1 : log[k][1] # a
        BY <3>2, <3>3
      <4> QED  BY <4>1, LatestIsNone
    <3>5. log[m][2] = states[r][a] + 1
      BY <2>3, <3>1, <3>3, <3>4 DEF InOrder
    <3>6. j \in 1..Len(log) /\ m \in 1..Len(log)
      BY <3>1, <3>2, <3>3
    <3>7. states'[r][a] = log[j][2] /\ log[j][2] \in Nat /\ log[j][2] <= row[a][1] /\ row[a][1] \in Nat
      <4>1. log[j][1] = a /\ log[j][2] = states'[r][a]
        BY <3>1
      <4>2. log[j][2] \in Nat /\ log[j][2] <= row[log[j][1]][1] /\ row[log[j][1]][1] \in Nat
        BY <1>1, <3>6, LogParts, LiveAssumption, Ahead
      <4> QED  BY <4>1, <4>2
    <3>8. v \in 1..row[a][1]
      <4> DEFINE held == states[r][a]  reached == log[j][2]  current == row[a][1]
      <4>1. v \in held + 1..reached
        BY <2>3, <3>7
      <4>2. held \in Nat /\ reached \in Nat /\ current \in Nat /\ reached <= current
        BY <3>2, <3>7
      <4>3. v \in 1..current
        <5> HIDE DEF held, reached, current
        <5> QED  BY <4>1, <4>2
      <4> QED  BY <4>3
    <3>9. PICK i \in 1..Len(log) : log[i] = <<a, v>>
      BY <1>1, <3>8 DEF LogInv, EveryVersionIsThere
    <3>10. i <= j
      <4>1. log[j][1] = log[i][1] /\ log[i][2] = v /\ ~(log[j][2] < v)
        BY <2>3, <3>1, <3>2, <3>7, <3>9
      <4>2. j < i <=> log[j][2] < log[i][2]
        BY <1>1, <3>6, <3>9, <4>1, Rises
      <4> QED  BY <3>2, <3>6, <3>9, <4>1, <4>2
    <3>11. i >= m
      <4>1. log[i][1] = log[m][1] /\ log[i][2] = v /\ ~(v < log[m][2])
        BY <2>3, <3>2, <3>3, <3>5, <3>7, <3>9
      <4>2. i < m <=> log[i][2] < log[m][2]
        BY <1>1, <3>6, <3>9, <4>1, Rises
      <4> QED  BY <3>6, <3>9, <4>1, <4>2
    <3> QED  BY <3>1, <3>2, <3>3, <3>9, <3>10, <3>11
  <2>4. ASSUME NEW q \in Projection, NEW from \in 1..Len(log), NEW to \in 1..Len(log), Reconcile(q, from, to)
        PROVE  Follows(r, a)
    <3>1. CASE q = r
      BY <2>3, <2>4, <3>1
    <3>2. CASE q # r
      <4>1. states'[r] = states[r]
        BY <1>1, <2>4, <3>2 DEF Reconcile, ViewsInv
      <4> QED  BY <4>1
    <3> QED  BY <3>1, <3>2
  <2> QED  BY <1>1, <2>1, <2>2, <2>4 DEF LiveNext, PublishWrite, PublishRead
<1>2. LogInv /\ ViewsInv /\ [LiveNext]_liveVars => [\A r \in Projection, a \in Aggregate : Follows(r, a)]_liveVars
  BY <1>1
<1>3. LiveInit /\ [][LiveNext]_liveVars => [][\A r \in Projection, a \in Aggregate : Follows(r, a)]_liveVars
  BY <1>2, LiveInvariant, PTL
<1> QED  BY <1>3 DEF NothingSteppedOver

----------------------------------------------------------------------------
(* The evidence store                                                      *)

\* Who inserts holds the write lock, and has read the end of the chain.
LockHeld ==
    /\ \A w, x \in Writer : storing[w] = "insert" /\ storing[x] = "insert" => w = x
    /\ \A w \in Writer : storing[w] = "insert" => previous[w] = Len(chain)

\* What a thread is about to record was written, by itself or by another.
StoredFirst ==
    \A w \in Writer : storing[w] \in {"write", "append", "insert"} =>
        \A d \in content[w] : file[d] # "absent"

\* Without a fault, a file that is cut short is being written.
CutIsWritten ==
    faults = 0 => \A d \in Digest : file[d] = "truncated" =>
        \E w \in Writer : storing[w] = "write" /\ d \in content[w]

\* The inductive invariant of the evidence store.
StoreInv ==
    /\ EvidenceTypeOK /\ ChainIsUnbroken /\ RecordsHaveArtifacts
    /\ content \in [Writer -> SUBSET Digest] /\ Len(chain) <= MaxRecords
    /\ LockHeld /\ StoredFirst /\ CutIsWritten

\* Storing a file, up to the record, keeps the invariant.
LEMMA PutKeeps ==
    ASSUME StoreInv, NEW w \in Writer, NEW d \in Digest,
           \/ PutArtifact(w, d)
           \/ d \in content[w] /\ (PutCheck(w, d) \/ PutOpen(w, d) \/ PutWrite(w, d))
    PROVE  StoreInv'
<1> USE EvidenceAssumption DEF StoreInv, EvidenceTypeOK
<1>1. CASE PutArtifact(w, d)
  BY <1>1 DEF PutArtifact, ChainIsUnbroken, RecordsHaveArtifacts, LockHeld, StoredFirst,
     CutIsWritten
<1>2. CASE d \in content[w] /\ PutCheck(w, d)
  BY <1>2 DEF PutCheck, Present, ChainIsUnbroken, RecordsHaveArtifacts, LockHeld, StoredFirst,
     CutIsWritten
<1>3. CASE d \in content[w] /\ PutOpen(w, d)
  BY <1>3 DEF PutOpen, ChainIsUnbroken, RecordsHaveArtifacts, LockHeld, StoredFirst, CutIsWritten
<1>4. CASE d \in content[w] /\ PutWrite(w, d)
  BY <1>4 DEF PutWrite, Written, ChainIsUnbroken, RecordsHaveArtifacts, LockHeld, StoredFirst,
     CutIsWritten
<1> QED  BY <1>1, <1>2, <1>3, <1>4

\* So does recording it.
LEMMA AppendKeeps ==
    ASSUME StoreInv, NEW w \in Writer,
           AppendBegin(w) \/ \E d \in content[w] : AppendInsert(w, d)
    PROVE  StoreInv'
<1> USE EvidenceAssumption DEF StoreInv, EvidenceTypeOK
<1>1. CASE AppendBegin(w)
  BY <1>1 DEF AppendBegin, Unlocked, ChainIsUnbroken, RecordsHaveArtifacts, LockHeld, StoredFirst,
     CutIsWritten
<1>2. ASSUME NEW d \in content[w], AppendInsert(w, d) PROVE StoreInv'
  <2>1. d \in Digest /\ previous[w] = Len(chain) /\ previous[w] \in 0..MaxRecords /\ file[d] # "absent"
    BY <1>2 DEF AppendInsert, LockHeld, StoredFirst
  <2>2. /\ chain' \in Seq(Digest \X (0..MaxRecords)) /\ Len(chain') = Len(chain) + 1
        /\ \A i \in 1..Len(chain) : chain'[i] = chain[i]
        /\ chain'[Len(chain) + 1] = <<d, Len(chain)>>
    BY <1>2, <2>1 DEF AppendInsert
  <2>3. ChainIsUnbroken' /\ RecordsHaveArtifacts'
    BY <1>2, <2>1, <2>2 DEF AppendInsert, ChainIsUnbroken, RecordsHaveArtifacts
  <2>4. LockHeld' /\ StoredFirst' /\ CutIsWritten'
    BY <1>2, <2>1, <2>2 DEF AppendInsert, Idle, LockHeld, StoredFirst, CutIsWritten
  <2>5. EvidenceTypeOK' /\ content' \in [Writer -> SUBSET Digest]
    <3>1. storing' \in [Writer -> {"idle", "check", "open", "write", "append", "insert"}]
      BY <1>2 DEF AppendInsert, Idle
    <3>2. previous' \in [Writer -> 0..MaxRecords]
      BY <1>2 DEF AppendInsert, Idle
    <3> QED  BY <1>2, <2>2, <3>1, <3>2 DEF AppendInsert, Idle
  <2>6. Len(chain') <= MaxRecords
    BY <1>2, <2>2 DEF AppendInsert
  <2> QED  BY <2>3, <2>4, <2>5, <2>6
<1> QED  BY <1>1, <1>2

\* So do failed writes and crashes.
LEMMA FaultKeeps ==
    ASSUME StoreInv, EvidenceCrash \/ \E w \in Writer : PutFails(w)
    PROVE  StoreInv'
<1> USE EvidenceAssumption DEF StoreInv, EvidenceTypeOK
<1>1. CASE EvidenceCrash
  BY <1>1 DEF EvidenceCrash, ChainIsUnbroken, RecordsHaveArtifacts, LockHeld, StoredFirst,
     CutIsWritten
<1>2. ASSUME NEW w \in Writer, PutFails(w) PROVE StoreInv'
  <2>1. EvidenceTypeOK' /\ content' \in [Writer -> SUBSET Digest]
    <3>1. storing' \in [Writer -> {"idle", "check", "open", "write", "append", "insert"}]
      BY <1>2 DEF PutFails, Idle
    <3>2. previous' \in [Writer -> 0..MaxRecords] /\ faults' \in 0..MaxFaults
      BY <1>2 DEF PutFails, Idle
    <3> QED  BY <1>2, <3>1, <3>2 DEF PutFails, Idle
  <2>2. ChainIsUnbroken' /\ RecordsHaveArtifacts' /\ Len(chain') <= MaxRecords
    BY <1>2 DEF PutFails, Idle, ChainIsUnbroken, RecordsHaveArtifacts
  <2>3. LockHeld' /\ StoredFirst' /\ CutIsWritten'
    BY <1>2 DEF PutFails, Idle, LockHeld, StoredFirst, CutIsWritten
  <2> QED  BY <2>1, <2>2, <2>3
<1> QED  BY <1>1, <1>2

\* Threads that store and record at the same time, with failed writes and
\* crashes, keep the chain unbroken and its artifacts stored; verify succeeds
\* whenever no write is under way and none has failed.
THEOREM EvidenceHolds == EvidenceInit /\ [][EvidenceNext]_evidenceVars => []EvidenceInv
<1>1. EvidenceInit => StoreInv
  BY EvidenceAssumption DEF EvidenceInit, StoreInv, EvidenceTypeOK, ChainIsUnbroken,
     RecordsHaveArtifacts, LockHeld, StoredFirst, CutIsWritten
<1>2. StoreInv /\ [EvidenceNext]_evidenceVars => StoreInv'
  <2> SUFFICES ASSUME StoreInv, [EvidenceNext]_evidenceVars PROVE StoreInv'
    OBVIOUS
  <2>1. CASE UNCHANGED evidenceVars
    BY <2>1 DEF evidenceVars, StoreInv, EvidenceTypeOK, ChainIsUnbroken, RecordsHaveArtifacts,
       LockHeld, StoredFirst, CutIsWritten
  <2>2. \A w \in Writer : content[w] \subseteq Digest
    BY DEF StoreInv
  <2> QED  BY <2>1, <2>2, PutKeeps, AppendKeeps, FaultKeeps DEF EvidenceNext
<1>3. StoreInv => EvidenceInv
  BY DEF StoreInv, EvidenceInv, EvidenceTypeOK, RecordsHaveArtifacts, ChainIsUnbroken, CutIsWritten,
         QuietStoreVerifies, Verifies, Readable
<1> QED  BY <1>1, <1>2, <1>3, PTL

----------------------------------------------------------------------------
(* The challenges that prove an e-mail address                             *)

\* Every thread past the count takes the place of a challenge: with it the
\* bound on the rate is inductive.
PlacesTaken == Cardinality(recent) + Cardinality(counted) <= MaxIssues + Cardinality(Issuer) - 1

SignInInv ==
    /\ ChallengesTypeOK /\ OneSignInPerChallenge
    /\ IsFiniteSet(recent) /\ PlacesTaken

\* The count and the insert keep the bound on the rate.
LEMMA IssueKeeps ==
    ASSUME SignInInv, NEW p \in Issuer,
           IssueCount(p) \/ \E c \in Challenge : IssuePut(p, c)
    PROVE  SignInInv'
<1> USE ChallengeAssumption DEF SignInInv, ChallengesTypeOK
<1>1. IsFiniteSet(counted) /\ Cardinality(counted) \in Nat /\ Cardinality(recent) \in Nat
      /\ Cardinality(Issuer) \in Nat
  BY FS_Subset, FS_CardinalityType
<1>2. CASE IssueCount(p)
  <2>1. counted' \subseteq Issuer /\ Cardinality(counted') <= Cardinality(Issuer)
    BY <1>2, FS_Subset DEF IssueCount
  <2>2. IsFiniteSet(counted') /\ Cardinality(counted') \in Nat
    BY <2>1, FS_Subset, FS_CardinalityType
  <2> QED  BY <1>1, <1>2, <2>1, <2>2 DEF IssueCount, BelowLimit, PlacesTaken, OneSignInPerChallenge
<1>3. ASSUME NEW c \in Challenge, IssuePut(p, c) PROVE SignInInv'
  <2>1. c \notin recent /\ p \in counted
    BY <1>3 DEF IssuePut
  <2>2. IsFiniteSet(recent') /\ Cardinality(recent') = Cardinality(recent) + 1
    BY <1>3, <2>1, FS_AddElement DEF IssuePut, Put
  <2>3. Cardinality(counted') = Cardinality(counted) - 1
    BY <1>1, <1>3, <2>1, FS_RemoveElement DEF IssuePut
  <2> QED  BY <1>1, <1>3, <2>2, <2>3 DEF IssuePut, Put, PlacesTaken, OneSignInPerChallenge
<1> QED  BY <1>2, <1>3

\* Using a challenge, and time.
LEMMA UseKeeps ==
    ASSUME SignInInv, NEW c \in Challenge,
           Expire(c) \/ LeaveWindow(c) \/ \E v \in Verifier : Consume(v, c)
    PROVE  SignInInv'
<1> USE DEF SignInInv, ChallengesTypeOK
<1>1. CASE Expire(c)
  BY <1>1 DEF Expire, PlacesTaken, OneSignInPerChallenge
<1>2. CASE LeaveWindow(c)
  <2>1. IsFiniteSet(recent') /\ Cardinality(recent') = Cardinality(recent) - 1
    BY <1>2, FS_RemoveElement DEF LeaveWindow
  <2>2. Cardinality(recent) \in Nat /\ Cardinality(counted) \in Nat /\ Cardinality(Issuer) \in Nat
    BY ChallengeAssumption, FS_Subset, FS_CardinalityType
  <2> QED  BY <1>2, <2>1, <2>2, ChallengeAssumption DEF LeaveWindow, PlacesTaken,
              OneSignInPerChallenge
<1>3. ASSUME NEW v \in Verifier, Consume(v, c) PROVE SignInInv'
  BY <1>3 DEF Consume, Open, PlacesTaken, OneSignInPerChallenge
<1> QED  BY <1>1, <1>2, <1>3

\* However many threads issue and verify, challenges are issued at the bounded
\* rate and each signs in one thread.
THEOREM ChallengesHold == ChallengesInit /\ [][ChallengesNext]_challengeVars => []ChallengesInv
<1>1. ChallengesInit => SignInInv
  BY ChallengeAssumption, FS_EmptySet, FS_CardinalityType
     DEF ChallengesInit, SignInInv, ChallengesTypeOK, OneSignInPerChallenge, PlacesTaken
<1>2. SignInInv /\ [ChallengesNext]_challengeVars => SignInInv'
  <2> SUFFICES ASSUME SignInInv, [ChallengesNext]_challengeVars PROVE SignInInv'
    OBVIOUS
  <2>1. CASE UNCHANGED challengeVars
    BY <2>1 DEF challengeVars, SignInInv, ChallengesTypeOK, OneSignInPerChallenge, PlacesTaken
  <2> QED  BY <2>1, IssueKeeps, UseKeeps DEF ChallengesNext
<1>3. SignInInv => ChallengesInv
  BY ChallengeAssumption, FS_Subset, FS_CardinalityType
     DEF SignInInv, ChallengesTypeOK, ChallengesInv, IssueRateBounded, PlacesTaken
<1> QED  BY <1>1, <1>2, <1>3, PTL

-----------------------------------------------------------------------------
(* Publications                                                            *)

\* The threads past the ledger's SUBMITTING and not yet answered in it.
Submitter(t, p) == posting[t] \in {"post"} \union Answers /\ p \in parcel[t]

\* A package in submission is SUBMITTING, and belongs to one thread at most.
SubmitterHolds ==
    \A t \in Poster, p \in Package : Submitter(t, p) => publication[p] = "SUBMITTING"
OneSubmitter ==
    \A t, u \in Poster, p \in Package : Submitter(t, p) /\ Submitter(u, p) => t = u

\* A call that has not reached the platform yet is the package's first.
FirstCall ==
    \A t \in Poster, p \in Package : (posting[t] = "post" /\ p \in parcel[t]) => posts[p] = 0

\* A thread that was told of a post has one.
ToldTruth ==
    \A t \in Poster, p \in Package :
        (posting[t] = "published" /\ p \in parcel[t]) => visible[p] > 0

\* A post is the result of a call.
PostsHaveCalls == \A p \in Package : visible[p] <= posts[p]

\* The inductive invariant.
PublicationInv ==
    /\ PublicationsTypeOK
    /\ OnePublishAttempt
    /\ LedgerKnowsPosts
    /\ SubmitterHolds
    /\ OneSubmitter
    /\ FirstCall
    /\ ToldTruth
    /\ PostsHaveCalls

\* A step of PublicationsNext is one of six, with the types of what it concerns.
LEMMA PublicationCases ==
    ASSUME PublicationsTypeOK, [PublicationsNext]_publicationVars
    PROVE  \/ UNCHANGED publicationVars
           \/ PosterStops
           \/ \E t \in Poster, p \in Package : Prepare(t, p)
           \/ \E t \in Poster, p \in Package : p \in parcel[t] /\ Submit(t, p)
           \/ \E t \in Poster, p \in Package : p \in parcel[t] /\ Post(t, p)
           \/ \E t \in Poster, p \in Package : p \in parcel[t] /\ Record(t, p)
  <1>1. \A t \in Poster : parcel[t] \subseteq Package
    BY DEF PublicationsTypeOK
  <1> QED
    BY <1>1 DEF PublicationsNext

\* A fresh ledger satisfies the invariant.
LEMMA PublicationStart == PublicationsInit => PublicationInv
  BY PublicationAssumption
  DEF PublicationsInit, PublicationInv, PublicationsTypeOK, OnePublishAttempt, LedgerKnowsPosts,
      SubmitterHolds, OneSubmitter, Submitter, FirstCall, ToldTruth, PostsHaveCalls, Answers, Closed

\* prepare keeps the invariant: it neither calls the platform nor touches a
\* package with side-effect history.
LEMMA PrepareKeeps ==
    ASSUME PublicationInv, NEW t \in Poster, NEW p \in Package, Prepare(t, p)
    PROVE  PublicationInv'
  <1> USE DEF PublicationInv, Prepare, Preparable, Answers, Closed
  <1>1. PublicationsTypeOK'
    BY DEF PublicationsTypeOK
  <1>2. OnePublishAttempt' /\ LedgerKnowsPosts'
    BY DEF OnePublishAttempt, LedgerKnowsPosts, PublicationsTypeOK
  <1>3. SubmitterHolds' /\ OneSubmitter'
    BY DEF SubmitterHolds, OneSubmitter, Submitter, PublicationsTypeOK
  <1>4. FirstCall' /\ ToldTruth' /\ PostsHaveCalls'
    BY DEF FirstCall, ToldTruth, PostsHaveCalls, PublicationsTypeOK
  <1> QED
    BY <1>1, <1>2, <1>3, <1>4

\* The swap to SUBMITTING keeps the invariant: PREPARED has no submitter.
LEMMA SubmitKeeps ==
    ASSUME PublicationInv, NEW t \in Poster, NEW p \in Package, p \in parcel[t], Submit(t, p)
    PROVE  PublicationInv'
  <1> USE DEF PublicationInv, Enterable, Returned, Answers, Closed
  <1>1. CASE /\ Enterable(p)
             /\ publication' = [publication EXCEPT ![p] = "SUBMITTING"]
             /\ posting' = [posting EXCEPT ![t] = "post"]
             /\ UNCHANGED <<parcel, posts, visible>>
    <2>1. PublicationsTypeOK'
      BY <1>1 DEF PublicationsTypeOK, Submit
    <2>2. OnePublishAttempt' /\ LedgerKnowsPosts'
      BY <1>1 DEF OnePublishAttempt, LedgerKnowsPosts, PublicationsTypeOK
    <2>3. \A u \in Poster : ~Submitter(u, p)
      BY <1>1 DEF SubmitterHolds
    <2>4. \A u \in Poster, q \in Package : Submitter(u, q)' => Submitter(u, q) \/ (u = t /\ q = p)
      BY <1>1 DEF Submitter, PublicationsTypeOK
    <2>5. SubmitterHolds'
      BY <1>1, <2>4 DEF SubmitterHolds, PublicationsTypeOK
    <2>6. OneSubmitter'
      BY <1>1, <2>3, <2>4 DEF OneSubmitter
    <2>7. posts[p] = 0
      BY <1>1 DEF LedgerKnowsPosts, PublicationsTypeOK
    <2>8. FirstCall' /\ ToldTruth' /\ PostsHaveCalls'
      BY <1>1, <2>7 DEF FirstCall, ToldTruth, PostsHaveCalls, PublicationsTypeOK
    <2> QED
      BY <2>1, <2>2, <2>5, <2>6, <2>8
  <1>2. CASE ~Enterable(p) /\ Returned(t) /\ UNCHANGED <<publication, posts, visible>>
    <2>1. PublicationsTypeOK'
      BY <1>2 DEF PublicationsTypeOK
    <2>2. OnePublishAttempt' /\ LedgerKnowsPosts'
      BY <1>2 DEF OnePublishAttempt, LedgerKnowsPosts
    <2>3. \A u \in Poster, q \in Package : Submitter(u, q)' => Submitter(u, q)
      BY <1>2 DEF Submitter, PublicationsTypeOK
    <2>4. SubmitterHolds' /\ OneSubmitter'
      BY <1>2, <2>3 DEF SubmitterHolds, OneSubmitter
    <2>5. FirstCall' /\ ToldTruth' /\ PostsHaveCalls'
      BY <1>2 DEF FirstCall, ToldTruth, PostsHaveCalls, PublicationsTypeOK
    <2> QED
      BY <2>1, <2>2, <2>4, <2>5
  <1> QED
    BY <1>1, <1>2 DEF Submit

\* The platform's call keeps the invariant: it is the first for its package.
LEMMA PostKeeps ==
    ASSUME PublicationInv, NEW t \in Poster, NEW p \in Package, p \in parcel[t], Post(t, p)
    PROVE  PublicationInv'
  <1> USE DEF PublicationInv, Answers, Closed
  <1>1. PICK answer \in Answers :
           /\ posting' = [posting EXCEPT ![t] = answer]
           /\ \/ visible' = [visible EXCEPT ![p] = @ + 1]
              \/ UNCHANGED visible /\ answer # "published"
    BY DEF Post
  <1>2. /\ posting[t] = "post" /\ posts[p] = 0 /\ publication[p] = "SUBMITTING"
        /\ posts' = [posts EXCEPT ![p] = 1]
        /\ UNCHANGED <<publication, parcel>>
    <2>1. /\ posting[t] = "post" /\ UNCHANGED <<publication, parcel>>
          /\ posts' = [posts EXCEPT ![p] = posts[p] + 1]
      BY DEF Post
    <2>2. publication[p] = "SUBMITTING"
      BY <2>1 DEF SubmitterHolds, Submitter
    <2>3. posts[p] = 0
      BY <2>1 DEF FirstCall
    <2>4. posts[p] + 1 = 1
      BY <2>3
    <2> QED
      BY <2>1, <2>2, <2>3, <2>4
  <1>3. PublicationsTypeOK'
    <2>1. visible[p] = 0 /\ 1 \in 0..MaxPosts
      BY <1>2, PublicationAssumption DEF PostsHaveCalls, PublicationsTypeOK
    <2>2. posts' \in [Package -> 0..MaxPosts] /\ visible' \in [Package -> 0..MaxPosts]
      BY <1>1, <1>2, <2>1 DEF PublicationsTypeOK
    <2>3. /\ publication' \in [Package -> {"none", "PREPARED", "SUBMITTING"} \union Closed]
          /\ posting' \in [Poster -> {"idle", "submit", "post"} \union Answers]
          /\ parcel' \in [Poster -> SUBSET Package]
          /\ \A u \in Poster : posting'[u] = "idle" <=> parcel'[u] = {}
          /\ \A u \in Poster : \A q, r \in parcel'[u] : q = r
      BY <1>1, <1>2 DEF PublicationsTypeOK
    <2> QED
      BY <2>2, <2>3 DEF PublicationsTypeOK
  <1>4. OnePublishAttempt'
    BY <1>2 DEF OnePublishAttempt, PublicationsTypeOK
  <1>5. LedgerKnowsPosts'
    BY <1>1, <1>2 DEF LedgerKnowsPosts, PublicationsTypeOK
  <1>6. \A u \in Poster, q \in Package : Submitter(u, q)' => Submitter(u, q)
    BY <1>1, <1>2 DEF Submitter, PublicationsTypeOK
  <1>7. SubmitterHolds' /\ OneSubmitter'
    BY <1>2, <1>6 DEF SubmitterHolds, OneSubmitter
  <1>8. FirstCall'
    <2> SUFFICES ASSUME NEW u \in Poster, NEW q \in Package,
                        posting'[u] = "post", q \in parcel'[u]
                 PROVE  posts'[q] = 0
      BY DEF FirstCall
    <2>1. u # t /\ posting[u] = "post" /\ q \in parcel[u]
      BY <1>1, <1>2 DEF PublicationsTypeOK
    <2>2. q # p
      BY <1>2, <2>1 DEF OneSubmitter, Submitter
    <2> QED
      BY <1>2, <2>1, <2>2 DEF FirstCall, PublicationsTypeOK
  <1>9. ToldTruth' /\ PostsHaveCalls'
    <2>1. PostsHaveCalls'
      BY <1>1, <1>2 DEF PostsHaveCalls, PublicationsTypeOK
    <2>2. \A q \in parcel[t] : q = p
      BY DEF PublicationsTypeOK
    <2>3. ToldTruth'
      BY <1>1, <1>2, <2>2 DEF ToldTruth, PublicationsTypeOK
    <2> QED
      BY <2>1, <2>3
  <1> QED
    BY <1>3, <1>4, <1>5, <1>7, <1>8, <1>9

\* Writing the outcome keeps the invariant: only the submitter of a package
\* writes it, and PUBLISHED only when it was told of the post.
LEMMA RecordKeeps ==
    ASSUME PublicationInv, NEW t \in Poster, NEW p \in Package, p \in parcel[t], Record(t, p)
    PROVE  PublicationInv'
  <1> USE DEF PublicationInv, Returned, Answers, Closed
  <1>1. /\ posting[t] \in Answers /\ Returned(t) /\ UNCHANGED <<posts, visible>>
        /\ \/ publication' = [publication EXCEPT ![p] = Recorded(posting[t])]
           \/ UNCHANGED publication
    BY DEF Record
  <1>2. /\ Recorded(posting[t]) \in Closed
        /\ Recorded(posting[t]) = "PUBLISHED" => posting[t] = "published"
    BY <1>1 DEF Recorded
  <1>3. PublicationsTypeOK'
    BY <1>1, <1>2 DEF PublicationsTypeOK
  <1>4. OnePublishAttempt'
    BY <1>1 DEF OnePublishAttempt
  <1>5. LedgerKnowsPosts'
    BY <1>1, <1>2 DEF LedgerKnowsPosts, ToldTruth, PublicationsTypeOK
  <1>6. \A u \in Poster, q \in Package : Submitter(u, q)' => u # t /\ Submitter(u, q)
    BY <1>1 DEF Submitter, PublicationsTypeOK
  <1>7. OneSubmitter'
    BY <1>6 DEF OneSubmitter
  <1>8. SubmitterHolds'
    <2> SUFFICES ASSUME NEW u \in Poster, NEW q \in Package, Submitter(u, q)'
                 PROVE  publication'[q] = "SUBMITTING"
      BY DEF SubmitterHolds
    <2>1. u # t /\ Submitter(u, q)
      BY <1>6
    <2>2. q # p
      BY <1>1, <2>1 DEF OneSubmitter, Submitter
    <2> QED
      BY <1>1, <2>1, <2>2 DEF SubmitterHolds, PublicationsTypeOK
  <1>9. FirstCall' /\ ToldTruth' /\ PostsHaveCalls'
    BY <1>1 DEF FirstCall, ToldTruth, PostsHaveCalls, PublicationsTypeOK
  <1> QED
    BY <1>3, <1>4, <1>5, <1>7, <1>8, <1>9

\* A stop of the process keeps the invariant: the ledger and the platform
\* stay as they are, and no thread is left to act on what it knew.
LEMMA StopKeeps ==
    ASSUME PublicationInv, PosterStops
    PROVE  PublicationInv'
  <1> USE DEF PublicationInv, PosterStops, Answers, Closed
  <1>1. PublicationsTypeOK'
    BY DEF PublicationsTypeOK
  <1>2. OnePublishAttempt' /\ LedgerKnowsPosts' /\ PostsHaveCalls'
    BY DEF OnePublishAttempt, LedgerKnowsPosts, PostsHaveCalls
  <1>3. SubmitterHolds' /\ OneSubmitter' /\ FirstCall' /\ ToldTruth'
    BY DEF SubmitterHolds, OneSubmitter, Submitter, FirstCall, ToldTruth
  <1> QED
    BY <1>1, <1>2, <1>3

\* Every step of the coordinator, its platform and its process keeps the invariant.
LEMMA PublicationStep ==
    ASSUME PublicationInv, [PublicationsNext]_publicationVars
    PROVE  PublicationInv'
  <1>1. CASE UNCHANGED publicationVars
    BY <1>1 DEF publicationVars, PublicationInv, PublicationsTypeOK, OnePublishAttempt,
                LedgerKnowsPosts, SubmitterHolds, OneSubmitter, Submitter, FirstCall, ToldTruth,
                PostsHaveCalls
  <1>2. CASE PosterStops
    BY <1>2, StopKeeps
  <1>3. ASSUME NEW t \in Poster, NEW p \in Package, Prepare(t, p) PROVE PublicationInv'
    BY <1>3, PrepareKeeps
  <1>4. ASSUME NEW t \in Poster, NEW p \in Package, p \in parcel[t], Submit(t, p)
        PROVE  PublicationInv'
    BY <1>4, SubmitKeeps
  <1>5. ASSUME NEW t \in Poster, NEW p \in Package, p \in parcel[t], Post(t, p)
        PROVE  PublicationInv'
    BY <1>5, PostKeeps
  <1>6. ASSUME NEW t \in Poster, NEW p \in Package, p \in parcel[t], Record(t, p)
        PROVE  PublicationInv'
    BY <1>6, RecordKeeps
  <1>7. PublicationsTypeOK
    BY DEF PublicationInv
  <1> QED
    BY <1>1, <1>2, <1>3, <1>4, <1>5, <1>6, <1>7, PublicationCases

\* The invariant holds in every reachable state.
LEMMA PublicationInvariant == PublicationsSpec => []PublicationInv
  <1>1. PublicationInv /\ [PublicationsNext]_publicationVars => PublicationInv'
    BY PublicationStep
  <1> QED
    BY PublicationStart, <1>1, PTL DEF PublicationsSpec

\* The state of the ledger and its threads keeps its types.
THEOREM PublicationsTypeCorrect == PublicationsSpec => []PublicationsTypeOK
  <1>1. PublicationInv => PublicationsTypeOK
    BY DEF PublicationInv
  <1> QED
    BY <1>1, PublicationInvariant, PTL

\* However many threads publish a package, whatever answers are lost and
\* wherever the process stops, the platform is called at most once for it.
THEOREM OneAttemptPerPackage == PublicationsSpec => []OnePublishAttempt
  <1>1. PublicationInv => OnePublishAttempt
    BY DEF PublicationInv
  <1> QED
    BY <1>1, PublicationInvariant, PTL

\* The ledger never lags behind the platform's calls and never claims a post
\* that does not exist.
THEOREM LedgerIsTruthful == PublicationsSpec => []LedgerKnowsPosts
  <1>1. PublicationInv => LedgerKnowsPosts
    BY DEF PublicationInv
  <1> QED
    BY <1>1, PublicationInvariant, PTL

\* A closed package keeps its state for ever.
THEOREM ClosedIsFinal == PublicationsSpec => PublicationIsFinal
  <1> DEFINE Final == \A p \in Package : publication[p] \in Closed => publication'[p] = publication[p]
  <1>1. ASSUME PublicationInv, [PublicationsNext]_publicationVars
        PROVE  Final
    <2> USE DEF Closed
    <2>1. PublicationsTypeOK
      BY <1>1 DEF PublicationInv
    <2>2. CASE UNCHANGED publicationVars
      BY <2>2 DEF publicationVars
    <2>3. CASE PosterStops
      BY <2>3 DEF PosterStops
    <2>4. ASSUME NEW t \in Poster, NEW p \in Package, Prepare(t, p) PROVE Final
      BY <2>1, <2>4 DEF Prepare, Preparable, PublicationsTypeOK
    <2>5. ASSUME NEW t \in Poster, NEW p \in Package, Submit(t, p) PROVE Final
      BY <2>1, <2>5 DEF Submit, Enterable, PublicationsTypeOK
    <2>6. ASSUME NEW t \in Poster, NEW p \in Package, Post(t, p) PROVE Final
      BY <2>6 DEF Post
    <2>7. ASSUME NEW t \in Poster, NEW p \in Package, Record(t, p) PROVE Final
      BY <2>1, <2>7 DEF Record, PublicationsTypeOK
    <2> QED
      BY <1>1, <2>1, <2>2, <2>3, <2>4, <2>5, <2>6, <2>7, PublicationCases
  <1>2. PublicationInv /\ [PublicationsNext]_publicationVars => [Final]_publicationVars
    BY <1>1
  <1> QED
    BY PublicationInvariant, <1>2, PTL DEF PublicationsSpec, PublicationIsFinal

----------------------------------------------------------------------------
(* Accounts, links and sessions                                            *)

\* A set that holds one thing at most.
AtMostOne(S) == \A x, y \in S : x = y

\* What a thread holds at each step.
HandlerHolds(h) ==
    \/ handling[h] = "idle" /\ holds[h] = {}
    \/ handling[h] = "create" /\ \E i \in Identity : holds[h] = {<<i>>}
    \/ /\ handling[h] \in {"resolve", "insert", "add", "transfer", "unlink"}
       /\ \E i \in Identity, a \in created_as : holds[h] = {<<i, a>>}
    \/ /\ handling[h] = "move"
       /\ \E i \in Identity, a, source \in created_as : holds[h] = {<<i, a, source>>}

\* The inductive invariant of the account tables ...
TablesInv ==
    /\ link \in [Identity -> SUBSET created_as]
    /\ \A i \in Identity : AtMostOne(link[i])
    /\ created_as \subseteq Account /\ enabled \subseteq created_as /\ entitled \subseteq created_as
    /\ EnabledHasSignIn

\* ... of the sessions ...
SessionsInv ==
    /\ session \in [Session -> SUBSET created_as]
    /\ \A s \in Session : AtMostOne(session[s])
    /\ ended \subseteq {s \in Session : session[s] # {}}

\* ... and of the threads.
ThreadsInv ==
    /\ handling \in [Handler -> Step] /\ DOMAIN holds = Handler
    /\ holds = [h \in Handler |-> holds[h]]
    /\ \A h \in Handler : HandlerHolds(h)

SignInsInv == TablesInv /\ SessionsInv /\ ThreadsInv

\* A set that holds one thing at most has cardinality one at most.
LEMMA CountAtMostOne ==
    ASSUME NEW S, AtMostOne(S) PROVE Cardinality(S) <= 1
<1>1. CASE S = {}
  BY <1>1, FS_EmptySet
<1>2. ASSUME NEW x \in S PROVE Cardinality(S) <= 1
  <2>1. S = {x}
    BY <1>2 DEF AtMostOne
  <2>2. Cardinality({x}) = 1
    BY FS_Singleton
  <2> QED  BY <2>1, <2>2
<1> QED  BY <1>1, <1>2

\* A thread that goes on to a step holding what belongs to that step.
LEMMA EnterKeeps ==
    ASSUME ThreadsInv, NEW h \in Handler, NEW step \in Step, NEW held, Enter(h, step, held),
           created_as \subseteq created_as',
           \/ step = "idle" /\ held = {}
           \/ step = "create" /\ \E i \in Identity : held = {<<i>>}
           \/ /\ step \in {"resolve", "insert", "add", "transfer", "unlink"}
              /\ \E i \in Identity, a \in created_as' : held = {<<i, a>>}
           \/ step = "move" /\ \E i \in Identity, a, source \in created_as' : held = {<<i, a, source>>}
    PROVE  ThreadsInv'
<1>1. /\ handling' \in [Handler -> Step]
      /\ DOMAIN holds' = Handler /\ holds' = [g \in Handler |-> holds'[g]]
  BY DEF ThreadsInv, Enter
<1>2. HandlerHolds(h)'
  BY DEF ThreadsInv, Enter, HandlerHolds
<1>3. ASSUME NEW g \in Handler \ {h} PROVE HandlerHolds(g)'
  <2>1. handling'[g] = handling[g] /\ holds'[g] = holds[g] /\ HandlerHolds(g)
    BY DEF ThreadsInv, Enter
  <2> QED  BY <2>1 DEF HandlerHolds
<1> QED  BY <1>1, <1>2, <1>3 DEF ThreadsInv

\* A thread that leaves the tables alone.
LEMMA TablesStay ==
    ASSUME SignInsInv, UNCHANGED <<accountTables, sessionTables>>
    PROVE  TablesInv' /\ SessionsInv'
BY DEF SignInsInv, TablesInv, SessionsInv, accountTables, sessionTables, EnabledHasSignIn, LinksOf,
   AtMostOne

\* Threads that read: the first steps of sign_in, link_identity and unlink_identity.
LEMMA ReadKeeps ==
    ASSUME SignInsInv, NEW h \in Handler, NEW i \in Identity,
           SignIn(h, i) \/ \E s \in Session : LinkIdentity(h, s, i) \/ UnlinkCheck(h, s, i)
    PROVE  SignInsInv'
<1>1. TablesInv' /\ SessionsInv' /\ created_as' = created_as
  BY TablesStay DEF SignIn, LinkIdentity, UnlinkCheck, accountTables
<1>2. ASSUME NEW step \in Step, NEW held, Enter(h, step, held),
             \/ step = "create" /\ held = {<<i>>}
             \/ /\ step \in {"resolve", "add", "transfer", "unlink"}
                /\ \E a \in created_as : held = {<<i, a>>}
      PROVE  ThreadsInv'
  BY <1>1, <1>2, EnterKeeps DEF SignInsInv
<1>3. ASSUME SignIn(h, i) PROVE ThreadsInv'
  <2>1. ASSUME Enter(h, "create", {<<i>>}) PROVE ThreadsInv'
    <3>1. "create" \in Step
      BY DEF Step
    <3> QED  BY <1>2, <2>1, <3>1
  <2>2. ASSUME NEW a \in link[i] \intersect enabled, Enter(h, "resolve", {<<i, a>>}) PROVE ThreadsInv'
    <3>1. a \in created_as
      BY DEF SignInsInv, TablesInv
    <3>2. "resolve" \in Step
      BY DEF Step
    <3> QED  BY <1>2, <2>2, <3>1, <3>2
  <2> QED  BY <1>3, <2>1, <2>2 DEF SignIn
<1>4. ASSUME NEW s \in Session, LinkIdentity(h, s, i) PROVE ThreadsInv'
  <2>1. PICK a \in Principal(s) : Enter(h, IF link[i] = {} THEN "add" ELSE "transfer", {<<i, a>>})
    BY <1>4 DEF LinkIdentity
  <2>2. a \in created_as
    BY DEF Principal, SignInsInv, SessionsInv
  <2> QED  BY <1>2, <2>1, <2>2 DEF Step
<1>5. ASSUME NEW s \in Session, UnlinkCheck(h, s, i) PROVE ThreadsInv'
  <2>1. PICK a \in Principal(s) : Enter(h, "unlink", {<<i, a>>})
    BY <1>5 DEF UnlinkCheck
  <2>2. a \in created_as
    BY DEF Principal, SignInsInv, SessionsInv
  <2> QED  BY <1>2, <2>1, <2>2 DEF Step
<1> QED  BY <1>1, <1>3, <1>4, <1>5 DEF SignInsInv

\* create_account_with_link.
LEMMA CreateAccountKeeps ==
    ASSUME SignInsInv, NEW h \in Handler, NEW i \in Identity, NEW a \in Account, CreateAccount(h, i, a)
    PROVE  SignInsInv'
<1>1. CASE ~Unlinked(i)
  <2>1. UNCHANGED <<accountTables, sessionTables>> /\ Enter(h, "idle", {})
    BY <1>1 DEF CreateAccount, Return, accountTables
  <2> QED  BY <2>1, TablesStay, EnterKeeps DEF SignInsInv, accountTables, Step
<1>2. CASE Unlinked(i)
  <2>1. /\ link' = [link EXCEPT ![i] = {a}] /\ link[i] = {}
        /\ created_as' = created_as \union {a} /\ enabled' = enabled \union {a}
        /\ entitled' = entitled /\ UNCHANGED sessionTables
        /\ Enter(h, "resolve", {<<i, a>>})
    BY <1>2 DEF CreateAccount, Unlinked, SignInsInv, TablesInv
  <2>2. ThreadsInv'
    BY <2>1, EnterKeeps DEF SignInsInv, Step
  <2>3. SessionsInv'
    BY <2>1 DEF SignInsInv, SessionsInv, sessionTables, AtMostOne
  <2>4. EnabledHasSignIn'
    BY <2>1 DEF SignInsInv, TablesInv, EnabledHasSignIn, LinksOf
  <2>5. TablesInv'
    BY <2>1, <2>4 DEF SignInsInv, TablesInv, AtMostOne
  <2> QED  BY <2>2, <2>3, <2>5 DEF SignInsInv
<1> QED  BY <1>1, <1>2

\* issue: the principal and the session.
LEMMA IssueSessionKeeps ==
    ASSUME SignInsInv, NEW h \in Handler, NEW i \in Identity, NEW a \in created_as,
           holds[h] = {<<i, a>>},
           ResolvePrincipal(h, a, holds[h]) \/ \E s \in Session : InsertSession(h, a, s)
    PROVE  SignInsInv'
<1>1. CASE ResolvePrincipal(h, a, holds[h])
  <2>1. UNCHANGED <<accountTables, sessionTables>> /\ (Enter(h, "insert", {<<i, a>>}) \/ Enter(h, "idle", {}))
    BY <1>1 DEF ResolvePrincipal, Return
  <2> QED  BY <2>1, TablesStay, EnterKeeps DEF SignInsInv, accountTables, Step
<1>2. ASSUME NEW s \in Session, InsertSession(h, a, s) PROVE SignInsInv'
  <2>1. session' = [session EXCEPT ![s] = {a}] /\ UNCHANGED <<accountTables, ended>> /\ Enter(h, "idle", {})
    BY <1>2 DEF InsertSession, Return
  <2>2. ThreadsInv'
    BY <2>1, EnterKeeps DEF SignInsInv, accountTables, Step
  <2>3. SessionsInv'
    BY <2>1 DEF SignInsInv, SessionsInv, accountTables, AtMostOne
  <2>4. TablesInv'
    BY <2>1 DEF SignInsInv, TablesInv, accountTables, EnabledHasSignIn, LinksOf
  <2> QED  BY <2>2, <2>3, <2>4 DEF SignInsInv
<1> QED  BY <1>1, <1>2

\* add_link and remove_link_if_alternate_exists.
LEMMA LinkKeeps ==
    ASSUME SignInsInv, NEW h \in Handler, NEW i \in Identity, NEW a \in created_as,
           AddLink(h, i, a) \/ UnlinkRemove(h, i, a)
    PROVE  SignInsInv'
<1>1. UNCHANGED <<created_as, enabled, entitled, sessionTables>> /\ Enter(h, "idle", {})
  BY DEF AddLink, UnlinkRemove, Return
<1>2. ThreadsInv'
  BY <1>1, EnterKeeps DEF SignInsInv, Step
<1>3. SessionsInv'
  BY <1>1 DEF SignInsInv, SessionsInv, sessionTables, AtMostOne
<1>4. \/ link' = link
      \/ link[i] = {} /\ link' = [link EXCEPT ![i] = {a}]
      \/ link[i] = {a} /\ link' = [link EXCEPT ![i] = {}] /\ LinksOf(a) \ {i} # {}
  BY DEF AddLink, UnlinkRemove, Unlinked, Alternate, SignInsInv, TablesInv, AtMostOne
<1>5. EnabledHasSignIn'
  BY <1>1, <1>4 DEF SignInsInv, TablesInv, EnabledHasSignIn, LinksOf
<1>6. TablesInv'
  BY <1>1, <1>4, <1>5 DEF SignInsInv, TablesInv, AtMostOne
<1> QED  BY <1>2, <1>3, <1>6 DEF SignInsInv

\* transfer_isolated_link.
LEMMA TransferKeeps ==
    ASSUME SignInsInv, NEW h \in Handler, NEW i \in Identity, NEW a \in created_as,
           \/ TransferCheck(h, i, a)
           \/ \E source \in created_as : TransferMove(h, i, a, source)
    PROVE  SignInsInv'
<1>1. CASE TransferCheck(h, i, a)
  <2>1. TablesInv' /\ SessionsInv' /\ created_as' = created_as
    BY <1>1, TablesStay DEF TransferCheck, accountTables
  <2>2. \/ Enter(h, "idle", {})
        \/ \E source \in created_as : Enter(h, "move", {<<i, a, source>>})
    BY <1>1 DEF TransferCheck, Return, SignInsInv, TablesInv
  <2> QED  BY <2>1, <2>2, EnterKeeps DEF SignInsInv, Step
<1>2. ASSUME NEW source \in created_as, TransferMove(h, i, a, source) PROVE SignInsInv'
  <2>1. UNCHANGED <<created_as, entitled, session>> /\ Enter(h, "idle", {})
    BY <1>2 DEF TransferMove, Return
  <2>2. ThreadsInv'
    BY <2>1, EnterKeeps DEF SignInsInv, Step
  <2>3. \/ UNCHANGED <<link, enabled, ended>>
        \/ /\ link[i] = {source} /\ link' = [link EXCEPT ![i] = {a}]
           /\ enabled' = enabled \ {source} /\ ended' = ended \union SessionsOf(source)
    BY <1>2 DEF TransferMove
  <2>4. SessionsInv'
    BY <2>1, <2>3 DEF SignInsInv, SessionsInv, SessionsOf, AtMostOne
  <2>5. EnabledHasSignIn'
    BY <2>3 DEF SignInsInv, TablesInv, EnabledHasSignIn, LinksOf
  <2>6. TablesInv'
    BY <2>1, <2>3, <2>5 DEF SignInsInv, TablesInv, AtMostOne
  <2> QED  BY <2>2, <2>4, <2>6 DEF SignInsInv
<1> QED  BY <1>1, <1>2

\* Revocations, entitlements and the end of a tenant.
LEMMA AdministerKeeps ==
    ASSUME SignInsInv,
           \/ \E s \in Session : EndSession(s)
           \/ \E a \in Account : RevokeAll(a) \/ SetEntitlement(a) \/ DeleteTenant(a)
    PROVE  SignInsInv'
<1>1. /\ UNCHANGED <<link, created_as, session, handlers>>
      /\ enabled' \subseteq enabled /\ entitled' \subseteq created_as
      /\ ended' \subseteq {s \in Session : session[s] # {}}
  BY DEF EndSession, RevokeAll, SetEntitlement, DeleteTenant, SessionsOf, accountTables,
     sessionTables, SignInsInv, TablesInv, SessionsInv
<1>2. ThreadsInv'
  BY <1>1 DEF SignInsInv, ThreadsInv, HandlerHolds, handlers
<1>3. SessionsInv' /\ TablesInv'
  BY <1>1 DEF SignInsInv, SessionsInv, TablesInv, EnabledHasSignIn, LinksOf, AtMostOne
<1> QED  BY <1>2, <1>3 DEF SignInsInv

\* Whatever links, transfers and unlinks run side by side, an enabled account
\* keeps a way to sign in.
THEOREM AccountsHold == AccountsInit /\ [][AccountsNext]_accountVars => []AccountsInv
<1>1. AccountsInit => SignInsInv
  BY DEF AccountsInit, SignInsInv, TablesInv, SessionsInv, ThreadsInv, HandlerHolds,
     EnabledHasSignIn, AtMostOne, Step
<1>2. SignInsInv /\ [AccountsNext]_accountVars => SignInsInv'
  <2> SUFFICES ASSUME SignInsInv, [AccountsNext]_accountVars PROVE SignInsInv'
    OBVIOUS
  <2>1. CASE UNCHANGED accountVars
    BY <2>1, TablesStay DEF accountVars, accountTables, sessionTables, handlers, SignInsInv,
       ThreadsInv, HandlerHolds
  <2>2. ASSUME NEW h \in Handler, NEW held \in holds[h],
               \/ \E a \in Account : CreateAccount(h, held[1], a)
               \/ ResolvePrincipal(h, held[2], holds[h])
               \/ \E s \in Session : InsertSession(h, held[2], s)
               \/ AddLink(h, held[1], held[2])
               \/ TransferCheck(h, held[1], held[2])
               \/ TransferMove(h, held[1], held[2], held[3])
               \/ UnlinkRemove(h, held[1], held[2])
        PROVE  SignInsInv'
    <3>1. HandlerHolds(h)
      BY DEF SignInsInv, ThreadsInv
    <3>2. CASE handling[h] = "idle"
      BY <3>1, <3>2, <2>2 DEF HandlerHolds
    <3>3. CASE handling[h] = "create"
      <4>1. held[1] \in Identity
        BY <2>2, <3>1, <3>3 DEF HandlerHolds
      <4>2. PICK a \in Account : CreateAccount(h, held[1], a)
        BY <2>2, <3>3 DEF ResolvePrincipal, InsertSession, AddLink, TransferCheck, TransferMove,
           UnlinkRemove
      <4> QED  BY <4>1, <4>2, CreateAccountKeeps
    <3>4. CASE handling[h] \in {"resolve", "insert", "add", "transfer", "unlink"}
      <4>1. held[1] \in Identity /\ held[2] \in created_as /\ holds[h] = {<<held[1], held[2]>>}
        BY <2>2, <3>1, <3>4 DEF HandlerHolds
      <4> HIDE <2>2
      <4>2. \/ ResolvePrincipal(h, held[2], holds[h])
            \/ \E s \in Session : InsertSession(h, held[2], s)
            \/ AddLink(h, held[1], held[2]) \/ UnlinkRemove(h, held[1], held[2])
            \/ TransferCheck(h, held[1], held[2])
        BY <2>2, <3>4 DEF CreateAccount, TransferMove
      <4> QED  BY <4>1, <4>2, IssueSessionKeeps, LinkKeeps, TransferKeeps
    <3>5. CASE handling[h] = "move"
      <4>1. held[1] \in Identity /\ held[2] \in created_as /\ held[3] \in created_as
        BY <2>2, <3>1, <3>5 DEF HandlerHolds
      <4>2. TransferMove(h, held[1], held[2], held[3])
        BY <2>2, <3>5 DEF CreateAccount, ResolvePrincipal, InsertSession, AddLink, TransferCheck,
           UnlinkRemove
      <4> QED  BY <4>1, <4>2, TransferKeeps
    <3> QED  BY <3>1, <3>2, <3>3, <3>4, <3>5 DEF HandlerHolds
  <2> QED  BY <2>1, <2>2, ReadKeeps, AdministerKeeps DEF AccountsNext
<1>3. SignInsInv => AccountsInv
  <2> SUFFICES ASSUME SignInsInv PROVE AccountsInv
    OBVIOUS
  <2>1. \A h \in Handler : AtMostOne(holds[h])
    BY DEF SignInsInv, ThreadsInv, HandlerHolds, AtMostOne
  <2> QED  BY <2>1, CountAtMostOne DEF SignInsInv, TablesInv, SessionsInv, ThreadsInv, AccountsInv,
              AccountsTypeOK
<1> QED  BY <1>1, <1>2, <1>3, PTL
=============================================================================
