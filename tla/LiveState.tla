----------------------------- MODULE LiveState -----------------------------
(***************************************************************************)
(* services/control_plane/live_state.py: the durable event log with its    *)
(* snapshots, published to by the threads of the control plane, and the    *)
(* projections that follow it over an unreliable connection.               *)
(*                                                                         *)
(* An event is its aggregate and its version: an aggregate's state is      *)
(* named by the version that carries it, and sequence numbers are the      *)
(* positions in the log (AUTOINCREMENT gives a rolled-back number out      *)
(* again).                                                                 *)
(***************************************************************************)
EXTENDS Naturals, Sequences, FiniteSetsExt

CONSTANTS Aggregate,   \* aggregate ids
          Publisher,   \* threads that publish
          Projection,  \* clients
          MaxEvents    \* bound on the length of the log

ASSUME LiveAssumption == MaxEvents \in Nat

VARIABLES
    log,        \* live_events: a sequence of <<aggregate, version>>
    row,        \* live_state: <<version, last_sequence>> of an aggregate, or <<0, 0>>
    publishing, \* the <<aggregate, version>> a publisher is about to insert, in a set
    last,       \* _last_sequence of a projection
    states,     \* _states of a projection: the version it holds, 0 for none
    restored    \* projections that restored a snapshot

liveVars == <<log, row, publishing, last, states, restored>>

LiveTypeOK ==
    /\ log \in Seq(Aggregate \X (1..MaxEvents))
    /\ row \in [Aggregate -> (0..MaxEvents) \X (0..Len(log))]
    /\ publishing \in [Publisher -> SUBSET (Aggregate \X (1..MaxEvents + 1))]
    /\ last \in [Projection -> 0..Len(log)]
    /\ states \in [Projection -> [Aggregate -> 0..MaxEvents]]
    /\ restored \subseteq Projection

LiveInit ==
    /\ log = <<>>
    /\ row = [a \in Aggregate |-> <<0, 0>>]
    /\ publishing = [p \in Publisher |-> {}]
    /\ last = [r \in Projection |-> 0]
    /\ states = [r \in Projection |-> [a \in Aggregate |-> 0]]
    /\ restored = {}

-----------------------------------------------------------------------------
(* The transport *)

\* publish reads the aggregate's version before its transaction begins.
PublishRead(p, a) ==
    /\ publishing[p] = {}
    /\ publishing' = [publishing EXCEPT ![p] = {<<a, row[a][1] + 1>>}]
    /\ UNCHANGED <<log, row, last, states, restored>>

\* A log without its UNIQUE constraint.
FreeMutant(e) == TRUE

\* UNIQUE (aggregate_id, version) of live_events.
Free(e) == \A i \in 1..Len(log) : log[i] # e

\* publish writes the event and the aggregate's row, or loses the race for
\* the version, raises and writes neither.
PublishWrite(p) ==
    /\ \E e \in publishing[p] :
          \/ /\ Free(e) /\ Len(log) < MaxEvents
             /\ log' = Append(log, e)
             /\ row' = [row EXCEPT ![e[1]] = <<e[2], Len(log) + 1>>]
          \/ /\ ~Free(e)
             /\ UNCHANGED <<log, row>>
    /\ publishing' = [publishing EXCEPT ![p] = {}]
    /\ UNCHANGED <<last, states, restored>>

-----------------------------------------------------------------------------
(* The projections *)

\* The version of a's latest event among positions lo..hi, 0 for none.
LatestIn(a, lo, hi) == Max({0} \union {log[i][2] : i \in {j \in lo..hi : log[j][1] = a}})

\* A projection that takes whatever version comes.
InOrderMutant(r, i) == TRUE

\* The version test of reconcile on event i, the events after last[r] applied.
InOrder(r, i) ==
    LET a       == log[i][1]
        earlier == LatestIn(a, last[r] + 1, i - 1)
        current == IF earlier # 0 THEN earlier ELSE states[r][a]
    IN  current = 0 \/ log[i][2] = current + 1

\* A projection that does not miss what lies between.
NoGapMutant(r, from) == TRUE

\* The gap test of reconcile on a batch whose first event is at position from.
NoGap(r, from) == from <= last[r] + 1

\* How far reconcile gets in the batch from..to: up to a gap or the first
\* event out of order, where it raises and keeps what it has applied.
Reaches(r, from, to) ==
    IF NoGap(r, from)
    THEN Max({last[r]} \union {m \in last[r] + 1..to : \A i \in last[r] + 1..m : i >= from => InOrder(r, i)})
    ELSE last[r]

\* reconcile of what some earlier replay(after_sequence = from - 1) returned:
\* late, repeated and stale batches included.
Reconcile(r, from, to) ==
    /\ LET end == Reaches(r, from, to)
       IN  /\ last' = [last EXCEPT ![r] = end]
           /\ states' = [states EXCEPT ![r] = [a \in Aggregate |->
                 LET v == LatestIn(a, Max({last[r] + 1, from}), end) IN IF v # 0 THEN v ELSE @[a]]]
    /\ UNCHANGED <<log, row, publishing, restored>>

\* A restore that stands after the event it restored to.
RestoreSnapshotMutant(r, i) ==
    /\ states' = [states EXCEPT ![r][log[i][1]] = log[i][2]]
    /\ last' = [last EXCEPT ![r] = i + 1]
    /\ restored' = restored \union {r}
    /\ UNCHANGED <<log, row, publishing>>

\* restore_snapshot of a snapshot taken when position i was the aggregate's
\* last: it may be late.
RestoreSnapshot(r, i) ==
    /\ states' = [states EXCEPT ![r][log[i][1]] = log[i][2]]
    /\ last' = [last EXCEPT ![r] = i]
    /\ restored' = restored \union {r}
    /\ UNCHANGED <<log, row, publishing>>

LiveNext ==
    \/ \E p \in Publisher : PublishWrite(p) \/ \E a \in Aggregate : PublishRead(p, a)
    \/ \E r \in Projection, i, j \in 1..Len(log) :
          \/ i <= j /\ Reconcile(r, i, j)
          \/ RestoreSnapshot(r, i)

-----------------------------------------------------------------------------
(* Properties *)

\* However publishers race, the events of an aggregate are its versions 1, 2,
\* 3, ... in log order, and its snapshot is the last of them (publish).
VersionsAreDense ==
    \A a \in Aggregate :
        LET at == {i \in 1..Len(log) : log[i][1] = a}
        IN  /\ \A i \in at : log[i][2] = Cardinality({j \in at : j <= i})
            /\ row[a] = <<Cardinality(at), Max({0} \union at)>>

\* Until it restores a snapshot a projection is exactly the log up to its
\* last sequence, whatever batches reach it, late, twice or with a gap
\* (reconcile).
PrefixUntilRestored ==
    \A r \in Projection \ restored, a \in Aggregate : states[r][a] = LatestIn(a, 1, last[r])

\* A projection that holds an aggregate never steps over an event of it: it
\* applies every one in between, or stands at a snapshot of it.  After a
\* snapshot of another aggregate has moved it past some, it refuses the
\* aggregate's later events (reconcile, restore_snapshot).
NothingSteppedOver ==
    [][\A r \in Projection, a \in Aggregate :
          (states[r][a] # 0 /\ states'[r][a] # states[r][a]) =>
             \/ log[last'[r]] = <<a, states'[r][a]>>
             \/ \A v \in states[r][a] + 1..states'[r][a] :
                   \E i \in last[r] + 1..last'[r] : log[i] = <<a, v>>]_liveVars

\* The log is dense and every projection a prefix of it, in well-typed tables.
LiveInv == LiveTypeOK /\ VersionsAreDense /\ PrefixUntilRestored
=============================================================================
