------------------------ MODULE MultiExecutionProofs ------------------------
(***************************************************************************)
(* Proofs about multi-capability requests, for any number of threads,      *)
(* steps, dependencies, preparations and crashes.                          *)
(*                                                                         *)
(* What follows of the steps' rows is assumed of one preparing thread: the *)
(* exception handler of _continue_multi_prepare writes the row whatever it *)
(* has become, and of two threads that prepare a request the slower one    *)
(* may fail a step that was accepted meanwhile.                            *)
(***************************************************************************)
EXTENDS MultiExecution, WellFoundedInduction, TLAPS

\* prepare is called by one thread at a time.
OnePreparer ==
    \A c, d \in Caller : "prepare" \in CallsOf[c] /\ "prepare" \in CallsOf[d] => c = d

----------------------------------------------------------------------------
(* Labels                                                                  *)

\* execute of a child up to its point of no return, and after it.
RunnerLabels == {"register", "child_start", "child_charge", "child_work", "child_failed"}
ClaimedLabels == RunnerLabels \union {"child_accept", "run_store", "run_finally"}

\* _close_multi_failure, before and after the parent was found to be partial.
PartialLabels == {"partial_job", "partial_job_again", "partial_write", "partial_swap"}
FailLabels == {"fail_job", "fail_job_again", "fail_write", "fail_swap"}
FailureLabels ==
    {"close_step", "close_read", "close_partial", "close_failed", "run_end"} \union PartialLabels
        \union FailLabels

\* The loops over the rows.
PrepareRow ==
    {"prepare_claim", "prepare_orphan", "prepare_interrupt", "prepare_renew", "prepare_child",
     "prepare_pending", "prepare_admitted", "prepare_failed"}
DecideRow == {"decide_child", "decide_store"}
RunRows ==
    {"run_row", "run_claim", "run_state", "run_recover", "run_found", "close_step"}
        \union ClaimedLabels
CancelRow ==
    {"cancel_revoke", "cancel_child", "cancel_recover", "cancel_store", "cancel_interrupt",
     "cancel_mark"}
InterruptRow == {"interrupt_revoke", "interrupt_child", "interrupt_mark"}
RowLabels == PrepareRow \union DecideRow \union RunRows \union CancelRow \union InterruptRow

\* _finalize_multi once it has seen every step accepted, and a cancellation once
\* it has seen one that is not.
FinalLabels == {"final_job", "final_validating", "final_completed", "accept"}
CancelledLabels == {"cancel_job", "cancel_job_again", "cancel_write", "cancel_close"}

\* The labels of each call.
PrepareLabels ==
    PrepareRow \union {"prepare_read", "prepare_fail", "close_failed", "prepare_finish",
                       "to_approval", "to_admitted", "raised"}
DecideLabels == DecideRow \union {"decide_read", "decide_swap", "close_denied"}
FinishLabels == FinalLabels \union {"finalize", "close_accepted", "raised"}
ResumeLabels ==
    RunRows \union FailureLabels \union FinishLabels
        \union {"expire", "start_job", "start_running", "queue", "start", "run_read", "verify",
                "verify_swap"}
CancelLabels ==
    CancelRow \union CancelledLabels \union FinishLabels
        \union {"cancel_swap", "cancel_read", "cancel_check", "close_cancelled"}
RecoverLabels ==
    ResumeLabels \union InterruptRow
        \union {"interrupt_status", "interrupt_read", "interrupt_job", "interrupt_job_again",
                "interrupt_write", "interrupt_swap", "close_interrupted"}

LabelsOf(call) ==
    CASE call = "prepare" -> PrepareLabels
      [] call \in {"approve", "deny"} -> DecideLabels
      [] call = "resume" -> ResumeLabels
      [] call = "cancel" -> CancelLabels
      [] call = "recover" -> RecoverLabels
      [] call = "idle" -> {"idle"}

Labels == PrepareLabels \union DecideLabels \union CancelLabels \union RecoverLabels \union {"idle"}

----------------------------------------------------------------------------
(* The inductive invariant                                                 *)

Statuses ==
    Terminal \union Active \union
        {"none", "PENDING_ADMISSION", "PENDING_APPROVAL", "ADMITTED", "QUEUED"}

\* Rows that were not executed yet, that are closed without a result, and that
\* are done with.
EarlyStates == {"none", "PLANNED", "PREPARING", "PENDING_APPROVAL", "ADMITTED"}
ClosedStates == {"DENIED", "FAILED_TERMINAL", "CANCELLED", "INTERRUPTED"}
DoneStates == ClosedStates \union {"ACCEPTED"}
StepStates == EarlyStates \union ClosedStates \union {"EXECUTING", "ACCEPTED"}

RowType ==
    [index : Steps, status : StepStates, prepare : 1..MaxPrepare, execution : 0..1]

\* Types of the threads' own variables.
ThreadTypes ==
    /\ product = [p \in Child |-> product[p]]
    /\ step_status \in [Steps -> StepStates]
    /\ op \in [Caller -> Calls \union {"idle"}]
    /\ pc \in [Caller -> Labels]
    /\ seen \in [Caller -> Statuses]
    /\ todo \in [Caller -> SUBSET RowType]

\* A thread is at a label of its call, has a row where it needs one, and has
\* found that row ADMITTED where it executes it.  No call goes on before the
\* request has its rows.
OnPath ==
    \A c \in Caller :
        /\ pc[c] \in LabelsOf(op[c])
        /\ op[c] = "idle" => todo[c] = {}
        /\ op[c] # "idle" => op[c] \in CallsOf[c] /\ status # "none"
        /\ pc[c] \in RowLabels => todo[c] # {}
        /\ pc[c] \in ClaimedLabels \union {"run_claim"} => Row(c).status = "ADMITTED"
        /\ pc[c] = "run_state" => Row(c).status = "EXECUTING"

\* A row is executed once.
ExecutedOnce ==
    /\ \A i \in Steps : step_status[i] \in EarlyStates => execution_attempt[i] = 0
    /\ status = "none" => \A i \in Steps : execution_attempt[i] = 0
    /\ \A c \in Caller : \A row \in todo[c] : row.status \in EarlyStates => row.execution = 0

TypeInv == TypeOK /\ ThreadTypes /\ OnPath /\ ExecutedOnce

\* The parent's closure is its status, and who is about to record it knows so.
CloseLabel(s) ==
    CASE s = "DENIED" -> "close_denied"
      [] s = "FAILED_TERMINAL" -> "close_failed"
      [] s = "ACCEPTED" -> "close_accepted"
      [] s = "CANCELLED" -> "close_cancelled"
      [] s = "INTERRUPTED" -> "close_interrupted"
      [] s = "PARTIAL" -> "close_partial"

ClosedInv ==
    /\ ClosureMatches
    /\ \A c \in Caller, s \in Terminal : pc[c] = CloseLabel(s) => status = s

\* While the request is prepared nothing but its preparation goes on, and until
\* it is admitted nothing is executed.
Unstarted == {"none", "PENDING_ADMISSION", "PENDING_APPROVAL", "DENIED"}
PhaseInv ==
    /\ status = "none" => \A i \in Steps : step_status[i] = "none"
    /\ status \in Unstarted => \A i \in Steps : step_status[i] \notin {"EXECUTING", "ACCEPTED"}
    /\ \A c \in Caller :
          /\ op[c] = "prepare" =>
                status = "PENDING_ADMISSION" \/ (pc[c] = "close_failed" /\ status = "FAILED_TERMINAL")
          /\ op[c] \in {"approve", "deny", "cancel", "resume", "recover"} =>
                status \notin {"none", "PENDING_ADMISSION"}
          /\ op[c] \in {"resume", "recover"} => status \notin Unstarted
          /\ op[c] = "cancel" /\ pc[c] # "cancel_swap" => status \notin Unstarted

\* The rows of a loop are rows of different steps, and name their children.
RowsInv ==
    \A c \in Caller :
        /\ \A row \in todo[c] : row.prepare = prepare_attempt[row.index]
        /\ \A row, other \in todo[c] : row.index = other.index => row = other

\* A step is executed by one thread, which alone can finalize its child.
Runner(c) == pc[c] \in ClaimedLabels \union {"close_step"} /\ Row(c).status = "ADMITTED"
Unfinished(p) == product[p] \notin {"finalizing", "accepted"}
RunnersInv ==
    /\ \A p \in Child : step_status[p[1]] \in EarlyStates => Unfinished(p)
    /\ \A c \in Caller : Runner(c) => step_status[Row(c).index] \notin EarlyStates
    /\ \A c, d \in Caller :
          Runner(c) /\ Runner(d) /\ Row(c).index = Row(d).index => c = d
    /\ \A c \in Caller :
          /\ pc[c] \in RunnerLabels => Unfinished(ChildOf(c))
          /\ pc[c] = "close_step" =>
                \/ step_status[Row(c).index] \in ClosedStates
                \/ product[ChildOf(c)] \in Closed
                \/ Runner(c) /\ Unfinished(ChildOf(c))

\* What a thread knows of the rows by its label.
KnownInv ==
    \A c \in Caller :
        /\ pc[c] \in {"run_found", "run_store", "cancel_store"} => product[ChildOf(c)] = "accepted"
        /\ pc[c] \in {"run_claim"} \union RunnerLabels => Ready(c)
        /\ pc[c] \in FinalLabels => \A i \in Steps : step_status[i] = "ACCEPTED"
        /\ pc[c] \in PartialLabels => \E i \in Steps : step_status[i] = "ACCEPTED"
        /\ pc[c] \in PartialLabels \union CancelledLabels \union {"close_read"} =>
              \E i \in Steps : step_status[i] \in ClosedStates
        /\ pc[c] = "cancel_check" => todo[c] = {}
        /\ pc[c] \in CancelRow \union {"cancel_check"} =>
              \A i \in Steps : step_status[i] \in DoneStates \/ \E row \in todo[c] : row.index = i

\* The outcome, as the steps say.
StepsInv ==
    /\ AcceptedIsComplete
    /\ status = "PARTIAL" => \E i \in Steps : step_status[i] = "ACCEPTED"
    /\ status \in {"PARTIAL", "CANCELLED"} => \E i \in Steps : step_status[i] \in ClosedStates
    /\ DependencyOrder

\* Until the first crash, an open grant is in the hands of the thread that runs
\* the step.
HolderLabels == (ClaimedLabels \ {"register"}) \union FailureLabels
Holder(c) ==
    /\ op[c] \in {"resume", "recover"} /\ pc[c] \in HolderLabels
    /\ todo[c] # {} /\ Row(c).status = "ADMITTED"
GrantsInv ==
    crashes = 0 => \A p \in granted \ revoked : \E c \in Caller : Holder(c) /\ ChildOf(c) = p

\* The inductive invariant.
StepRowsInv == PhaseInv /\ RowsInv /\ RunnersInv /\ KnownInv /\ StepsInv
RequestInv == TypeInv /\ ClosedInv /\ GrantsInv
PlanInv == RequestInv /\ StepRowsInv
----------------------------------------------------------------------------
(* The tables                                                              *)

\* A step of a thread moves that thread alone.
Alone(c) ==
    /\ \A d \in Caller \ {c} : /\ pc'[d] = pc[d] /\ op'[d] = op[d]
                               /\ seen'[d] = seen[d] /\ todo'[d] = todo[d]
    /\ crashes' = crashes

\* The status changes by the INSERT, and by swaps, which leave the thread at
\* the label that goes with the new status.
StatusTable(c) ==
    \/ status' = status
    \/ /\ status = "none" /\ status' = "PENDING_ADMISSION" /\ pc[c] = "idle"
       /\ step_status' = [i \in Steps |-> "PLANNED"]
    \/ /\ op[c] # "idle" /\ status = seen[c] /\ status' \in AllowedTransitions(status)
       /\ UNCHANGED step_status
       /\ status' \in Terminal => pc'[c] = CloseLabel(status')
       /\ op[c] = "prepare" => op'[c] = "idle" \/ pc'[c] = "close_failed"
       /\ status' = "ACCEPTED" => pc[c] = "accept"
       /\ status' = "PARTIAL" => pc[c] = "partial_swap"
       /\ status' = "CANCELLED" => pc[c] = "cancel_close"

\* The parent's closure.
ClosureTable(c) ==
    /\ \/ execution_closure' = execution_closure
       \/ /\ execution_closure = "none" /\ execution_closure' \in Terminal
          /\ pc[c] = CloseLabel(execution_closure')
    /\ \A s \in Terminal : pc'[c] = CloseLabel(s) => status' = s

\* Calls begin in the states that allow them.
CallTable(c) ==
    /\ op'[c] = "prepare" =>
          \/ op[c] = "prepare" /\ pc[c] # "close_failed"
          \/ op[c] = "idle" /\ "prepare" \in CallsOf[c] /\ status' = "PENDING_ADMISSION"
    /\ op'[c] \in {"approve", "deny", "cancel"} =>
          op[c] = op'[c] \/ status \notin {"none", "PENDING_ADMISSION"}
    /\ op'[c] \in {"resume", "recover"} =>
          op[c] \in {"resume", "recover"} \/ status \notin Unstarted
    /\ op'[c] = "cancel" /\ pc'[c] # "cancel_swap" =>
          \/ op[c] = "cancel" /\ pc[c] # "cancel_swap"
          \/ status' \notin Unstarted

\* The row a thread writes, and what it makes of it.
Write(c, before, after) ==
    /\ step_status[Row(c).index] \in before
    /\ step_status' = [step_status EXCEPT ![Row(c).index] = after]

StepTable(c) ==
    \/ step_status' = step_status
    \/ /\ status = "none" /\ status' = "PENDING_ADMISSION" /\ pc[c] = "idle"
       /\ step_status' = [i \in Steps |-> "PLANNED"]
    \/ pc[c] \in RowLabels /\ todo[c] # {} /\
       \/ op[c] = "prepare" /\ pc[c] = "prepare_renew" /\ Write(c, {"PREPARING"}, "PLANNED")
       \/ op[c] = "prepare" /\ pc[c] = "prepare_claim" /\ Write(c, {"PLANNED"}, "PREPARING")
       \/ op[c] = "prepare" /\ Write(c, {"PREPARING"}, "PENDING_APPROVAL")
       \/ op[c] = "prepare" /\ Write(c, {"PREPARING"}, "ADMITTED")
       \/ op[c] = "prepare" /\ pc[c] = "prepare_failed" /\ Write(c, StepStates, "FAILED_TERMINAL")
       \/ pc[c] = "decide_store" /\ Write(c, {"PENDING_APPROVAL"}, "ADMITTED")
       \/ pc[c] = "decide_store" /\ Write(c, {"PENDING_APPROVAL"}, "DENIED")
       \/ pc[c] = "run_claim" /\ pc'[c] = "register" /\ Write(c, {"ADMITTED"}, "EXECUTING")
       \/ /\ pc[c] \in {"run_found", "run_store", "cancel_store"}
          /\ Write(c, {"ACCEPTED", "EXECUTING"}, "ACCEPTED")
       \/ /\ pc[c] = "close_step" /\ pc'[c] = "close_read"
          /\ Write(c, StepStates \ {"ACCEPTED"}, "FAILED_TERMINAL")
       \/ pc[c] = "cancel_mark" /\ Write(c, StepStates \ {"ACCEPTED"}, "CANCELLED")
       \/ pc[c] = "interrupt_mark" /\ Write(c, StepStates \ {"ACCEPTED"}, "INTERRUPTED")

\* Attempts are counted when a row is prepared again, and when it is executed.
AttemptTable(c) ==
    /\ \/ prepare_attempt' = prepare_attempt
       \/ /\ pc[c] = "prepare_renew" /\ step_status[Row(c).index] = "PREPARING"
          /\ prepare_attempt' = [prepare_attempt EXCEPT ![Row(c).index] = Row(c).prepare + 1]
          /\ todo'[c] = (todo[c] \ {Row(c)}) \union
                        {[Row(c) EXCEPT !.prepare = prepare_attempt'[Row(c).index]]}
    /\ \/ execution_attempt' = execution_attempt
       \/ /\ pc[c] = "run_claim" /\ pc'[c] = "register"
          /\ execution_attempt' = [execution_attempt EXCEPT ![Row(c).index] = Row(c).execution + 1]

\* The rows of a loop: those it has read, and of them those it has still to visit.
RowsAreRead(c) ==
    /\ \E S \in SUBSET Steps : todo'[c] = {StepRow(i) : i \in S}
    /\ prepare_attempt' = prepare_attempt
TodoTable(c) ==
    \/ todo'[c] \subseteq todo[c]
    \/ RowsAreRead(c)
    \/ /\ pc[c] = "prepare_renew"
       /\ todo'[c] = (todo[c] \ {Row(c)}) \union
                     {[Row(c) EXCEPT !.prepare = prepare_attempt'[Row(c).index]]}

\* The children.
MoveChild(c, before, after) ==
    /\ product[ChildOf(c)] \in before
    /\ product' = [product EXCEPT ![ChildOf(c)] = after]
ProductTable(c) ==
    /\ \/ product' = product
       \/ /\ pc[c] \in RowLabels /\ todo[c] # {}
          /\ \/ MoveChild(c, {"none"}, "pending")
             \/ pc[c] = "child_work" /\ pc'[c] = "child_accept" /\ MoveChild(c, {"pending"}, "finalizing")
             \/ MoveChild(c, {"finalizing"}, "accepted")
             \/ \E how \in Closed : MoveChild(c, {"pending"}, how)
    /\ \/ charged' = charged
       \/ pc[c] = "child_charge" /\ charged' = charged \union {ChildOf(c)}

\* The thread that executes a step, from the row it has found to its end.
RunTable(c) ==
    /\ pc'[c] \in {"run_claim"} \union ClaimedLabels \union FailureLabels \union {"run_state", "run_recover", "run_found"} =>
          todo'[c] = todo[c] /\ op'[c] = op[c]
    /\ pc'[c] = "run_claim" => pc[c] = "run_row" /\ Ready(c)
    /\ pc'[c] = "register" => pc[c] = "run_claim" /\ step_status'[Row(c).index] = "EXECUTING"
                              /\ step_status[Row(c).index] = "ADMITTED"
    /\ pc'[c] \in RunnerLabels \ {"register"} => pc[c] \in RunnerLabels
    /\ pc'[c] = "child_charge" => product[ChildOf(c)] = "pending"
    /\ pc'[c] = "child_accept" => pc[c] = "child_work"
    /\ pc'[c] = "run_store" => pc[c] = "child_accept"
    /\ pc'[c] = "run_finally" => pc[c] = "run_store"
    /\ pc'[c] = "close_step" =>
          \/ pc[c] \in RunnerLabels
          \/ pc[c] = "run_store" /\ step_status[Row(c).index] \notin {"ACCEPTED", "EXECUTING"}
          \/ /\ pc[c] = "run_state" /\ Row(c).status # "ADMITTED"
             /\ product[ChildOf(c)] \in Closed

\* What holds of a thread that comes to one of these labels.
LabelTable(c) ==
    /\ pc'[c] \in {"run_found", "run_store", "cancel_store"} =>
          /\ pc[c] \in RunRows \union CancelRow
          /\ todo'[c] = todo[c] /\ product'[ChildOf(c)] = "accepted"
    /\ pc'[c] \in FinalLabels =>
          pc[c] \in FinalLabels \/ \A i \in Steps : step_status[i] = "ACCEPTED"
    /\ pc'[c] = "close_read" =>
          pc[c] = "close_step" /\ step_status'[Row(c).index] \in {"ACCEPTED", "FAILED_TERMINAL"}
    /\ pc'[c] \in PartialLabels =>
          \/ pc[c] \in PartialLabels
          \/ pc[c] = "close_read" /\ \E i \in Steps : step_status[i] = "ACCEPTED"
    /\ pc'[c] \in CancelledLabels =>
          \/ pc[c] \in CancelledLabels
          \/ pc[c] = "cancel_check" /\ \E i \in Steps : step_status[i] # "ACCEPTED"
    /\ pc'[c] = "cancel_check" => todo'[c] = {}
    /\ pc'[c] \in CancelRow \union {"cancel_check"} =>
          \/ /\ pc[c] = "cancel_read" /\ step_status' = step_status
             /\ todo'[c] = {StepRow(i) : i \in
                              {k \in Steps : step_status[k] \notin Passed("cancel")}}
          \/ pc[c] \in CancelRow /\ todo'[c] = todo[c]
          \/ /\ pc[c] \in CancelRow /\ todo'[c] = todo[c] \ {Row(c)}
             /\ step_status'[Row(c).index] \in DoneStates

\* Grants are opened by the thread that executes the step, and it does not leave
\* the step before the grant is revoked.
GrantTable(c) ==
    /\ revoked \subseteq revoked'
    /\ \/ granted' = granted
       \/ /\ pc[c] = "register" /\ pc'[c] = "child_start"
          /\ granted' = granted \union {ChildOf(c)}
    /\ Holder(c) =>
          \/ op'[c] = op[c] /\ pc'[c] \in HolderLabels /\ todo'[c] = todo[c]
          \/ ChildOf(c) \notin granted' \ revoked'

Tables(c) ==
    /\ Alone(c) /\ StatusTable(c) /\ ClosureTable(c) /\ CallTable(c) /\ StepTable(c)
    /\ AttemptTable(c) /\ TodoTable(c) /\ ProductTable(c) /\ RunTable(c) /\ LabelTable(c)
    /\ GrantTable(c)

----------------------------------------------------------------------------
(* Rows                                                                    *)

\* A nonempty set of numbers has a least element.
LEMMA LeastIn ==
    ASSUME NEW S \in SUBSET Nat, S # {}
    PROVE  \E m \in S : \A k \in S : m <= k
<1>1. IsWellFoundedOn(OpToRel(<, Nat), Nat)
  BY NatLessThanWellFounded, Zenon
<1>2. PICK m \in S : \A k \in S : ~(<<k, m>> \in OpToRel(<, Nat))
  BY <1>1, WFMin, Zenon
<1>3. ASSUME NEW k \in S PROVE ~(k < m)
  <2>1. <<k, m>> \in Nat \X Nat /\ <<k, m>>[1] = k /\ <<k, m>>[2] = m
    OBVIOUS
  <2>2. k < m => <<k, m>> \in OpToRel(<, Nat)
    BY <2>1, Zenon DEF OpToRel
  <2> QED  BY <1>2, <2>2, Zenon
<1> QED  BY <1>3

\* Of the rows in a loop there is a first one.
LEMMA FirstRowIsRow ==
    ASSUME NEW rows \in SUBSET RowType, rows # {} PROVE FirstRow(rows) \in rows
<1> DEFINE S == {row.index : row \in rows}
<1>1. S \in SUBSET Nat /\ S # {}
  BY MultiAssumption DEF RowType, Steps
<1>2. PICK n \in S : \A m \in S : n <= m
  BY <1>1, LeastIn
<1>3. PICK row \in rows : row.index = n
  OBVIOUS
<1>4. \A other \in rows : row.index <= other.index
  BY <1>2, <1>3
<1> QED  BY <1>4 DEF FirstRow

\* The row under a loop.
LEMMA RowAtHand ==
    ASSUME TypeInv, NEW c \in Caller, todo[c] # {}
    PROVE  /\ Row(c) \in todo[c] /\ Row(c) \in RowType /\ ChildOf(c) \in Child
           /\ Row(c).index \in Steps /\ Row(c).status \in StepStates
           /\ Row(c).prepare \in 1..MaxPrepare /\ Row(c).execution \in 0..1
<1>1. Row(c) \in todo[c] /\ Row(c) \in RowType
  BY FirstRowIsRow DEF Row, TypeInv, ThreadTypes
<1> QED  BY <1>1 DEF RowType, ChildOf, Child

\* The rows that a loop reads.
LEMMA RowsRead ==
    ASSUME TypeInv, NEW c \in Caller, NEW from, NEW loop, ReadSteps(c, from, loop)
    PROVE  /\ todo' \in [Caller -> SUBSET RowType]
           /\ \A row \in todo'[c] : row.status \in EarlyStates => row.execution = 0
           /\ RowsAreRead(c)
<1> DEFINE S == {k \in Steps : step_status[k] \notin Passed(loop)}
<1>1. todo' = [todo EXCEPT ![c] = {StepRow(i) : i \in S}] /\ prepare_attempt' = prepare_attempt
  BY DEF ReadSteps, Loop, steps
<1>2. \A i \in Steps : StepRow(i) \in RowType
                       /\ (StepRow(i).status \in EarlyStates => StepRow(i).execution = 0)
  BY DEF StepRow, RowType, TypeInv, TypeOK, ThreadTypes, ExecutedOnce
<1>3. todo'[c] = {StepRow(i) : i \in S} /\ S \in SUBSET Steps
  BY <1>1 DEF TypeInv, ThreadTypes
<1>4. {StepRow(i) : i \in S} \in SUBSET RowType
  BY <1>2
<1>5. todo' \in [Caller -> SUBSET RowType]
  BY <1>1, <1>4 DEF TypeInv, ThreadTypes
<1>6. \A row \in todo'[c] : row.status \in EarlyStates => row.execution = 0
  BY <1>2, <1>3
<1>7. RowsAreRead(c)
  BY <1>1, <1>3 DEF RowsAreRead
<1> QED  BY <1>5, <1>6, <1>7

\* The row that is prepared again.
LEMMA RowRenewed ==
    ASSUME TypeInv, NEW c \in Caller, todo[c] # {}, PrepareRenew(c), pc'[c] # "prepare_fail"
    PROVE  /\ prepare_attempt' \in [Steps -> 1..MaxPrepare]
           /\ todo' \in [Caller -> SUBSET RowType] /\ todo'[c] # {}
           /\ \A row \in todo'[c] : row.status \in EarlyStates => row.execution = 0
           /\ todo'[c] = (todo[c] \ {Row(c)}) \union
                         {[Row(c) EXCEPT !.prepare = prepare_attempt'[Row(c).index]]}
<1> DEFINE row == Row(c)
           new == [row EXCEPT !.prepare = prepare_attempt'[row.index]]
<1>1. row \in todo[c] /\ row \in RowType /\ row.index \in Steps /\ row.prepare \in 1..MaxPrepare
  BY RowAtHand
<1>2. /\ todo' = [todo EXCEPT ![c] = (@ \ {row}) \union {new}]
      /\ row.prepare < MaxPrepare
      /\ \/ prepare_attempt' = [prepare_attempt EXCEPT ![row.index] = row.prepare + 1]
         \/ prepare_attempt' = prepare_attempt
  BY DEF PrepareRenew, Goto, TypeInv, ThreadTypes
<1>3. prepare_attempt' \in [Steps -> 1..MaxPrepare]
  BY <1>1, <1>2, MultiAssumption DEF TypeInv, TypeOK
<1>4. new \in RowType /\ new.status = row.status /\ new.execution = row.execution
  BY <1>1, <1>3 DEF RowType
<1>5. todo'[c] = (todo[c] \ {row}) \union {new}
  BY <1>2 DEF TypeInv, ThreadTypes
<1>6. todo' \in [Caller -> SUBSET RowType]
  BY <1>2, <1>4 DEF TypeInv, ThreadTypes
<1>7. \A other \in todo'[c] : other.status \in EarlyStates => other.execution = 0
  BY <1>1, <1>4, <1>5 DEF TypeInv, ExecutedOnce
<1> QED  BY <1>3, <1>5, <1>6, <1>7

\* An UPDATE guarded by status != 'ACCEPTED'.
LEMMA CloseRowWrites ==
    ASSUME TypeInv, NEW c \in Caller, todo[c] # {}, NEW state, CloseRow(c, state)
    PROVE  step_status' = step_status \/ Write(c, StepStates \ {"ACCEPTED"}, state)
<1>1. Row(c).index \in Steps
  BY RowAtHand
<1>2. CASE step_status[Row(c).index] = "ACCEPTED"
  BY <1>1, <1>2 DEF CloseRow, TypeInv, ThreadTypes
<1>3. CASE step_status[Row(c).index] # "ACCEPTED"
  BY <1>1, <1>3 DEF CloseRow, Write, TypeInv, ThreadTypes
<1> QED  BY <1>2, <1>3

----------------------------------------------------------------------------
(* Every step of a thread obeys the tables                                 *)

USE DEF
    TypeInv, TypeOK, ThreadTypes, OnPath, ExecutedOnce, LabelsOf, Labels, Calls, Statuses,
    JobTerminal, Terminal, Active, Unstarted, EarlyStates, ClosedStates, DoneStates, StepStates,
    RunnerLabels, ClaimedLabels, PartialLabels, FailLabels, FailureLabels, PrepareRow, DecideRow,
    RunRows, CancelRow, InterruptRow, RowLabels, FinalLabels, CancelledLabels, PrepareLabels,
    DecideLabels, FinishLabels, ResumeLabels, CancelLabels, RecoverLabels, HolderLabels,
    Tables, Alone, StatusTable, ClosureTable, CallTable, StepTable, AttemptTable, TodoTable,
    ProductTable, RunTable, LabelTable, GrantTable, Write, MoveChild, Holder, CloseLabel, Closed,
    children, parent, steps, threads, Goto, Jump, Return, Look, Row

\* The steps of prepare obey the tables.
LEMMA PrepareTables ==
    ASSUME TypeInv, NEW c \in Caller, PrepareStep(c)
    PROVE  Tables(c) /\ TypeInv'
<1> USE MultiAssumption
<1>1. /\ pc[c] \in Labels /\ op[c] \in Calls \union {"idle"} /\ todo[c] \in SUBSET RowType
      /\ pc[c] \in RowLabels => todo[c] # {}
      /\ todo[c] # {} => /\ Row(c) \in todo[c] /\ ChildOf(c) \in Child
                         /\ Row(c).index \in Steps /\ Row(c).status \in StepStates
                         /\ Row(c).prepare \in 1..MaxPrepare /\ Row(c).execution \in 0..1
  BY RowAtHand
<1>2. Tables(c) /\ OnPath' /\ ExecutedOnce'
  <2>1. CASE PrepareStart(c)
    <3>1. Alone(c) /\ StatusTable(c) /\ ClosureTable(c) /\ CallTable(c)
      BY <1>1, <2>1 DEF PrepareStart
    <3>2. StepTable(c) /\ AttemptTable(c) /\ TodoTable(c)
      BY <1>1, <2>1 DEF PrepareStart
    <3>3. ProductTable(c) /\ RunTable(c) /\ LabelTable(c) /\ GrantTable(c)
      BY <1>1, <2>1 DEF PrepareStart
    <3>4. OnPath'
      BY <1>1, <2>1 DEF PrepareStart
    <3>5. ExecutedOnce'
      BY <1>1, <2>1 DEF PrepareStart
    <3> QED  BY <3>1, <3>2, <3>3, <3>4, <3>5, Zenon
  <2>2. CASE PrepareAgain(c)
    <3>1. Alone(c) /\ StatusTable(c) /\ ClosureTable(c) /\ CallTable(c)
      BY <1>1, <2>2 DEF PrepareAgain, Enter
    <3>2. StepTable(c) /\ AttemptTable(c) /\ TodoTable(c)
      BY <1>1, <2>2 DEF PrepareAgain, Enter
    <3>3. ProductTable(c) /\ RunTable(c) /\ LabelTable(c) /\ GrantTable(c)
      BY <1>1, <2>2 DEF PrepareAgain, Enter
    <3>4. OnPath'
      BY <1>1, <2>2 DEF PrepareAgain, Enter
    <3>5. ExecutedOnce'
      BY <1>1, <2>2 DEF PrepareAgain, Enter
    <3> QED  BY <3>1, <3>2, <3>3, <3>4, <3>5, Zenon
  <2>3. CASE ReadSteps(c, "prepare_read", "prepare")
    <3>1. /\ todo' \in [Caller -> SUBSET RowType]
          /\ \A row \in todo'[c] : row.status \in EarlyStates => row.execution = 0
          /\ RowsAreRead(c)
      BY <2>3, RowsRead
    <3>2. Alone(c) /\ StatusTable(c) /\ ClosureTable(c) /\ CallTable(c)
      BY <1>1, <2>3 DEF ReadSteps, NextRow, Loop, AfterLoop, ForRow, Passed, StepRow
    <3>3. StepTable(c) /\ AttemptTable(c) /\ TodoTable(c)
      BY <2>3, <3>1 DEF ReadSteps, Loop
    <3>4. ProductTable(c) /\ RunTable(c) /\ LabelTable(c) /\ GrantTable(c)
      BY <1>1, <2>3 DEF ReadSteps, NextRow, Loop, AfterLoop, ForRow, Passed, StepRow
    <3>5. OnPath'
      BY <1>1, <2>3, <3>1 DEF ReadSteps, NextRow, Loop, AfterLoop, ForRow, Passed, StepRow
    <3>6. ExecutedOnce'
      BY <1>1, <2>3, <3>1 DEF ReadSteps, NextRow, Loop, AfterLoop, ForRow, Passed, StepRow
    <3> QED  BY <3>2, <3>3, <3>4, <3>5, <3>6, Zenon
  <2>4. CASE PrepareOrphan(c)
    BY <1>1, <2>4 DEF PrepareOrphan
  <2>5. CASE InterruptChild(c, "prepare_interrupt", "prepare_renew", "return")
    <3>1. Alone(c) /\ StatusTable(c) /\ ClosureTable(c) /\ CallTable(c)
      BY <1>1, <2>5 DEF InterruptChild, CloseProof, Move
    <3>2. StepTable(c) /\ AttemptTable(c) /\ TodoTable(c)
      BY <1>1, <2>5 DEF InterruptChild, CloseProof, Move
    <3>3. ProductTable(c) /\ RunTable(c) /\ LabelTable(c) /\ GrantTable(c)
      BY <1>1, <2>5 DEF InterruptChild, CloseProof, Move
    <3>4. OnPath'
      BY <1>1, <2>5 DEF InterruptChild, CloseProof, Move
    <3>5. ExecutedOnce'
      BY <1>1, <2>5 DEF InterruptChild, CloseProof, Move
    <3> QED  BY <3>1, <3>2, <3>3, <3>4, <3>5, Zenon
  <2>6. CASE PrepareRenew(c)
    <3>1. pc'[c] # "prepare_fail" =>
           /\ prepare_attempt' \in [Steps -> 1..MaxPrepare]
           /\ todo' \in [Caller -> SUBSET RowType] /\ todo'[c] # {}
           /\ \A row \in todo'[c] : row.status \in EarlyStates => row.execution = 0
           /\ todo'[c] = (todo[c] \ {Row(c)}) \union
                         {[Row(c) EXCEPT !.prepare = prepare_attempt'[Row(c).index]]}
      BY <2>6, RowRenewed DEF PrepareRenew
    <3>2. Alone(c) /\ StatusTable(c) /\ ClosureTable(c) /\ CallTable(c)
      BY <1>1, <2>6 DEF PrepareRenew, SetStep
    <3>3. StepTable(c) /\ AttemptTable(c) /\ TodoTable(c)
      BY <1>1, <2>6, <3>1 DEF PrepareRenew, SetStep
    <3>4. ProductTable(c) /\ RunTable(c) /\ LabelTable(c) /\ GrantTable(c)
      BY <1>1, <2>6 DEF PrepareRenew, SetStep
    <3>5. OnPath'
      BY <1>1, <2>6, <3>1 DEF PrepareRenew, SetStep
    <3>6. ExecutedOnce'
      BY <1>1, <2>6, <3>1 DEF PrepareRenew, SetStep
    <3> QED  BY <3>2, <3>3, <3>4, <3>5, <3>6, Zenon
  <2>7. CASE PrepareClaim(c)
    <3>1. Alone(c) /\ StatusTable(c) /\ ClosureTable(c) /\ CallTable(c)
      BY <1>1, <2>7 DEF PrepareClaim, SwapStep, SetStep, Loops, NextRow, Loop, AfterLoop, ForRow
    <3>2. StepTable(c) /\ AttemptTable(c) /\ TodoTable(c)
      BY <1>1, <2>7 DEF PrepareClaim, SwapStep, SetStep, Loops, NextRow, Loop, AfterLoop, ForRow
    <3>3. ProductTable(c) /\ RunTable(c) /\ LabelTable(c) /\ GrantTable(c)
      BY <1>1, <2>7 DEF PrepareClaim, SwapStep, SetStep, Loops, NextRow, Loop, AfterLoop, ForRow
    <3>4. OnPath'
      BY <1>1, <2>7 DEF PrepareClaim, SwapStep, SetStep, Loops, NextRow, Loop, AfterLoop, ForRow
    <3>5. ExecutedOnce'
      BY <1>1, <2>7 DEF PrepareClaim, SwapStep, SetStep, Loops, NextRow, Loop, AfterLoop, ForRow
    <3> QED  BY <3>1, <3>2, <3>3, <3>4, <3>5, Zenon
  <2>8. CASE PrepareChild(c)
    BY <1>1, <2>8 DEF PrepareChild, PrepareProof, Move
  <2>9. CASE PrepareStore(c)
    <3>1. Alone(c) /\ StatusTable(c) /\ ClosureTable(c) /\ CallTable(c)
      BY <1>1, <2>9 DEF PrepareStore, SwapStep, SetStep, Loops, NextRow, Loop, AfterLoop, ForRow
    <3>2. StepTable(c) /\ AttemptTable(c) /\ TodoTable(c)
      BY <1>1, <2>9 DEF PrepareStore, SwapStep, SetStep, Loops, NextRow, Loop, AfterLoop, ForRow
    <3>3. ProductTable(c) /\ RunTable(c) /\ LabelTable(c) /\ GrantTable(c)
      BY <1>1, <2>9 DEF PrepareStore, SwapStep, SetStep, Loops, NextRow, Loop, AfterLoop, ForRow
    <3>4. OnPath'
      BY <1>1, <2>9 DEF PrepareStore, SwapStep, SetStep, Loops, NextRow, Loop, AfterLoop, ForRow
    <3>5. ExecutedOnce'
      BY <1>1, <2>9 DEF PrepareStore, SwapStep, SetStep, Loops, NextRow, Loop, AfterLoop, ForRow
    <3> QED  BY <3>1, <3>2, <3>3, <3>4, <3>5, Zenon
  <2>10. CASE PrepareFailed(c)
    <3>1. Write(c, StepStates, "FAILED_TERMINAL")
      BY <1>1, <2>10 DEF PrepareFailed, SetStep
    <3>2. Alone(c) /\ StatusTable(c) /\ ClosureTable(c) /\ CallTable(c)
      BY <1>1, <2>10 DEF PrepareFailed, SetStep
    <3>3. StepTable(c) /\ AttemptTable(c) /\ TodoTable(c)
      BY <1>1, <2>10, <3>1 DEF PrepareFailed, SetStep
    <3>4. ProductTable(c) /\ RunTable(c) /\ LabelTable(c) /\ GrantTable(c)
      BY <1>1, <2>10 DEF PrepareFailed, SetStep
    <3>5. OnPath'
      BY <1>1, <2>10, <3>1 DEF PrepareFailed, SetStep
    <3>6. ExecutedOnce'
      BY <1>1, <2>10, <3>1 DEF PrepareFailed, SetStep
    <3> QED  BY <3>2, <3>3, <3>4, <3>5, <3>6, Zenon
  <2>11. CASE TransitionTo(c, "prepare_fail", "FAILED_TERMINAL", "close_failed", "return")
    <3>1. Alone(c) /\ StatusTable(c) /\ ClosureTable(c) /\ CallTable(c)
      BY <1>1, <2>11 DEF TransitionTo, CanSwap, AllowedTransitions
    <3>2. StepTable(c) /\ AttemptTable(c) /\ TodoTable(c)
      BY <1>1, <2>11 DEF TransitionTo, CanSwap, AllowedTransitions
    <3>3. ProductTable(c) /\ RunTable(c) /\ LabelTable(c) /\ GrantTable(c)
      BY <1>1, <2>11 DEF TransitionTo, CanSwap, AllowedTransitions
    <3>4. OnPath'
      BY <1>1, <2>11 DEF TransitionTo, CanSwap, AllowedTransitions
    <3>5. ExecutedOnce'
      BY SMTT(20), <1>1, <2>11 DEF TransitionTo, CanSwap, AllowedTransitions
    <3> QED  BY <3>1, <3>2, <3>3, <3>4, <3>5, Zenon
  <2>12. CASE PrepareFinish(c)
    <3>1. Alone(c) /\ StatusTable(c) /\ ClosureTable(c) /\ CallTable(c)
      BY <1>1, <2>12 DEF PrepareFinish
    <3>2. StepTable(c) /\ AttemptTable(c) /\ TodoTable(c)
      BY <1>1, <2>12 DEF PrepareFinish
    <3>3. ProductTable(c) /\ RunTable(c) /\ LabelTable(c) /\ GrantTable(c)
      BY <1>1, <2>12 DEF PrepareFinish
    <3>4. OnPath'
      BY <1>1, <2>12 DEF PrepareFinish
    <3>5. ExecutedOnce'
      BY <1>1, <2>12 DEF PrepareFinish
    <3> QED  BY <3>1, <3>2, <3>3, <3>4, <3>5, Zenon
  <2>13. CASE TransitionTo(c, "to_approval", "PENDING_APPROVAL", "return", "return")
    <3>1. Alone(c) /\ StatusTable(c) /\ ClosureTable(c) /\ CallTable(c)
      BY <1>1, <2>13 DEF TransitionTo, CanSwap, AllowedTransitions
    <3>2. StepTable(c) /\ AttemptTable(c) /\ TodoTable(c)
      BY <1>1, <2>13 DEF TransitionTo, CanSwap, AllowedTransitions
    <3>3. ProductTable(c) /\ RunTable(c) /\ LabelTable(c) /\ GrantTable(c)
      BY <1>1, <2>13 DEF TransitionTo, CanSwap, AllowedTransitions
    <3>4. OnPath'
      BY <1>1, <2>13 DEF TransitionTo, CanSwap, AllowedTransitions
    <3>5. ExecutedOnce'
      BY SMTT(20), <1>1, <2>13 DEF TransitionTo, CanSwap, AllowedTransitions
    <3> QED  BY <3>1, <3>2, <3>3, <3>4, <3>5, Zenon
  <2>14. CASE TransitionTo(c, "to_admitted", "ADMITTED", "return", "return")
    <3>1. Alone(c) /\ StatusTable(c) /\ ClosureTable(c) /\ CallTable(c)
      BY <1>1, <2>14 DEF TransitionTo, CanSwap, AllowedTransitions
    <3>2. StepTable(c) /\ AttemptTable(c) /\ TodoTable(c)
      BY <1>1, <2>14 DEF TransitionTo, CanSwap, AllowedTransitions
    <3>3. ProductTable(c) /\ RunTable(c) /\ LabelTable(c) /\ GrantTable(c)
      BY <1>1, <2>14 DEF TransitionTo, CanSwap, AllowedTransitions
    <3>4. OnPath'
      BY <1>1, <2>14 DEF TransitionTo, CanSwap, AllowedTransitions
    <3>5. ExecutedOnce'
      BY SMTT(20), <1>1, <2>14 DEF TransitionTo, CanSwap, AllowedTransitions
    <3> QED  BY <3>1, <3>2, <3>3, <3>4, <3>5, Zenon
  <2> QED  BY <2>1, <2>2, <2>3, <2>4, <2>5, <2>6, <2>7, <2>8, <2>9, <2>10, <2>11, <2>12, <2>13,
              <2>14, Zenon DEF PrepareStep
<1>3. TypeOK' /\ ThreadTypes'
  <2> HIDE DEF OnPath, ExecutedOnce
  <2>1. CASE PrepareStart(c)
    BY <1>1, <2>1 DEF PrepareStart
  <2>2. CASE PrepareAgain(c)
    BY <1>1, <2>2 DEF PrepareAgain, Enter
  <2>3. CASE ReadSteps(c, "prepare_read", "prepare")
    <3>1. todo' \in [Caller -> SUBSET RowType]
      BY <2>3, RowsRead
    <3> QED  BY <1>1, <2>3, <3>1 DEF ReadSteps, Loop, AfterLoop, ForRow
  <2>4. CASE PrepareOrphan(c)
    BY <1>1, <2>4 DEF PrepareOrphan
  <2>5. CASE InterruptChild(c, "prepare_interrupt", "prepare_renew", "return")
    BY <1>1, <2>5 DEF InterruptChild, CloseProof, Move
  <2>6. CASE PrepareRenew(c)
    <3>1. todo' \in [Caller -> SUBSET RowType] /\ prepare_attempt' \in [Steps -> 1..MaxPrepare]
      BY <1>1, <2>6, RowRenewed DEF PrepareRenew
    <3> QED  BY <1>1, <2>6, <3>1 DEF PrepareRenew, SetStep
  <2>7. CASE PrepareClaim(c)
    BY <1>1, <2>7 DEF PrepareClaim, SwapStep, SetStep, Loops, NextRow, Loop, AfterLoop, ForRow
  <2>8. CASE PrepareChild(c)
    BY <1>1, <2>8 DEF PrepareChild, PrepareProof, Move
  <2>9. CASE PrepareStore(c)
    BY <1>1, <2>9 DEF PrepareStore, SwapStep, SetStep, Loops, NextRow, Loop, AfterLoop, ForRow
  <2>10. CASE PrepareFailed(c)
    BY <1>1, <2>10 DEF PrepareFailed, SetStep
  <2>11. CASE TransitionTo(c, "prepare_fail", "FAILED_TERMINAL", "close_failed", "return")
    BY <1>1, <2>11 DEF TransitionTo, CanSwap, AllowedTransitions
  <2>12. CASE PrepareFinish(c)
    BY <1>1, <2>12 DEF PrepareFinish
  <2>13. CASE TransitionTo(c, "to_approval", "PENDING_APPROVAL", "return", "return")
    BY <1>1, <2>13 DEF TransitionTo, CanSwap, AllowedTransitions
  <2>14. CASE TransitionTo(c, "to_admitted", "ADMITTED", "return", "return")
    BY <1>1, <2>14 DEF TransitionTo, CanSwap, AllowedTransitions
  <2> QED  BY <2>1, <2>2, <2>3, <2>4, <2>5, <2>6, <2>7, <2>8, <2>9, <2>10, <2>11, <2>12, <2>13,
              <2>14, Zenon DEF PrepareStep
<1> QED  BY <1>2, <1>3, Zenon

\* The steps of decide obey the tables.
LEMMA DecideTables ==
    ASSUME TypeInv, NEW c \in Caller, DecideStep(c)
    PROVE  Tables(c) /\ TypeInv'
<1> USE MultiAssumption
<1>1. /\ pc[c] \in Labels /\ op[c] \in Calls \union {"idle"} /\ todo[c] \in SUBSET RowType
      /\ pc[c] \in RowLabels => todo[c] # {}
      /\ todo[c] # {} => /\ Row(c) \in todo[c] /\ ChildOf(c) \in Child
                         /\ Row(c).index \in Steps /\ Row(c).status \in StepStates
                         /\ Row(c).prepare \in 1..MaxPrepare /\ Row(c).execution \in 0..1
  BY RowAtHand
<1>2. Tables(c) /\ OnPath' /\ ExecutedOnce'
  <2>1. CASE \E call \in {"approve", "deny"} : DecideStart(c, call)
    <3>1. Alone(c) /\ StatusTable(c) /\ ClosureTable(c) /\ CallTable(c)
      BY <1>1, <2>1 DEF DecideStart, Enter
    <3>2. StepTable(c) /\ AttemptTable(c) /\ TodoTable(c)
      BY <1>1, <2>1 DEF DecideStart, Enter
    <3>3. ProductTable(c) /\ RunTable(c) /\ LabelTable(c) /\ GrantTable(c)
      BY <1>1, <2>1 DEF DecideStart, Enter
    <3>4. OnPath'
      BY <1>1, <2>1 DEF DecideStart, Enter
    <3>5. ExecutedOnce'
      BY <1>1, <2>1 DEF DecideStart, Enter
    <3> QED  BY <3>1, <3>2, <3>3, <3>4, <3>5, Zenon
  <2>2. CASE ReadSteps(c, "decide_read", "decide")
    <3>1. /\ todo' \in [Caller -> SUBSET RowType]
          /\ \A row \in todo'[c] : row.status \in EarlyStates => row.execution = 0
          /\ RowsAreRead(c)
      BY <2>2, RowsRead
    <3>2. Alone(c) /\ StatusTable(c) /\ ClosureTable(c) /\ CallTable(c)
      BY <1>1, <2>2 DEF ReadSteps, NextRow, Loop, AfterLoop, ForRow, Passed, StepRow
    <3>3. StepTable(c) /\ AttemptTable(c) /\ TodoTable(c)
      BY <2>2, <3>1 DEF ReadSteps, Loop
    <3>4. ProductTable(c) /\ RunTable(c) /\ LabelTable(c) /\ GrantTable(c)
      BY <1>1, <2>2 DEF ReadSteps, NextRow, Loop, AfterLoop, ForRow, Passed, StepRow
    <3>5. OnPath'
      BY <1>1, <2>2, <3>1 DEF ReadSteps, NextRow, Loop, AfterLoop, ForRow, Passed, StepRow
    <3>6. ExecutedOnce'
      BY <1>1, <2>2, <3>1 DEF ReadSteps, NextRow, Loop, AfterLoop, ForRow, Passed, StepRow
    <3> QED  BY <3>2, <3>3, <3>4, <3>5, <3>6, Zenon
  <2>3. CASE DecideChild(c)
    <3>1. Alone(c) /\ StatusTable(c) /\ ClosureTable(c) /\ CallTable(c)
      BY <1>1, <2>3 DEF DecideChild, Decision
    <3>2. StepTable(c) /\ AttemptTable(c) /\ TodoTable(c)
      BY <1>1, <2>3 DEF DecideChild, Decision
    <3>3. ProductTable(c) /\ RunTable(c) /\ LabelTable(c) /\ GrantTable(c)
      BY <1>1, <2>3 DEF DecideChild, Decision
    <3>4. OnPath'
      BY <1>1, <2>3 DEF DecideChild, Decision
    <3>5. ExecutedOnce'
      BY <1>1, <2>3 DEF DecideChild, Decision
    <3> QED  BY <3>1, <3>2, <3>3, <3>4, <3>5, Zenon
  <2>4. CASE DecideStore(c)
    <3>1. Alone(c) /\ StatusTable(c) /\ ClosureTable(c) /\ CallTable(c)
      BY <1>1, <2>4 DEF DecideStore, SwapStep, SetStep, Loops, NextRow, Loop, AfterLoop, ForRow
    <3>2. StepTable(c) /\ AttemptTable(c) /\ TodoTable(c)
      BY <1>1, <2>4 DEF DecideStore, SwapStep, SetStep, Loops, NextRow, Loop, AfterLoop, ForRow
    <3>3. ProductTable(c) /\ RunTable(c) /\ LabelTable(c) /\ GrantTable(c)
      BY <1>1, <2>4 DEF DecideStore, SwapStep, SetStep, Loops, NextRow, Loop, AfterLoop, ForRow
    <3>4. OnPath'
      BY <1>1, <2>4 DEF DecideStore, SwapStep, SetStep, Loops, NextRow, Loop, AfterLoop, ForRow
    <3>5. ExecutedOnce'
      BY <1>1, <2>4 DEF DecideStore, SwapStep, SetStep, Loops, NextRow, Loop, AfterLoop, ForRow
    <3> QED  BY <3>1, <3>2, <3>3, <3>4, <3>5, Zenon
  <2>5. CASE op[c] = "approve" /\ TransitionTo(c, "decide_swap", "ADMITTED", "return", "return")
    <3>1. Alone(c) /\ StatusTable(c) /\ ClosureTable(c) /\ CallTable(c)
      BY <1>1, <2>5 DEF TransitionTo, CanSwap, AllowedTransitions
    <3>2. StepTable(c) /\ AttemptTable(c) /\ TodoTable(c)
      BY <1>1, <2>5 DEF TransitionTo, CanSwap, AllowedTransitions
    <3>3. ProductTable(c) /\ RunTable(c) /\ LabelTable(c) /\ GrantTable(c)
      BY <1>1, <2>5 DEF TransitionTo, CanSwap, AllowedTransitions
    <3>4. OnPath'
      BY <1>1, <2>5 DEF TransitionTo, CanSwap, AllowedTransitions
    <3>5. ExecutedOnce'
      BY SMTT(20), <1>1, <2>5 DEF TransitionTo, CanSwap, AllowedTransitions
    <3> QED  BY <3>1, <3>2, <3>3, <3>4, <3>5, Zenon
  <2>6. CASE op[c] = "deny" /\ TransitionTo(c, "decide_swap", "DENIED", "close_denied", "return")
    <3>1. Alone(c) /\ StatusTable(c) /\ ClosureTable(c) /\ CallTable(c)
      BY <1>1, <2>6 DEF TransitionTo, CanSwap, AllowedTransitions
    <3>2. StepTable(c) /\ AttemptTable(c) /\ TodoTable(c)
      BY <1>1, <2>6 DEF TransitionTo, CanSwap, AllowedTransitions
    <3>3. ProductTable(c) /\ RunTable(c) /\ LabelTable(c) /\ GrantTable(c)
      BY <1>1, <2>6 DEF TransitionTo, CanSwap, AllowedTransitions
    <3>4. OnPath'
      BY <1>1, <2>6 DEF TransitionTo, CanSwap, AllowedTransitions
    <3>5. ExecutedOnce'
      BY SMTT(20), <1>1, <2>6 DEF TransitionTo, CanSwap, AllowedTransitions
    <3> QED  BY <3>1, <3>2, <3>3, <3>4, <3>5, Zenon
  <2>7. CASE RecordClosure(c, "close_denied", "DENIED", "return")
    <3>1. Alone(c) /\ StatusTable(c) /\ ClosureTable(c) /\ CallTable(c)
      BY <1>1, <2>7 DEF RecordClosure
    <3>2. StepTable(c) /\ AttemptTable(c) /\ TodoTable(c)
      BY <1>1, <2>7 DEF RecordClosure
    <3>3. ProductTable(c) /\ RunTable(c) /\ LabelTable(c) /\ GrantTable(c)
      BY <1>1, <2>7 DEF RecordClosure
    <3>4. OnPath'
      BY <1>1, <2>7 DEF RecordClosure
    <3>5. ExecutedOnce'
      BY <1>1, <2>7 DEF RecordClosure
    <3> QED  BY <3>1, <3>2, <3>3, <3>4, <3>5, Zenon
  <2> QED  BY <2>1, <2>2, <2>3, <2>4, <2>5, <2>6, <2>7, Zenon DEF DecideStep
<1>3. TypeOK' /\ ThreadTypes'
  <2> HIDE DEF OnPath, ExecutedOnce
  <2>1. CASE \E call \in {"approve", "deny"} : DecideStart(c, call)
    BY <1>1, <2>1 DEF DecideStart, Enter
  <2>2. CASE ReadSteps(c, "decide_read", "decide")
    <3>1. todo' \in [Caller -> SUBSET RowType]
      BY <2>2, RowsRead
    <3> QED  BY <1>1, <2>2, <3>1 DEF ReadSteps, Loop, AfterLoop, ForRow
  <2>3. CASE DecideChild(c)
    BY <1>1, <2>3 DEF DecideChild, Decision
  <2>4. CASE DecideStore(c)
    BY <1>1, <2>4 DEF DecideStore, SwapStep, SetStep, Loops, NextRow, Loop, AfterLoop, ForRow
  <2>5. CASE op[c] = "approve" /\ TransitionTo(c, "decide_swap", "ADMITTED", "return", "return")
    BY <1>1, <2>5 DEF TransitionTo, CanSwap, AllowedTransitions
  <2>6. CASE op[c] = "deny" /\ TransitionTo(c, "decide_swap", "DENIED", "close_denied", "return")
    BY <1>1, <2>6 DEF TransitionTo, CanSwap, AllowedTransitions
  <2>7. CASE RecordClosure(c, "close_denied", "DENIED", "return")
    BY <1>1, <2>7 DEF RecordClosure
  <2> QED  BY <2>1, <2>2, <2>3, <2>4, <2>5, <2>6, <2>7, Zenon DEF DecideStep
<1> QED  BY <1>2, <1>3, Zenon

\* The steps of _close_multi_failure obey the tables.
LEMMA FailureTables ==
    ASSUME TypeInv, NEW c \in Caller, CloseFailure(c)
    PROVE  Tables(c) /\ TypeInv'
<1> USE MultiAssumption
<1>1. /\ pc[c] \in Labels /\ op[c] \in Calls \union {"idle"} /\ todo[c] \in SUBSET RowType
      /\ pc[c] \in RowLabels => todo[c] # {}
      /\ todo[c] # {} => /\ Row(c) \in todo[c] /\ ChildOf(c) \in Child
                         /\ Row(c).index \in Steps /\ Row(c).status \in StepStates
                         /\ Row(c).prepare \in 1..MaxPrepare /\ Row(c).execution \in 0..1
  BY RowAtHand
<1>2. Tables(c) /\ OnPath' /\ ExecutedOnce'
  <2>1. CASE CloseStep(c)
    <3>1. step_status' = step_status \/ Write(c, StepStates \ {"ACCEPTED"}, "FAILED_TERMINAL")
      BY <2>1, CloseRowWrites DEF CloseStep
    <3>2. Alone(c) /\ StatusTable(c) /\ ClosureTable(c) /\ CallTable(c)
      BY <1>1, <2>1 DEF CloseStep, CloseRow
    <3>3. StepTable(c) /\ AttemptTable(c) /\ TodoTable(c)
      BY <1>1, <2>1, <3>1 DEF CloseStep
    <3>4. ProductTable(c) /\ RunTable(c) /\ LabelTable(c) /\ GrantTable(c)
      BY <1>1, <2>1 DEF CloseStep, CloseRow
    <3>5. OnPath'
      BY <1>1, <2>1, <3>1 DEF CloseStep, CloseRow
    <3>6. ExecutedOnce'
      BY <1>1, <2>1, <3>1 DEF CloseStep, CloseRow
    <3> QED  BY <3>2, <3>3, <3>4, <3>5, <3>6, Zenon
  <2>2. CASE CloseRead(c)
    BY <1>1, <2>2 DEF CloseRead, ReadStatus
  <2>3. CASE EndJob(c, "partial_job", "partial_job_again", "partial_write", "FAILED", "partial_swap",
             "run_end")
    <3>1. Alone(c) /\ StatusTable(c) /\ ClosureTable(c) /\ CallTable(c)
      BY <1>1, <2>3 DEF EndJob, ReadJob, WriteJob
    <3>2. StepTable(c) /\ AttemptTable(c) /\ TodoTable(c)
      BY <1>1, <2>3 DEF EndJob, ReadJob, WriteJob
    <3>3. ProductTable(c) /\ RunTable(c) /\ LabelTable(c) /\ GrantTable(c)
      BY <1>1, <2>3 DEF EndJob, ReadJob, WriteJob
    <3>4. OnPath'
      BY <1>1, <2>3 DEF EndJob, ReadJob, WriteJob
    <3>5. ExecutedOnce'
      BY <1>1, <2>3 DEF EndJob, ReadJob, WriteJob
    <3> QED  BY <3>1, <3>2, <3>3, <3>4, <3>5, Zenon
  <2>4. CASE EndJob(c, "fail_job", "fail_job_again", "fail_write", "FAILED", "fail_swap", "run_end")
    <3>1. Alone(c) /\ StatusTable(c) /\ ClosureTable(c) /\ CallTable(c)
      BY <1>1, <2>4 DEF EndJob, ReadJob, WriteJob
    <3>2. StepTable(c) /\ AttemptTable(c) /\ TodoTable(c)
      BY <1>1, <2>4 DEF EndJob, ReadJob, WriteJob
    <3>3. ProductTable(c) /\ RunTable(c) /\ LabelTable(c) /\ GrantTable(c)
      BY <1>1, <2>4 DEF EndJob, ReadJob, WriteJob
    <3>4. OnPath'
      BY <1>1, <2>4 DEF EndJob, ReadJob, WriteJob
    <3>5. ExecutedOnce'
      BY <1>1, <2>4 DEF EndJob, ReadJob, WriteJob
    <3> QED  BY <3>1, <3>2, <3>3, <3>4, <3>5, Zenon
  <2>5. CASE TransitionTo(c, "partial_swap", "PARTIAL", "close_partial", "run_end")
    <3>1. Alone(c) /\ StatusTable(c) /\ ClosureTable(c) /\ CallTable(c)
      BY <1>1, <2>5 DEF TransitionTo, CanSwap, AllowedTransitions
    <3>2. StepTable(c) /\ AttemptTable(c) /\ TodoTable(c)
      BY <1>1, <2>5 DEF TransitionTo, CanSwap, AllowedTransitions
    <3>3. ProductTable(c) /\ RunTable(c) /\ LabelTable(c) /\ GrantTable(c)
      BY <1>1, <2>5 DEF TransitionTo, CanSwap, AllowedTransitions
    <3>4. OnPath'
      BY <1>1, <2>5 DEF TransitionTo, CanSwap, AllowedTransitions
    <3>5. ExecutedOnce'
      BY SMTT(20), <1>1, <2>5 DEF TransitionTo, CanSwap, AllowedTransitions
    <3> QED  BY <3>1, <3>2, <3>3, <3>4, <3>5, Zenon
  <2>6. CASE RecordClosure(c, "close_partial", "PARTIAL", "run_end")
    <3>1. Alone(c) /\ StatusTable(c) /\ ClosureTable(c) /\ CallTable(c)
      BY <1>1, <2>6 DEF RecordClosure
    <3>2. StepTable(c) /\ AttemptTable(c) /\ TodoTable(c)
      BY <1>1, <2>6 DEF RecordClosure
    <3>3. ProductTable(c) /\ RunTable(c) /\ LabelTable(c) /\ GrantTable(c)
      BY <1>1, <2>6 DEF RecordClosure
    <3>4. OnPath'
      BY <1>1, <2>6 DEF RecordClosure
    <3>5. ExecutedOnce'
      BY <1>1, <2>6 DEF RecordClosure
    <3> QED  BY <3>1, <3>2, <3>3, <3>4, <3>5, Zenon
  <2>7. CASE TransitionTo(c, "fail_swap", "FAILED_TERMINAL", "close_failed", "run_end")
    <3>1. Alone(c) /\ StatusTable(c) /\ ClosureTable(c) /\ CallTable(c)
      BY <1>1, <2>7 DEF TransitionTo, CanSwap, AllowedTransitions
    <3>2. StepTable(c) /\ AttemptTable(c) /\ TodoTable(c)
      BY <1>1, <2>7 DEF TransitionTo, CanSwap, AllowedTransitions
    <3>3. ProductTable(c) /\ RunTable(c) /\ LabelTable(c) /\ GrantTable(c)
      BY <1>1, <2>7 DEF TransitionTo, CanSwap, AllowedTransitions
    <3>4. OnPath'
      BY <1>1, <2>7 DEF TransitionTo, CanSwap, AllowedTransitions
    <3>5. ExecutedOnce'
      BY SMTT(20), <1>1, <2>7 DEF TransitionTo, CanSwap, AllowedTransitions
    <3> QED  BY <3>1, <3>2, <3>3, <3>4, <3>5, Zenon
  <2> QED  BY <2>1, <2>2, <2>3, <2>4, <2>5, <2>6, <2>7, Zenon DEF CloseFailure
<1>3. TypeOK' /\ ThreadTypes'
  <2> HIDE DEF OnPath, ExecutedOnce
  <2>1. CASE CloseStep(c)
    BY <1>1, <2>1 DEF CloseStep, CloseRow
  <2>2. CASE CloseRead(c)
    BY <1>1, <2>2 DEF CloseRead, ReadStatus
  <2>3. CASE EndJob(c, "partial_job", "partial_job_again", "partial_write", "FAILED", "partial_swap",
             "run_end")
    BY <1>1, <2>3 DEF EndJob, ReadJob, WriteJob
  <2>4. CASE EndJob(c, "fail_job", "fail_job_again", "fail_write", "FAILED", "fail_swap", "run_end")
    BY <1>1, <2>4 DEF EndJob, ReadJob, WriteJob
  <2>5. CASE TransitionTo(c, "partial_swap", "PARTIAL", "close_partial", "run_end")
    BY <1>1, <2>5 DEF TransitionTo, CanSwap, AllowedTransitions
  <2>6. CASE RecordClosure(c, "close_partial", "PARTIAL", "run_end")
    BY <1>1, <2>6 DEF RecordClosure
  <2>7. CASE TransitionTo(c, "fail_swap", "FAILED_TERMINAL", "close_failed", "run_end")
    BY <1>1, <2>7 DEF TransitionTo, CanSwap, AllowedTransitions
  <2> QED  BY <2>1, <2>2, <2>3, <2>4, <2>5, <2>6, <2>7, Zenon DEF CloseFailure
<1> QED  BY <1>2, <1>3, Zenon

\* The steps of _finalize_multi obey the tables.
LEMMA FinalizeTables ==
    ASSUME TypeInv, NEW c \in Caller, FinalizeMulti(c)
    PROVE  Tables(c) /\ TypeInv'
<1> USE MultiAssumption
<1>1. /\ pc[c] \in Labels /\ op[c] \in Calls \union {"idle"} /\ todo[c] \in SUBSET RowType
      /\ pc[c] \in RowLabels => todo[c] # {}
      /\ todo[c] # {} => /\ Row(c) \in todo[c] /\ ChildOf(c) \in Child
                         /\ Row(c).index \in Steps /\ Row(c).status \in StepStates
                         /\ Row(c).prepare \in 1..MaxPrepare /\ Row(c).execution \in 0..1
  BY RowAtHand
<1>2. Tables(c) /\ OnPath' /\ ExecutedOnce'
  <2>1. CASE FinalizeCheck(c)
    BY <1>1, <2>1 DEF FinalizeCheck
  <2>2. CASE FinalJob(c)
    BY <1>1, <2>2 DEF FinalJob
  <2>3. CASE WriteJob(c, "final_validating", "VALIDATING", "final_job")
    BY <1>1, <2>3 DEF WriteJob
  <2>4. CASE WriteJob(c, "final_completed", "COMPLETED", "accept")
    BY <1>1, <2>4 DEF WriteJob
  <2>5. CASE Accept(c)
    <3>1. Alone(c) /\ StatusTable(c) /\ ClosureTable(c) /\ CallTable(c)
      BY <1>1, <2>5 DEF Accept, TransitionTo, CanSwap, AllowedTransitions
    <3>2. StepTable(c) /\ AttemptTable(c) /\ TodoTable(c)
      BY <1>1, <2>5 DEF Accept, TransitionTo, CanSwap, AllowedTransitions
    <3>3. ProductTable(c) /\ RunTable(c) /\ LabelTable(c) /\ GrantTable(c)
      BY <1>1, <2>5 DEF Accept, TransitionTo, CanSwap, AllowedTransitions
    <3>4. OnPath'
      BY <1>1, <2>5 DEF Accept, TransitionTo, CanSwap, AllowedTransitions
    <3>5. ExecutedOnce'
      BY <1>1, <2>5 DEF Accept, TransitionTo, CanSwap, AllowedTransitions
    <3> QED  BY <3>1, <3>2, <3>3, <3>4, <3>5, Zenon
  <2>6. CASE RecordClosure(c, "close_accepted", "ACCEPTED", "return")
    <3>1. Alone(c) /\ StatusTable(c) /\ ClosureTable(c) /\ CallTable(c)
      BY <1>1, <2>6 DEF RecordClosure
    <3>2. StepTable(c) /\ AttemptTable(c) /\ TodoTable(c)
      BY <1>1, <2>6 DEF RecordClosure
    <3>3. ProductTable(c) /\ RunTable(c) /\ LabelTable(c) /\ GrantTable(c)
      BY <1>1, <2>6 DEF RecordClosure
    <3>4. OnPath'
      BY <1>1, <2>6 DEF RecordClosure
    <3>5. ExecutedOnce'
      BY <1>1, <2>6 DEF RecordClosure
    <3> QED  BY <3>1, <3>2, <3>3, <3>4, <3>5, Zenon
  <2> QED  BY <2>1, <2>2, <2>3, <2>4, <2>5, <2>6, Zenon DEF FinalizeMulti
<1>3. TypeOK' /\ ThreadTypes'
  <2> HIDE DEF OnPath, ExecutedOnce
  <2>1. CASE FinalizeCheck(c)
    BY <1>1, <2>1 DEF FinalizeCheck
  <2>2. CASE FinalJob(c)
    BY <1>1, <2>2 DEF FinalJob
  <2>3. CASE WriteJob(c, "final_validating", "VALIDATING", "final_job")
    BY <1>1, <2>3 DEF WriteJob
  <2>4. CASE WriteJob(c, "final_completed", "COMPLETED", "accept")
    BY <1>1, <2>4 DEF WriteJob
  <2>5. CASE Accept(c)
    BY <1>1, <2>5 DEF Accept, TransitionTo, CanSwap, AllowedTransitions
  <2>6. CASE RecordClosure(c, "close_accepted", "ACCEPTED", "return")
    BY <1>1, <2>6 DEF RecordClosure
  <2> QED  BY <2>1, <2>2, <2>3, <2>4, <2>5, <2>6, Zenon DEF FinalizeMulti
<1> QED  BY <1>2, <1>3, Zenon

\* The steps of resume obey the tables.
LEMMA ResumeTables ==
    ASSUME TypeInv, NEW c \in Caller, ResumeStep(c)
    PROVE  Tables(c) /\ TypeInv'
<1> USE MultiAssumption
<1>1. /\ pc[c] \in Labels /\ op[c] \in Calls \union {"idle"} /\ todo[c] \in SUBSET RowType
      /\ pc[c] \in RowLabels => todo[c] # {}
      /\ todo[c] # {} => /\ Row(c) \in todo[c] /\ ChildOf(c) \in Child
                         /\ Row(c).index \in Steps /\ Row(c).status \in StepStates
                         /\ Row(c).prepare \in 1..MaxPrepare /\ Row(c).execution \in 0..1
  BY RowAtHand
<1>2. Tables(c) /\ OnPath' /\ ExecutedOnce'
  <2>1. CASE ResumeStart(c)
    <3>1. Alone(c) /\ StatusTable(c) /\ ClosureTable(c) /\ CallTable(c)
      BY <1>1, <2>1 DEF ResumeStart, Enter
    <3>2. StepTable(c) /\ AttemptTable(c) /\ TodoTable(c)
      BY <1>1, <2>1 DEF ResumeStart, Enter
    <3>3. ProductTable(c) /\ RunTable(c) /\ LabelTable(c) /\ GrantTable(c)
      BY <1>1, <2>1 DEF ResumeStart, Enter
    <3>4. OnPath'
      BY <1>1, <2>1 DEF ResumeStart, Enter
    <3>5. ExecutedOnce'
      BY <1>1, <2>1 DEF ResumeStart, Enter
    <3> QED  BY <3>1, <3>2, <3>3, <3>4, <3>5, Zenon
  <2>2. CASE TransitionTo(c, "expire", "FAILED_TERMINAL", "close_failed", "raised")
    <3>1. Alone(c) /\ StatusTable(c) /\ ClosureTable(c) /\ CallTable(c)
      BY <1>1, <2>2 DEF TransitionTo, CanSwap, AllowedTransitions
    <3>2. StepTable(c) /\ AttemptTable(c) /\ TodoTable(c)
      BY <1>1, <2>2 DEF TransitionTo, CanSwap, AllowedTransitions
    <3>3. ProductTable(c) /\ RunTable(c) /\ LabelTable(c) /\ GrantTable(c)
      BY <1>1, <2>2 DEF TransitionTo, CanSwap, AllowedTransitions
    <3>4. OnPath'
      BY <1>1, <2>2 DEF TransitionTo, CanSwap, AllowedTransitions
    <3>5. ExecutedOnce'
      BY SMTT(20), <1>1, <2>2 DEF TransitionTo, CanSwap, AllowedTransitions
    <3> QED  BY <3>1, <3>2, <3>3, <3>4, <3>5, Zenon
  <2>3. CASE RecordClosure(c, "close_failed", "FAILED_TERMINAL",
             IF op[c] = "prepare" THEN "return"
             ELSE IF todo[c] = {} THEN "raised" ELSE "run_end")
    <3>1. Alone(c) /\ StatusTable(c) /\ ClosureTable(c) /\ CallTable(c)
      BY <1>1, <2>3 DEF RecordClosure
    <3>2. StepTable(c) /\ AttemptTable(c) /\ TodoTable(c)
      BY <1>1, <2>3 DEF RecordClosure
    <3>3. ProductTable(c) /\ RunTable(c) /\ LabelTable(c) /\ GrantTable(c)
      BY <1>1, <2>3 DEF RecordClosure
    <3>4. OnPath'
      BY <1>1, <2>3 DEF RecordClosure
    <3>5. ExecutedOnce'
      BY <1>1, <2>3 DEF RecordClosure
    <3> QED  BY <3>1, <3>2, <3>3, <3>4, <3>5, Zenon
  <2>4. CASE ReadJob(c, "start_job", {"PENDING"}, "start_running", "queue")
    BY <1>1, <2>4 DEF ReadJob
  <2>5. CASE WriteJob(c, "start_running", "RUNNING", "queue")
    BY <1>1, <2>5 DEF WriteJob
  <2>6. CASE TransitionTo(c, "queue", "QUEUED", "start", "raised")
    <3>1. Alone(c) /\ StatusTable(c) /\ ClosureTable(c) /\ CallTable(c)
      BY <1>1, <2>6 DEF TransitionTo, CanSwap, AllowedTransitions
    <3>2. StepTable(c) /\ AttemptTable(c) /\ TodoTable(c)
      BY <1>1, <2>6 DEF TransitionTo, CanSwap, AllowedTransitions
    <3>3. ProductTable(c) /\ RunTable(c) /\ LabelTable(c) /\ GrantTable(c)
      BY <1>1, <2>6 DEF TransitionTo, CanSwap, AllowedTransitions
    <3>4. OnPath'
      BY <1>1, <2>6 DEF TransitionTo, CanSwap, AllowedTransitions
    <3>5. ExecutedOnce'
      BY SMTT(20), <1>1, <2>6 DEF TransitionTo, CanSwap, AllowedTransitions
    <3> QED  BY <3>1, <3>2, <3>3, <3>4, <3>5, Zenon
  <2>7. CASE TransitionTo(c, "start", "EXECUTING", "run_read", "raised")
    <3>1. Alone(c) /\ StatusTable(c) /\ ClosureTable(c) /\ CallTable(c)
      BY <1>1, <2>7 DEF TransitionTo, CanSwap, AllowedTransitions
    <3>2. StepTable(c) /\ AttemptTable(c) /\ TodoTable(c)
      BY <1>1, <2>7 DEF TransitionTo, CanSwap, AllowedTransitions
    <3>3. ProductTable(c) /\ RunTable(c) /\ LabelTable(c) /\ GrantTable(c)
      BY <1>1, <2>7 DEF TransitionTo, CanSwap, AllowedTransitions
    <3>4. OnPath'
      BY <1>1, <2>7 DEF TransitionTo, CanSwap, AllowedTransitions
    <3>5. ExecutedOnce'
      BY SMTT(20), <1>1, <2>7 DEF TransitionTo, CanSwap, AllowedTransitions
    <3> QED  BY <3>1, <3>2, <3>3, <3>4, <3>5, Zenon
  <2>8. CASE ReadSteps(c, "run_read", "run")
    <3>1. /\ todo' \in [Caller -> SUBSET RowType]
          /\ \A row \in todo'[c] : row.status \in EarlyStates => row.execution = 0
          /\ RowsAreRead(c)
      BY <2>8, RowsRead
    <3>2. Alone(c) /\ StatusTable(c) /\ ClosureTable(c) /\ CallTable(c)
      BY <1>1, <2>8 DEF ReadSteps, NextRow, Loop, AfterLoop, ForRow, Passed, StepRow
    <3>3. StepTable(c) /\ AttemptTable(c) /\ TodoTable(c)
      BY <2>8, <3>1 DEF ReadSteps, Loop
    <3>4. ProductTable(c) /\ RunTable(c) /\ LabelTable(c) /\ GrantTable(c)
      BY <1>1, <2>8 DEF ReadSteps, NextRow, Loop, AfterLoop, ForRow, Passed, StepRow
    <3>5. OnPath'
      BY <1>1, <2>8, <3>1 DEF ReadSteps, NextRow, Loop, AfterLoop, ForRow, Passed, StepRow
    <3>6. ExecutedOnce'
      BY <1>1, <2>8, <3>1 DEF ReadSteps, NextRow, Loop, AfterLoop, ForRow, Passed, StepRow
    <3> QED  BY <3>2, <3>3, <3>4, <3>5, <3>6, Zenon
  <2>9. CASE RunRow(c)
    BY <1>1, <2>9 DEF RunRow, Ready, NextRow, Loop, AfterLoop, ForRow
  <2>10. CASE RunState(c)
    BY <1>1, <2>10 DEF RunState
  <2>11. CASE RecoverFinalizing(c, "run_recover", "run_found", "raised")
    <3>1. Alone(c) /\ StatusTable(c) /\ ClosureTable(c) /\ CallTable(c)
      BY <1>1, <2>11 DEF RecoverFinalizing, AcceptProof, Move
    <3>2. StepTable(c) /\ AttemptTable(c) /\ TodoTable(c)
      BY <1>1, <2>11 DEF RecoverFinalizing, AcceptProof, Move
    <3>3. ProductTable(c) /\ RunTable(c) /\ LabelTable(c) /\ GrantTable(c)
      BY <1>1, <2>11 DEF RecoverFinalizing, AcceptProof, Move
    <3>4. OnPath'
      BY <1>1, <2>11 DEF RecoverFinalizing, AcceptProof, Move
    <3>5. ExecutedOnce'
      BY <1>1, <2>11 DEF RecoverFinalizing, AcceptProof, Move
    <3> QED  BY <3>1, <3>2, <3>3, <3>4, <3>5, Zenon
  <2>12. CASE StoreResult(c, "run_found", "run", "raised")
    <3>1. Alone(c) /\ StatusTable(c) /\ ClosureTable(c) /\ CallTable(c)
      BY <1>1, <2>12 DEF StoreResult, SwapStep, SetStep, Loops, NextRow, Loop, AfterLoop, ForRow
    <3>2. StepTable(c) /\ AttemptTable(c) /\ TodoTable(c)
      BY <1>1, <2>12 DEF StoreResult, SwapStep, SetStep, Loops, NextRow, Loop, AfterLoop, ForRow
    <3>3. ProductTable(c) /\ RunTable(c) /\ LabelTable(c) /\ GrantTable(c)
      BY <1>1, <2>12 DEF StoreResult, SwapStep, SetStep, Loops, NextRow, Loop, AfterLoop, ForRow
    <3>4. OnPath'
      BY <1>1, <2>12 DEF StoreResult, SwapStep, SetStep, Loops, NextRow, Loop, AfterLoop, ForRow
    <3>5. ExecutedOnce'
      BY SMTT(20), <1>1, <2>12 DEF StoreResult, SwapStep, SetStep, Loops, NextRow, Loop, AfterLoop,
         ForRow
    <3> QED  BY <3>1, <3>2, <3>3, <3>4, <3>5, Zenon
  <2>13. CASE RunClaim(c)
    <3>1. Alone(c) /\ StatusTable(c) /\ ClosureTable(c) /\ CallTable(c)
      BY <1>1, <2>13 DEF RunClaim, SetStep
    <3>2. StepTable(c) /\ AttemptTable(c) /\ TodoTable(c)
      BY <1>1, <2>13 DEF RunClaim, SetStep
    <3>3. ProductTable(c) /\ RunTable(c) /\ LabelTable(c) /\ GrantTable(c)
      BY <1>1, <2>13 DEF RunClaim, SetStep
    <3>4. OnPath'
      BY <1>1, <2>13 DEF RunClaim, SetStep
    <3>5. ExecutedOnce'
      BY <1>1, <2>13 DEF RunClaim, SetStep
    <3> QED  BY <3>1, <3>2, <3>3, <3>4, <3>5, Zenon
  <2>14. CASE RegisterGrant(c)
    BY <1>1, <2>14 DEF RegisterGrant
  <2>15. CASE ChildStart(c)
    BY <1>1, <2>15 DEF ChildStart
  <2>16. CASE ChildCharge(c)
    BY <1>1, <2>16 DEF ChildCharge, ChargeProof
  <2>17. CASE ChildWork(c)
    BY <1>1, <2>17 DEF ChildWork, FinalizeProof, Move
  <2>18. CASE ChildFailed(c)
    <3>1. Alone(c) /\ StatusTable(c) /\ ClosureTable(c) /\ CallTable(c)
      BY <1>1, <2>18 DEF ChildFailed, CloseProof, Move
    <3>2. StepTable(c) /\ AttemptTable(c) /\ TodoTable(c)
      BY <1>1, <2>18 DEF ChildFailed, CloseProof, Move
    <3>3. ProductTable(c) /\ RunTable(c) /\ LabelTable(c) /\ GrantTable(c)
      BY <1>1, <2>18 DEF ChildFailed, CloseProof, Move
    <3>4. OnPath'
      BY <1>1, <2>18 DEF ChildFailed, CloseProof, Move
    <3>5. ExecutedOnce'
      BY <1>1, <2>18 DEF ChildFailed, CloseProof, Move
    <3> QED  BY <3>1, <3>2, <3>3, <3>4, <3>5, Zenon
  <2>19. CASE RecoverFinalizing(c, "child_accept", "run_store", "run_end")
    BY <1>1, <2>19 DEF RecoverFinalizing, AcceptProof, Move
  <2>20. CASE StoreResult(c, "run_store", "run_finally", "close_step")
    <3>1. Alone(c) /\ StatusTable(c) /\ ClosureTable(c) /\ CallTable(c)
      BY <1>1, <2>20 DEF StoreResult, SwapStep, SetStep, Loops, NextRow, Loop, AfterLoop, ForRow
    <3>2. StepTable(c) /\ AttemptTable(c) /\ TodoTable(c)
      BY <1>1, <2>20 DEF StoreResult, SwapStep, SetStep, Loops, NextRow, Loop, AfterLoop, ForRow
    <3>3. ProductTable(c) /\ RunTable(c) /\ LabelTable(c) /\ GrantTable(c)
      BY <1>1, <2>20 DEF StoreResult, SwapStep, SetStep, Loops, NextRow, Loop, AfterLoop, ForRow
    <3>4. OnPath'
      BY <1>1, <2>20 DEF StoreResult, SwapStep, SetStep, Loops, NextRow, Loop, AfterLoop, ForRow
    <3>5. ExecutedOnce'
      BY SMTT(20), <1>1, <2>20 DEF StoreResult, SwapStep, SetStep, Loops, NextRow, Loop, AfterLoop,
         ForRow
    <3> QED  BY <3>1, <3>2, <3>3, <3>4, <3>5, Zenon
  <2>21. CASE RunFinally(c)
    <3>1. Alone(c) /\ StatusTable(c) /\ ClosureTable(c) /\ CallTable(c)
      BY <1>1, <2>21 DEF RunFinally, RevokeRowGrant, NextRow, Loop, AfterLoop, ForRow
    <3>2. StepTable(c) /\ AttemptTable(c) /\ TodoTable(c)
      BY <1>1, <2>21 DEF RunFinally, RevokeRowGrant, NextRow, Loop, AfterLoop, ForRow
    <3>3. ProductTable(c) /\ RunTable(c) /\ LabelTable(c) /\ GrantTable(c)
      BY <1>1, <2>21 DEF RunFinally, RevokeRowGrant, NextRow, Loop, AfterLoop, ForRow
    <3>4. OnPath'
      BY <1>1, <2>21 DEF RunFinally, RevokeRowGrant, NextRow, Loop, AfterLoop, ForRow
    <3>5. ExecutedOnce'
      BY <1>1, <2>21 DEF RunFinally, RevokeRowGrant, NextRow, Loop, AfterLoop, ForRow
    <3> QED  BY <3>1, <3>2, <3>3, <3>4, <3>5, Zenon
  <2>22. CASE CloseFailure(c)
    <3> HIDE DEF Tables, OnPath, ExecutedOnce, TypeOK, ThreadTypes
    <3> QED  BY <2>22, FailureTables
  <2>23. CASE Verify(c)
    BY <1>1, <2>23 DEF Verify, ReadStatus
  <2>24. CASE TransitionTo(c, "verify_swap", "VERIFYING", "finalize", "raised")
    <3>1. Alone(c) /\ StatusTable(c) /\ ClosureTable(c) /\ CallTable(c)
      BY <1>1, <2>24 DEF TransitionTo, CanSwap, AllowedTransitions
    <3>2. StepTable(c) /\ AttemptTable(c) /\ TodoTable(c)
      BY <1>1, <2>24 DEF TransitionTo, CanSwap, AllowedTransitions
    <3>3. ProductTable(c) /\ RunTable(c) /\ LabelTable(c) /\ GrantTable(c)
      BY <1>1, <2>24 DEF TransitionTo, CanSwap, AllowedTransitions
    <3>4. OnPath'
      BY <1>1, <2>24 DEF TransitionTo, CanSwap, AllowedTransitions
    <3>5. ExecutedOnce'
      BY SMTT(20), <1>1, <2>24 DEF TransitionTo, CanSwap, AllowedTransitions
    <3> QED  BY <3>1, <3>2, <3>3, <3>4, <3>5, Zenon
  <2>25. CASE FinalizeMulti(c)
    <3> HIDE DEF Tables, OnPath, ExecutedOnce, TypeOK, ThreadTypes
    <3> QED  BY <2>25, FinalizeTables
  <2> QED  BY <2>1, <2>2, <2>3, <2>4, <2>5, <2>6, <2>7, <2>8, <2>9, <2>10, <2>11, <2>12, <2>13,
              <2>14, <2>15, <2>16, <2>17, <2>18, <2>19, <2>20, <2>21, <2>22, <2>23, <2>24, <2>25,
              Zenon DEF ResumeStep
<1>3. TypeOK' /\ ThreadTypes'
  <2> HIDE DEF OnPath, ExecutedOnce
  <2>1. CASE ResumeStart(c)
    BY <1>1, <2>1 DEF ResumeStart, Enter
  <2>2. CASE TransitionTo(c, "expire", "FAILED_TERMINAL", "close_failed", "raised")
    BY <1>1, <2>2 DEF TransitionTo, CanSwap, AllowedTransitions
  <2>3. CASE RecordClosure(c, "close_failed", "FAILED_TERMINAL",
             IF op[c] = "prepare" THEN "return"
             ELSE IF todo[c] = {} THEN "raised" ELSE "run_end")
    BY <1>1, <2>3 DEF RecordClosure
  <2>4. CASE ReadJob(c, "start_job", {"PENDING"}, "start_running", "queue")
    BY <1>1, <2>4 DEF ReadJob
  <2>5. CASE WriteJob(c, "start_running", "RUNNING", "queue")
    BY <1>1, <2>5 DEF WriteJob
  <2>6. CASE TransitionTo(c, "queue", "QUEUED", "start", "raised")
    BY <1>1, <2>6 DEF TransitionTo, CanSwap, AllowedTransitions
  <2>7. CASE TransitionTo(c, "start", "EXECUTING", "run_read", "raised")
    BY <1>1, <2>7 DEF TransitionTo, CanSwap, AllowedTransitions
  <2>8. CASE ReadSteps(c, "run_read", "run")
    <3>1. todo' \in [Caller -> SUBSET RowType]
      BY <2>8, RowsRead
    <3> QED  BY <1>1, <2>8, <3>1 DEF ReadSteps, Loop, AfterLoop, ForRow
  <2>9. CASE RunRow(c)
    BY <1>1, <2>9 DEF RunRow, Ready, NextRow, Loop, AfterLoop, ForRow
  <2>10. CASE RunState(c)
    BY <1>1, <2>10 DEF RunState
  <2>11. CASE RecoverFinalizing(c, "run_recover", "run_found", "raised")
    BY <1>1, <2>11 DEF RecoverFinalizing, AcceptProof, Move
  <2>12. CASE StoreResult(c, "run_found", "run", "raised")
    BY <1>1, <2>12 DEF StoreResult, SwapStep, SetStep, Loops, NextRow, Loop, AfterLoop, ForRow
  <2>13. CASE RunClaim(c)
    <3>1. Row(c).execution = 0
      BY <1>1, <2>13 DEF RunClaim, OnPath, ExecutedOnce
    <3> QED  BY <1>1, <2>13, <3>1 DEF RunClaim, SetStep
  <2>14. CASE RegisterGrant(c)
    BY <1>1, <2>14 DEF RegisterGrant
  <2>15. CASE ChildStart(c)
    BY <1>1, <2>15 DEF ChildStart
  <2>16. CASE ChildCharge(c)
    BY <1>1, <2>16 DEF ChildCharge, ChargeProof
  <2>17. CASE ChildWork(c)
    BY <1>1, <2>17 DEF ChildWork, FinalizeProof, Move
  <2>18. CASE ChildFailed(c)
    BY <1>1, <2>18 DEF ChildFailed, CloseProof, Move
  <2>19. CASE RecoverFinalizing(c, "child_accept", "run_store", "run_end")
    BY <1>1, <2>19 DEF RecoverFinalizing, AcceptProof, Move
  <2>20. CASE StoreResult(c, "run_store", "run_finally", "close_step")
    BY <1>1, <2>20 DEF StoreResult, SwapStep, SetStep, Loops, NextRow, Loop, AfterLoop, ForRow
  <2>21. CASE RunFinally(c)
    BY <1>1, <2>21 DEF RunFinally, RevokeRowGrant, NextRow, Loop, AfterLoop, ForRow
  <2>22. CASE CloseFailure(c)
    <3> HIDE DEF Tables, OnPath, ExecutedOnce, TypeOK, ThreadTypes
    <3> QED  BY <2>22, FailureTables
  <2>23. CASE Verify(c)
    BY <1>1, <2>23 DEF Verify, ReadStatus
  <2>24. CASE TransitionTo(c, "verify_swap", "VERIFYING", "finalize", "raised")
    BY <1>1, <2>24 DEF TransitionTo, CanSwap, AllowedTransitions
  <2>25. CASE FinalizeMulti(c)
    <3> HIDE DEF Tables, OnPath, ExecutedOnce, TypeOK, ThreadTypes
    <3> QED  BY <2>25, FinalizeTables
  <2> QED  BY <2>1, <2>2, <2>3, <2>4, <2>5, <2>6, <2>7, <2>8, <2>9, <2>10, <2>11, <2>12, <2>13,
              <2>14, <2>15, <2>16, <2>17, <2>18, <2>19, <2>20, <2>21, <2>22, <2>23, <2>24, <2>25,
              Zenon DEF ResumeStep
<1> QED  BY <1>2, <1>3, Zenon

\* The steps of cancel obey the tables.
LEMMA CancelTables ==
    ASSUME TypeInv, NEW c \in Caller, CancelStep(c)
    PROVE  Tables(c) /\ TypeInv'
<1> USE MultiAssumption
<1>1. /\ pc[c] \in Labels /\ op[c] \in Calls \union {"idle"} /\ todo[c] \in SUBSET RowType
      /\ pc[c] \in RowLabels => todo[c] # {}
      /\ todo[c] # {} => /\ Row(c) \in todo[c] /\ ChildOf(c) \in Child
                         /\ Row(c).index \in Steps /\ Row(c).status \in StepStates
                         /\ Row(c).prepare \in 1..MaxPrepare /\ Row(c).execution \in 0..1
  BY RowAtHand
<1>2. Tables(c) /\ OnPath' /\ ExecutedOnce'
  <2>1. CASE CancelStart(c)
    <3>1. Alone(c) /\ StatusTable(c) /\ ClosureTable(c) /\ CallTable(c)
      BY <1>1, <2>1 DEF CancelStart, Enter
    <3>2. StepTable(c) /\ AttemptTable(c) /\ TodoTable(c)
      BY <1>1, <2>1 DEF CancelStart, Enter
    <3>3. ProductTable(c) /\ RunTable(c) /\ LabelTable(c) /\ GrantTable(c)
      BY <1>1, <2>1 DEF CancelStart, Enter
    <3>4. OnPath'
      BY <1>1, <2>1 DEF CancelStart, Enter
    <3>5. ExecutedOnce'
      BY <1>1, <2>1 DEF CancelStart, Enter
    <3> QED  BY <3>1, <3>2, <3>3, <3>4, <3>5, Zenon
  <2>2. CASE TransitionTo(c, "cancel_swap", "CANCELLING", "cancel_read", "return")
    <3>1. Alone(c) /\ StatusTable(c) /\ ClosureTable(c) /\ CallTable(c)
      BY <1>1, <2>2 DEF TransitionTo, CanSwap, AllowedTransitions
    <3>2. StepTable(c) /\ AttemptTable(c) /\ TodoTable(c)
      BY <1>1, <2>2 DEF TransitionTo, CanSwap, AllowedTransitions
    <3>3. ProductTable(c) /\ RunTable(c) /\ LabelTable(c) /\ GrantTable(c)
      BY <1>1, <2>2 DEF TransitionTo, CanSwap, AllowedTransitions
    <3>4. OnPath'
      BY <1>1, <2>2 DEF TransitionTo, CanSwap, AllowedTransitions
    <3>5. ExecutedOnce'
      BY SMTT(20), <1>1, <2>2 DEF TransitionTo, CanSwap, AllowedTransitions
    <3> QED  BY <3>1, <3>2, <3>3, <3>4, <3>5, Zenon
  <2>3. CASE ReadSteps(c, "cancel_read", "cancel")
    <3>1. /\ todo' \in [Caller -> SUBSET RowType]
          /\ \A row \in todo'[c] : row.status \in EarlyStates => row.execution = 0
          /\ RowsAreRead(c)
      BY <2>3, RowsRead
    <3>2. Alone(c) /\ StatusTable(c) /\ ClosureTable(c) /\ CallTable(c)
      BY <1>1, <2>3 DEF ReadSteps, NextRow, Loop, AfterLoop, ForRow, Passed, StepRow
    <3>3. StepTable(c) /\ AttemptTable(c) /\ TodoTable(c)
      BY <2>3, <3>1 DEF ReadSteps, Loop
    <3>4. ProductTable(c) /\ RunTable(c) /\ LabelTable(c) /\ GrantTable(c)
      BY <1>1, <2>3 DEF ReadSteps, NextRow, Loop, AfterLoop, ForRow, Passed, StepRow
    <3>5. OnPath'
      BY <1>1, <2>3, <3>1 DEF ReadSteps, NextRow, Loop, AfterLoop, ForRow, Passed, StepRow
    <3>6. ExecutedOnce'
      BY <1>1, <2>3, <3>1 DEF ReadSteps, NextRow, Loop, AfterLoop, ForRow, Passed, StepRow
    <3> QED  BY <3>2, <3>3, <3>4, <3>5, <3>6, Zenon
  <2>4. CASE RevokeRowGrant(c, "cancel_revoke", "cancel_child")
    <3>1. Alone(c) /\ StatusTable(c) /\ ClosureTable(c) /\ CallTable(c)
      BY <1>1, <2>4 DEF RevokeRowGrant
    <3>2. StepTable(c) /\ AttemptTable(c) /\ TodoTable(c)
      BY <1>1, <2>4 DEF RevokeRowGrant
    <3>3. ProductTable(c) /\ RunTable(c) /\ LabelTable(c) /\ GrantTable(c)
      BY <1>1, <2>4 DEF RevokeRowGrant
    <3>4. OnPath'
      BY <1>1, <2>4 DEF RevokeRowGrant
    <3>5. ExecutedOnce'
      BY <1>1, <2>4 DEF RevokeRowGrant
    <3> QED  BY <3>1, <3>2, <3>3, <3>4, <3>5, Zenon
  <2>5. CASE CancelChild(c)
    BY <1>1, <2>5 DEF CancelChild
  <2>6. CASE RecoverFinalizing(c, "cancel_recover", "cancel_store", "raised")
    <3>1. Alone(c) /\ StatusTable(c) /\ ClosureTable(c) /\ CallTable(c)
      BY <1>1, <2>6 DEF RecoverFinalizing, AcceptProof, Move
    <3>2. StepTable(c) /\ AttemptTable(c) /\ TodoTable(c)
      BY <1>1, <2>6 DEF RecoverFinalizing, AcceptProof, Move
    <3>3. ProductTable(c) /\ RunTable(c) /\ LabelTable(c) /\ GrantTable(c)
      BY <1>1, <2>6 DEF RecoverFinalizing, AcceptProof, Move
    <3>4. OnPath'
      BY <1>1, <2>6 DEF RecoverFinalizing, AcceptProof, Move
    <3>5. ExecutedOnce'
      BY <1>1, <2>6 DEF RecoverFinalizing, AcceptProof, Move
    <3> QED  BY <3>1, <3>2, <3>3, <3>4, <3>5, Zenon
  <2>7. CASE StoreResult(c, "cancel_store", "cancel", "raised")
    <3>1. Alone(c) /\ StatusTable(c) /\ ClosureTable(c) /\ CallTable(c)
      BY <1>1, <2>7 DEF StoreResult, SwapStep, SetStep, Loops, NextRow, Loop, AfterLoop, ForRow
    <3>2. StepTable(c) /\ AttemptTable(c) /\ TodoTable(c)
      BY <1>1, <2>7 DEF StoreResult, SwapStep, SetStep, Loops, NextRow, Loop, AfterLoop, ForRow
    <3>3. ProductTable(c) /\ RunTable(c) /\ LabelTable(c) /\ GrantTable(c)
      BY <1>1, <2>7 DEF StoreResult, SwapStep, SetStep, Loops, NextRow, Loop, AfterLoop, ForRow
    <3>4. OnPath'
      BY <1>1, <2>7 DEF StoreResult, SwapStep, SetStep, Loops, NextRow, Loop, AfterLoop, ForRow
    <3>5. ExecutedOnce'
      BY SMTT(20), <1>1, <2>7 DEF StoreResult, SwapStep, SetStep, Loops, NextRow, Loop, AfterLoop,
         ForRow
    <3> QED  BY <3>1, <3>2, <3>3, <3>4, <3>5, Zenon
  <2>8. CASE InterruptChild(c, "cancel_interrupt", "cancel_mark", "raised")
    <3>1. Alone(c) /\ StatusTable(c) /\ ClosureTable(c) /\ CallTable(c)
      BY <1>1, <2>8 DEF InterruptChild, CloseProof, Move
    <3>2. StepTable(c) /\ AttemptTable(c) /\ TodoTable(c)
      BY <1>1, <2>8 DEF InterruptChild, CloseProof, Move
    <3>3. ProductTable(c) /\ RunTable(c) /\ LabelTable(c) /\ GrantTable(c)
      BY <1>1, <2>8 DEF InterruptChild, CloseProof, Move
    <3>4. OnPath'
      BY <1>1, <2>8 DEF InterruptChild, CloseProof, Move
    <3>5. ExecutedOnce'
      BY <1>1, <2>8 DEF InterruptChild, CloseProof, Move
    <3> QED  BY <3>1, <3>2, <3>3, <3>4, <3>5, Zenon
  <2>9. CASE MarkRow(c, "cancel_mark", "CANCELLED", "cancel")
    <3>1. step_status' = step_status \/ Write(c, StepStates \ {"ACCEPTED"}, "CANCELLED")
      BY <2>9, CloseRowWrites DEF MarkRow
    <3>2. Alone(c) /\ StatusTable(c) /\ ClosureTable(c) /\ CallTable(c)
      BY <1>1, <2>9 DEF MarkRow, CloseRow, NextRow, Loop, AfterLoop, ForRow
    <3>3. StepTable(c) /\ AttemptTable(c) /\ TodoTable(c)
      BY <1>1, <2>9, <3>1 DEF MarkRow, NextRow, Loop, AfterLoop, ForRow
    <3>4. ProductTable(c) /\ RunTable(c) /\ LabelTable(c) /\ GrantTable(c)
      BY <1>1, <2>9 DEF MarkRow, CloseRow, NextRow, Loop, AfterLoop, ForRow
    <3>5. OnPath'
      BY <1>1, <2>9, <3>1 DEF MarkRow, CloseRow, NextRow, Loop, AfterLoop, ForRow
    <3>6. ExecutedOnce'
      BY <1>1, <2>9, <3>1 DEF MarkRow, CloseRow, NextRow, Loop, AfterLoop, ForRow
    <3> QED  BY <3>2, <3>3, <3>4, <3>5, <3>6, Zenon
  <2>10. CASE CancelCheck(c)
    BY <1>1, <2>10 DEF CancelCheck
  <2>11. CASE EndJob(c, "cancel_job", "cancel_job_again", "cancel_write", "CANCELLED", "cancel_close",
              "raised")
    <3>1. Alone(c) /\ StatusTable(c) /\ ClosureTable(c) /\ CallTable(c)
      BY <1>1, <2>11 DEF EndJob, ReadJob, WriteJob
    <3>2. StepTable(c) /\ AttemptTable(c) /\ TodoTable(c)
      BY <1>1, <2>11 DEF EndJob, ReadJob, WriteJob
    <3>3. ProductTable(c) /\ RunTable(c) /\ LabelTable(c) /\ GrantTable(c)
      BY <1>1, <2>11 DEF EndJob, ReadJob, WriteJob
    <3>4. OnPath'
      BY <1>1, <2>11 DEF EndJob, ReadJob, WriteJob
    <3>5. ExecutedOnce'
      BY <1>1, <2>11 DEF EndJob, ReadJob, WriteJob
    <3> QED  BY <3>1, <3>2, <3>3, <3>4, <3>5, Zenon
  <2>12. CASE TransitionTo(c, "cancel_close", "CANCELLED", "close_cancelled", "return")
    <3>1. Alone(c) /\ StatusTable(c) /\ ClosureTable(c) /\ CallTable(c)
      BY <1>1, <2>12 DEF TransitionTo, CanSwap, AllowedTransitions
    <3>2. StepTable(c) /\ AttemptTable(c) /\ TodoTable(c)
      BY <1>1, <2>12 DEF TransitionTo, CanSwap, AllowedTransitions
    <3>3. ProductTable(c) /\ RunTable(c) /\ LabelTable(c) /\ GrantTable(c)
      BY <1>1, <2>12 DEF TransitionTo, CanSwap, AllowedTransitions
    <3>4. OnPath'
      BY <1>1, <2>12 DEF TransitionTo, CanSwap, AllowedTransitions
    <3>5. ExecutedOnce'
      BY SMTT(20), <1>1, <2>12 DEF TransitionTo, CanSwap, AllowedTransitions
    <3> QED  BY <3>1, <3>2, <3>3, <3>4, <3>5, Zenon
  <2>13. CASE RecordClosure(c, "close_cancelled", "CANCELLED", "return")
    <3>1. Alone(c) /\ StatusTable(c) /\ ClosureTable(c) /\ CallTable(c)
      BY <1>1, <2>13 DEF RecordClosure
    <3>2. StepTable(c) /\ AttemptTable(c) /\ TodoTable(c)
      BY <1>1, <2>13 DEF RecordClosure
    <3>3. ProductTable(c) /\ RunTable(c) /\ LabelTable(c) /\ GrantTable(c)
      BY <1>1, <2>13 DEF RecordClosure
    <3>4. OnPath'
      BY <1>1, <2>13 DEF RecordClosure
    <3>5. ExecutedOnce'
      BY <1>1, <2>13 DEF RecordClosure
    <3> QED  BY <3>1, <3>2, <3>3, <3>4, <3>5, Zenon
  <2> QED  BY <2>1, <2>2, <2>3, <2>4, <2>5, <2>6, <2>7, <2>8, <2>9, <2>10, <2>11, <2>12, <2>13,
              Zenon DEF CancelStep
<1>3. TypeOK' /\ ThreadTypes'
  <2> HIDE DEF OnPath, ExecutedOnce
  <2>1. CASE CancelStart(c)
    BY <1>1, <2>1 DEF CancelStart, Enter
  <2>2. CASE TransitionTo(c, "cancel_swap", "CANCELLING", "cancel_read", "return")
    BY <1>1, <2>2 DEF TransitionTo, CanSwap, AllowedTransitions
  <2>3. CASE ReadSteps(c, "cancel_read", "cancel")
    <3>1. todo' \in [Caller -> SUBSET RowType]
      BY <2>3, RowsRead
    <3> QED  BY <1>1, <2>3, <3>1 DEF ReadSteps, Loop, AfterLoop, ForRow
  <2>4. CASE RevokeRowGrant(c, "cancel_revoke", "cancel_child")
    BY <1>1, <2>4 DEF RevokeRowGrant
  <2>5. CASE CancelChild(c)
    BY <1>1, <2>5 DEF CancelChild
  <2>6. CASE RecoverFinalizing(c, "cancel_recover", "cancel_store", "raised")
    BY <1>1, <2>6 DEF RecoverFinalizing, AcceptProof, Move
  <2>7. CASE StoreResult(c, "cancel_store", "cancel", "raised")
    BY <1>1, <2>7 DEF StoreResult, SwapStep, SetStep, Loops, NextRow, Loop, AfterLoop, ForRow
  <2>8. CASE InterruptChild(c, "cancel_interrupt", "cancel_mark", "raised")
    BY <1>1, <2>8 DEF InterruptChild, CloseProof, Move
  <2>9. CASE MarkRow(c, "cancel_mark", "CANCELLED", "cancel")
    BY <1>1, <2>9 DEF MarkRow, CloseRow, NextRow, Loop, AfterLoop, ForRow
  <2>10. CASE CancelCheck(c)
    BY <1>1, <2>10 DEF CancelCheck
  <2>11. CASE EndJob(c, "cancel_job", "cancel_job_again", "cancel_write", "CANCELLED", "cancel_close",
              "raised")
    BY <1>1, <2>11 DEF EndJob, ReadJob, WriteJob
  <2>12. CASE TransitionTo(c, "cancel_close", "CANCELLED", "close_cancelled", "return")
    BY <1>1, <2>12 DEF TransitionTo, CanSwap, AllowedTransitions
  <2>13. CASE RecordClosure(c, "close_cancelled", "CANCELLED", "return")
    BY <1>1, <2>13 DEF RecordClosure
  <2> QED  BY <2>1, <2>2, <2>3, <2>4, <2>5, <2>6, <2>7, <2>8, <2>9, <2>10, <2>11, <2>12, <2>13,
              Zenon DEF CancelStep
<1> QED  BY <1>2, <1>3, Zenon

\* The steps of recover_stale and _interrupt_multi obey the tables.
LEMMA RecoverTables ==
    ASSUME TypeInv, NEW c \in Caller, RecoverStep(c)
    PROVE  Tables(c) /\ TypeInv'
<1> USE MultiAssumption
<1>1. /\ pc[c] \in Labels /\ op[c] \in Calls \union {"idle"} /\ todo[c] \in SUBSET RowType
      /\ pc[c] \in RowLabels => todo[c] # {}
      /\ todo[c] # {} => /\ Row(c) \in todo[c] /\ ChildOf(c) \in Child
                         /\ Row(c).index \in Steps /\ Row(c).status \in StepStates
                         /\ Row(c).prepare \in 1..MaxPrepare /\ Row(c).execution \in 0..1
  BY RowAtHand
<1>2. Tables(c) /\ OnPath' /\ ExecutedOnce'
  <2>1. CASE Raised(c)
    <3>1. Alone(c) /\ StatusTable(c) /\ ClosureTable(c) /\ CallTable(c)
      BY <1>1, <2>1 DEF Raised
    <3>2. StepTable(c) /\ AttemptTable(c) /\ TodoTable(c)
      BY <1>1, <2>1 DEF Raised
    <3>3. ProductTable(c) /\ RunTable(c) /\ LabelTable(c) /\ GrantTable(c)
      BY <1>1, <2>1 DEF Raised
    <3>4. OnPath'
      BY <1>1, <2>1 DEF Raised
    <3>5. ExecutedOnce'
      BY <1>1, <2>1 DEF Raised
    <3> QED  BY <3>1, <3>2, <3>3, <3>4, <3>5, Zenon
  <2>2. CASE ReadStatus(c, "interrupt_status", status, "interrupt_read")
    <3>1. Alone(c) /\ StatusTable(c) /\ ClosureTable(c) /\ CallTable(c)
      BY <1>1, <2>2 DEF ReadStatus
    <3>2. StepTable(c) /\ AttemptTable(c) /\ TodoTable(c)
      BY <1>1, <2>2 DEF ReadStatus
    <3>3. ProductTable(c) /\ RunTable(c) /\ LabelTable(c) /\ GrantTable(c)
      BY <1>1, <2>2 DEF ReadStatus
    <3>4. OnPath'
      BY <1>1, <2>2 DEF ReadStatus
    <3>5. ExecutedOnce'
      BY <1>1, <2>2 DEF ReadStatus
    <3> QED  BY <3>1, <3>2, <3>3, <3>4, <3>5, Zenon
  <2>3. CASE ReadSteps(c, "interrupt_read", "interrupt")
    <3>1. /\ todo' \in [Caller -> SUBSET RowType]
          /\ \A row \in todo'[c] : row.status \in EarlyStates => row.execution = 0
          /\ RowsAreRead(c)
      BY <2>3, RowsRead
    <3>2. Alone(c) /\ StatusTable(c) /\ ClosureTable(c) /\ CallTable(c)
      BY <1>1, <2>3 DEF ReadSteps, NextRow, Loop, AfterLoop, ForRow, Passed, StepRow
    <3>3. StepTable(c) /\ AttemptTable(c) /\ TodoTable(c)
      BY <2>3, <3>1 DEF ReadSteps, Loop
    <3>4. ProductTable(c) /\ RunTable(c) /\ LabelTable(c) /\ GrantTable(c)
      BY <1>1, <2>3 DEF ReadSteps, NextRow, Loop, AfterLoop, ForRow, Passed, StepRow
    <3>5. OnPath'
      BY <1>1, <2>3, <3>1 DEF ReadSteps, NextRow, Loop, AfterLoop, ForRow, Passed, StepRow
    <3>6. ExecutedOnce'
      BY <1>1, <2>3, <3>1 DEF ReadSteps, NextRow, Loop, AfterLoop, ForRow, Passed, StepRow
    <3> QED  BY <3>2, <3>3, <3>4, <3>5, <3>6, Zenon
  <2>4. CASE RevokeRowGrant(c, "interrupt_revoke", "interrupt_child")
    <3>1. Alone(c) /\ StatusTable(c) /\ ClosureTable(c) /\ CallTable(c)
      BY <1>1, <2>4 DEF RevokeRowGrant
    <3>2. StepTable(c) /\ AttemptTable(c) /\ TodoTable(c)
      BY <1>1, <2>4 DEF RevokeRowGrant
    <3>3. ProductTable(c) /\ RunTable(c) /\ LabelTable(c) /\ GrantTable(c)
      BY <1>1, <2>4 DEF RevokeRowGrant
    <3>4. OnPath'
      BY <1>1, <2>4 DEF RevokeRowGrant
    <3>5. ExecutedOnce'
      BY <1>1, <2>4 DEF RevokeRowGrant
    <3> QED  BY <3>1, <3>2, <3>3, <3>4, <3>5, Zenon
  <2>5. CASE InterruptChild(c, "interrupt_child", "interrupt_mark", "interrupt_mark")
    <3>1. Alone(c) /\ StatusTable(c) /\ ClosureTable(c) /\ CallTable(c)
      BY <1>1, <2>5 DEF InterruptChild, CloseProof, Move
    <3>2. StepTable(c) /\ AttemptTable(c) /\ TodoTable(c)
      BY <1>1, <2>5 DEF InterruptChild, CloseProof, Move
    <3>3. ProductTable(c) /\ RunTable(c) /\ LabelTable(c) /\ GrantTable(c)
      BY <1>1, <2>5 DEF InterruptChild, CloseProof, Move
    <3>4. OnPath'
      BY <1>1, <2>5 DEF InterruptChild, CloseProof, Move
    <3>5. ExecutedOnce'
      BY <1>1, <2>5 DEF InterruptChild, CloseProof, Move
    <3> QED  BY <3>1, <3>2, <3>3, <3>4, <3>5, Zenon
  <2>6. CASE MarkRow(c, "interrupt_mark", "INTERRUPTED", "interrupt")
    <3>1. step_status' = step_status \/ Write(c, StepStates \ {"ACCEPTED"}, "INTERRUPTED")
      BY <2>6, CloseRowWrites DEF MarkRow
    <3>2. Alone(c) /\ StatusTable(c) /\ ClosureTable(c) /\ CallTable(c)
      BY <1>1, <2>6 DEF MarkRow, CloseRow, NextRow, Loop, AfterLoop, ForRow
    <3>3. StepTable(c) /\ AttemptTable(c) /\ TodoTable(c)
      BY <1>1, <2>6, <3>1 DEF MarkRow, NextRow, Loop, AfterLoop, ForRow
    <3>4. ProductTable(c) /\ RunTable(c) /\ LabelTable(c) /\ GrantTable(c)
      BY <1>1, <2>6 DEF MarkRow, CloseRow, NextRow, Loop, AfterLoop, ForRow
    <3>5. OnPath'
      BY <1>1, <2>6, <3>1 DEF MarkRow, CloseRow, NextRow, Loop, AfterLoop, ForRow
    <3>6. ExecutedOnce'
      BY <1>1, <2>6, <3>1 DEF MarkRow, CloseRow, NextRow, Loop, AfterLoop, ForRow
    <3> QED  BY <3>2, <3>3, <3>4, <3>5, <3>6, Zenon
  <2>7. CASE EndJob(c, "interrupt_job", "interrupt_job_again", "interrupt_write", "CANCELLED",
             "interrupt_swap", "return")
    <3>1. Alone(c) /\ StatusTable(c) /\ ClosureTable(c) /\ CallTable(c)
      BY <1>1, <2>7 DEF EndJob, ReadJob, WriteJob
    <3>2. StepTable(c) /\ AttemptTable(c) /\ TodoTable(c)
      BY <1>1, <2>7 DEF EndJob, ReadJob, WriteJob
    <3>3. ProductTable(c) /\ RunTable(c) /\ LabelTable(c) /\ GrantTable(c)
      BY <1>1, <2>7 DEF EndJob, ReadJob, WriteJob
    <3>4. OnPath'
      BY <1>1, <2>7 DEF EndJob, ReadJob, WriteJob
    <3>5. ExecutedOnce'
      BY <1>1, <2>7 DEF EndJob, ReadJob, WriteJob
    <3> QED  BY <3>1, <3>2, <3>3, <3>4, <3>5, Zenon
  <2>8. CASE TransitionTo(c, "interrupt_swap", "INTERRUPTED", "close_interrupted", "return")
    <3>1. Alone(c) /\ StatusTable(c) /\ ClosureTable(c) /\ CallTable(c)
      BY <1>1, <2>8 DEF TransitionTo, CanSwap, AllowedTransitions
    <3>2. StepTable(c) /\ AttemptTable(c) /\ TodoTable(c)
      BY <1>1, <2>8 DEF TransitionTo, CanSwap, AllowedTransitions
    <3>3. ProductTable(c) /\ RunTable(c) /\ LabelTable(c) /\ GrantTable(c)
      BY <1>1, <2>8 DEF TransitionTo, CanSwap, AllowedTransitions
    <3>4. OnPath'
      BY <1>1, <2>8 DEF TransitionTo, CanSwap, AllowedTransitions
    <3>5. ExecutedOnce'
      BY SMTT(20), <1>1, <2>8 DEF TransitionTo, CanSwap, AllowedTransitions
    <3> QED  BY <3>1, <3>2, <3>3, <3>4, <3>5, Zenon
  <2>9. CASE RecordClosure(c, "close_interrupted", "INTERRUPTED", "return")
    <3>1. Alone(c) /\ StatusTable(c) /\ ClosureTable(c) /\ CallTable(c)
      BY <1>1, <2>9 DEF RecordClosure
    <3>2. StepTable(c) /\ AttemptTable(c) /\ TodoTable(c)
      BY <1>1, <2>9 DEF RecordClosure
    <3>3. ProductTable(c) /\ RunTable(c) /\ LabelTable(c) /\ GrantTable(c)
      BY <1>1, <2>9 DEF RecordClosure
    <3>4. OnPath'
      BY <1>1, <2>9 DEF RecordClosure
    <3>5. ExecutedOnce'
      BY <1>1, <2>9 DEF RecordClosure
    <3> QED  BY <3>1, <3>2, <3>3, <3>4, <3>5, Zenon
  <2> QED  BY <2>1, <2>2, <2>3, <2>4, <2>5, <2>6, <2>7, <2>8, <2>9, Zenon DEF RecoverStep
<1>3. TypeOK' /\ ThreadTypes'
  <2> HIDE DEF OnPath, ExecutedOnce
  <2>1. CASE Raised(c)
    BY <1>1, <2>1 DEF Raised
  <2>2. CASE ReadStatus(c, "interrupt_status", status, "interrupt_read")
    BY <1>1, <2>2 DEF ReadStatus
  <2>3. CASE ReadSteps(c, "interrupt_read", "interrupt")
    <3>1. todo' \in [Caller -> SUBSET RowType]
      BY <2>3, RowsRead
    <3> QED  BY <1>1, <2>3, <3>1 DEF ReadSteps, Loop, AfterLoop, ForRow
  <2>4. CASE RevokeRowGrant(c, "interrupt_revoke", "interrupt_child")
    BY <1>1, <2>4 DEF RevokeRowGrant
  <2>5. CASE InterruptChild(c, "interrupt_child", "interrupt_mark", "interrupt_mark")
    BY <1>1, <2>5 DEF InterruptChild, CloseProof, Move
  <2>6. CASE MarkRow(c, "interrupt_mark", "INTERRUPTED", "interrupt")
    BY <1>1, <2>6 DEF MarkRow, CloseRow, NextRow, Loop, AfterLoop, ForRow
  <2>7. CASE EndJob(c, "interrupt_job", "interrupt_job_again", "interrupt_write", "CANCELLED",
             "interrupt_swap", "return")
    BY <1>1, <2>7 DEF EndJob, ReadJob, WriteJob
  <2>8. CASE TransitionTo(c, "interrupt_swap", "INTERRUPTED", "close_interrupted", "return")
    BY <1>1, <2>8 DEF TransitionTo, CanSwap, AllowedTransitions
  <2>9. CASE RecordClosure(c, "close_interrupted", "INTERRUPTED", "return")
    BY <1>1, <2>9 DEF RecordClosure
  <2> QED  BY <2>1, <2>2, <2>3, <2>4, <2>5, <2>6, <2>7, <2>8, <2>9, Zenon DEF RecoverStep
<1> QED  BY <1>2, <1>3, Zenon


HIDE DEF
    TypeInv, TypeOK, ThreadTypes, OnPath, ExecutedOnce, LabelsOf, Labels, Calls, Statuses,
    JobTerminal, Terminal, Active, Unstarted, EarlyStates, ClosedStates, DoneStates, StepStates,
    RunnerLabels, ClaimedLabels, PartialLabels, FailLabels, FailureLabels, PrepareRow, DecideRow,
    RunRows, CancelRow, InterruptRow, RowLabels, FinalLabels, CancelledLabels, PrepareLabels,
    DecideLabels, FinishLabels, ResumeLabels, CancelLabels, RecoverLabels, HolderLabels,
    Tables, Alone, StatusTable, ClosureTable, CallTable, StepTable, AttemptTable, TodoTable,
    ProductTable, RunTable, LabelTable, GrantTable, Write, MoveChild, Holder, CloseLabel, Closed,
    children, parent, steps, threads, Goto, Jump, Return, Look, Row

\* Nothing but the clock moves.
Quiet ==
    UNCHANGED <<product, charged, granted, revoked, status, execution_closure, step_status,
                prepare_attempt, execution_attempt, pc, op, seen, todo, crashes>>

\* A step is one of a thread, a crash, or leaves all but the clock alone.
LEMMA Moves ==
    ASSUME TypeInv, [Next]_vars
    PROVE  TypeInv' /\ ((\E c \in Caller : Tables(c)) \/ Crash \/ Quiet)
<1>1. CASE Tick \/ UNCHANGED vars
  <2>1. Quiet /\ UNCHANGED <<needs, decision, jobs>>
    BY <1>1 DEF Tick, vars, children, parent, steps, threads, Quiet
  <2> QED
    BY <2>1 DEF Quiet, TypeInv, TypeOK, ThreadTypes, OnPath, ExecutedOnce, Row
<1>2. CASE Crash
  <2>1. TypeOK' /\ ThreadTypes' /\ ExecutedOnce'
    BY <1>2, MultiAssumption
    DEF Crash, TypeInv, TypeOK, ThreadTypes, ExecutedOnce, children, parent, steps, Idle, Labels,
        Calls, Statuses
  <2>2. OnPath'
    BY <1>2
    DEF Crash, Idle, OnPath, LabelsOf, RowLabels, PrepareRow, DecideRow, RunRows, CancelRow,
        InterruptRow, ClaimedLabels, RunnerLabels
  <2> QED  BY <1>2, <2>1, <2>2 DEF TypeInv
<1>3. ASSUME NEW c \in Caller, CallerStep(c)
      PROVE  Tables(c) /\ TypeInv'
  BY <1>3, PrepareTables, DecideTables, ResumeTables, CancelTables, RecoverTables DEF CallerStep
<1> QED  BY <1>1, <1>2, <1>3 DEF Next

----------------------------------------------------------------------------
(* The parent                                                              *)

\* Who is to move next tells the call it serves.
LEMMA CallOf ==
    ASSUME TypeInv, NEW c \in Caller
    PROVE  /\ op[c] \in Calls \union {"idle"}
           /\ op[c] = "idle" => pc[c] = "idle" /\ todo[c] = {}
           /\ op[c] # "idle" => op[c] \in CallsOf[c] /\ status # "none" /\ pc[c] # "idle"
           /\ pc[c] \in PrepareRow => op[c] = "prepare"
           /\ pc[c] \in DecideRow => op[c] \in {"approve", "deny"}
           /\ pc[c] \in RunRows \union (FailureLabels \ {"close_failed"}) =>
                 op[c] \in {"resume", "recover"}
           /\ pc[c] \in CancelRow \union CancelledLabels => op[c] = "cancel"
           /\ pc[c] \in InterruptRow => op[c] = "recover"
           /\ pc[c] \in RowLabels => todo[c] # {}
  BY DEF TypeInv, ThreadTypes, OnPath, LabelsOf, Calls, RunnerLabels, ClaimedLabels, PartialLabels,
         FailLabels, FailureLabels, PrepareRow, DecideRow, RunRows, CancelRow, InterruptRow,
         RowLabels, FinalLabels, CancelledLabels, PrepareLabels, DecideLabels, FinishLabels,
         ResumeLabels, CancelLabels, RecoverLabels

\* A terminal status stays, and nothing goes back to an earlier phase.
LEMMA StatusMoves ==
    ASSUME NEW c \in Caller, TypeInv, Tables(c)
    PROVE  /\ status \in Terminal => status' = status
           /\ status' = "none" => status = "none"
           /\ status' \in Unstarted => status \in Unstarted
           /\ status' \in {"none", "PENDING_ADMISSION"} => status \in {"none", "PENDING_ADMISSION"}
  BY DEF Tables, StatusTable, AllowedTransitions, Terminal, Unstarted, TypeInv, TypeOK, Active

\* The closure keeps to the status.
LEMMA ClosedStep ==
    ASSUME TypeInv, ClosedInv, NEW c \in Caller, Tables(c) PROVE ClosedInv'
<1>1. ClosureMatches'
  <2>1. CASE status' = status
    BY <2>1 DEF Tables, ClosureTable, ClosedInv, ClosureMatches
  <2>2. CASE status' # status
    <3>1. status \notin Terminal
      BY <2>2, StatusMoves
    <3>2. execution_closure = "none"
      BY <3>1 DEF ClosedInv, ClosureMatches, TypeInv, TypeOK
    <3>3. \A s \in Terminal : pc[c] # CloseLabel(s)
      BY <3>1 DEF ClosedInv
    <3> QED  BY <3>2, <3>3 DEF Tables, ClosureTable, ClosureMatches
  <2> QED  BY <2>1, <2>2
<1>2. ASSUME NEW d \in Caller, NEW s \in Terminal, pc'[d] = CloseLabel(s) PROVE status' = s
  <2>1. CASE d = c
    BY <1>2, <2>1 DEF Tables, ClosureTable
  <2>2. CASE d # c
    BY <1>2, <2>2, StatusMoves DEF Tables, Alone, ClosedInv
  <2> QED  BY <2>1, <2>2
<1>3. (\A d \in Caller, s \in Terminal : pc[d] = CloseLabel(s) => status = s)'
  BY <1>2 DEF CloseLabel
<1> QED  BY <1>1, <1>3 DEF ClosedInv

\* An open grant has its holder.
LEMMA GrantsStep ==
    ASSUME TypeInv, TypeInv', GrantsInv, NEW c \in Caller, Tables(c) PROVE GrantsInv'
<1> SUFFICES ASSUME crashes' = 0, NEW p \in granted' \ revoked'
             PROVE  \E d \in Caller : (Holder(d) /\ ChildOf(d) = p)'
  BY DEF GrantsInv
<1>1. crashes = 0 /\ p \notin revoked
  BY DEF Tables, Alone, GrantTable
<1>2. CASE p \in granted
  <2>1. PICK d \in Caller : Holder(d) /\ ChildOf(d) = p
    BY <1>1, <1>2 DEF GrantsInv
  <2>2. CASE d = c
    BY <2>1, <2>2 DEF Tables, GrantTable, Holder, ChildOf, Row
  <2>3. CASE d # c
    BY <2>1, <2>3 DEF Tables, Alone, Holder, ChildOf, Row
  <2> QED  BY <2>2, <2>3
<1>3. CASE p \notin granted
  <2>1. pc[c] = "register" /\ pc'[c] = "child_start" /\ p = ChildOf(c)
    BY <1>3 DEF Tables, GrantTable
  <2>2. todo'[c] = todo[c] /\ op'[c] = op[c]
    BY <2>1 DEF Tables, RunTable, ClaimedLabels, RunnerLabels
  <2>3. op[c] \in {"resume", "recover"} /\ todo[c] # {} /\ Row(c).status = "ADMITTED"
    BY <2>1, CallOf DEF RunRows, RowLabels, ClaimedLabels, RunnerLabels, TypeInv, OnPath
  <2>4. Holder(c)'
    BY <2>1, <2>2, <2>3 DEF Holder, HolderLabels, ClaimedLabels, RunnerLabels, Row
  <2>5. ChildOf(c)' = p
    BY <2>1, <2>2 DEF ChildOf, Row
  <2> QED  BY <2>4, <2>5
<1> QED  BY <1>2, <1>3

----------------------------------------------------------------------------
(* The rows of the steps                                                   *)

\* The phases of a request.
LEMMA PhaseStep ==
    ASSUME OnePreparer, TypeInv, ClosedInv, PhaseInv, NEW c \in Caller, Tables(c), TypeInv'
    PROVE  PhaseInv'
<1>1. status' = "none" => \A i \in Steps : step_status'[i] = "none"
  <2> SUFFICES ASSUME status' = "none" PROVE \A i \in Steps : step_status'[i] = "none"
    OBVIOUS
  <2>1. status = "none" /\ op[c] = "idle"
    BY StatusMoves, CallOf DEF PhaseInv, Tables, CallTable
  <2>2. step_status' = step_status
    BY <2>1, CallOf, StatusMoves DEF Tables, StepTable, RowLabels
  <2> QED  BY <2>1, <2>2 DEF PhaseInv
<1>2. status' \in Unstarted =>
         \A i \in Steps : step_status'[i] \notin {"EXECUTING", "ACCEPTED"}
  <2> SUFFICES ASSUME status' \in Unstarted, NEW i \in Steps
               PROVE  step_status'[i] \notin {"EXECUTING", "ACCEPTED"}
    OBVIOUS
  <2>1. step_status[i] \notin {"EXECUTING", "ACCEPTED"} /\ status \in Unstarted
    BY StatusMoves DEF PhaseInv
  <2>2. pc[c] \notin {"run_claim", "run_found", "run_store", "cancel_store"}
    BY <2>1, CallOf DEF PhaseInv, RunRows, ClaimedLabels, CancelRow
  <2> QED
    BY <2>1, <2>2 DEF Tables, StepTable, Write, TypeInv, ThreadTypes
<1>3. ASSUME NEW d \in Caller, op'[d] = "prepare"
      PROVE  \/ status' = "PENDING_ADMISSION"
             \/ pc'[d] = "close_failed" /\ status' = "FAILED_TERMINAL"
  <2>1. CASE d = c
    <3>1. pc'[c] = "close_failed" => status' = "FAILED_TERMINAL"
      BY DEF Tables, ClosureTable, CloseLabel, Terminal
    <3>2. op[c] = "prepare" =>
             status = "PENDING_ADMISSION" \/ pc[c] = "close_failed"
      BY DEF PhaseInv
    <3> QED  BY <1>3, <2>1, <3>1, <3>2 DEF Tables, CallTable, StatusTable
  <2>2. CASE d # c
    <3>1. op[d] = "prepare" /\ pc'[d] = pc[d]
      BY <1>3, <2>2 DEF Tables, Alone
    <3>2. CASE status' = status
      BY <3>1, <3>2 DEF PhaseInv
    <3>3. CASE status' # status
      <4>1. status = "PENDING_ADMISSION"
        BY <3>1, <3>3, StatusMoves DEF PhaseInv, Terminal
      <4>2. op[c] \in {"prepare", "idle"}
        BY <4>1, CallOf DEF PhaseInv, Calls
      <4>3. op[c] # "prepare"
        BY <2>2, <3>1, CallOf DEF OnePreparer
      <4> QED  BY <3>3, <4>1, <4>2, <4>3 DEF Tables, StatusTable
    <3> QED  BY <3>2, <3>3
  <2> QED  BY <2>1, <2>2
<1>4. ASSUME NEW d \in Caller
      PROVE  /\ op'[d] \in {"approve", "deny", "cancel", "resume", "recover"} =>
                   status' \notin {"none", "PENDING_ADMISSION"}
             /\ op'[d] \in {"resume", "recover"} => status' \notin Unstarted
             /\ op'[d] = "cancel" /\ pc'[d] # "cancel_swap" => status' \notin Unstarted
  <2>1. CASE d = c
    BY <2>1, StatusMoves DEF Tables, CallTable, PhaseInv, Unstarted
  <2>2. CASE d # c
    BY <2>2, StatusMoves DEF Tables, Alone, PhaseInv
  <2> QED  BY <2>1, <2>2
<1> QED  BY <1>1, <1>2, <1>3, <1>4 DEF PhaseInv

\* A request that is prepared is in the hands of one thread.
LEMMA PreparingAlone ==
    ASSUME OnePreparer, TypeInv, PhaseInv, NEW c \in Caller, pc[c] \in PrepareRow
    PROVE  /\ status = "PENDING_ADMISSION"
           /\ \A d \in Caller \ {c} : op[d] = "idle" /\ pc[d] = "idle" /\ todo[d] = {}
<1>1. op[c] = "prepare" /\ status = "PENDING_ADMISSION"
  BY CallOf DEF PhaseInv, PrepareRow
<1>2. ASSUME NEW d \in Caller \ {c} PROVE op[d] = "idle" /\ pc[d] = "idle" /\ todo[d] = {}
  <2>1. op[d] # "prepare"
    BY <1>1, CallOf DEF OnePreparer
  <2> QED  BY <1>1, <2>1, CallOf DEF PhaseInv, Calls
<1> QED  BY <1>1, <1>2

\* A step's row is accepted, closed or past its preparation for good.
LEMMA StepsStand ==
    ASSUME TypeInv, PhaseInv, NEW c \in Caller, Tables(c), NEW i \in Steps
    PROVE  /\ step_status[i] = "ACCEPTED" => step_status'[i] = "ACCEPTED"
           /\ step_status[i] \in ClosedStates => step_status'[i] \in ClosedStates
           /\ step_status[i] \notin EarlyStates => step_status'[i] \notin EarlyStates
<1>1. CASE step_status' = step_status
  BY <1>1
<1>2. CASE status = "none"
  <2>1. step_status[i] = "none"
    BY <1>2 DEF PhaseInv
  <2> QED  BY <2>1 DEF EarlyStates, ClosedStates
<1>3. CASE pc[c] \in RowLabels /\ todo[c] # {}
  <2>1. Row(c).index \in Steps
    BY <1>3, RowAtHand
  <2>2. pc[c] = "prepare_failed" => step_status[i] # "ACCEPTED"
    BY CallOf DEF PrepareRow, PhaseInv, Unstarted
  <2> QED
    BY <1>1, <1>2, <2>1, <2>2
    DEF Tables, StepTable, Write, TypeInv, ThreadTypes, EarlyStates, ClosedStates, StepStates
<1> QED  BY <1>1, <1>2, <1>3 DEF Tables, StepTable

\* A child is accepted or closed for good, and finalized by the thread that
\* executes it.
LEMMA ChildrenStand ==
    ASSUME TypeInv, NEW c \in Caller, Tables(c), NEW p \in Child
    PROVE  /\ product[p] = "accepted" => product'[p] = "accepted"
           /\ product[p] \in Closed => product'[p] \in Closed
           /\ Unfinished(p) =>
                 Unfinished(p)' \/ (pc[c] = "child_work" /\ pc'[c] = "child_accept" /\ ChildOf(c) = p)
<1>1. CASE product' = product
  BY <1>1 DEF Unfinished
<1>2. CASE pc[c] \in RowLabels /\ todo[c] # {}
  <2>1. ChildOf(c) \in Child
    BY <1>2, RowAtHand
  <2> QED
    BY <1>1, <2>1 DEF Tables, ProductTable, MoveChild, Unfinished, Closed, TypeInv, ThreadTypes
<1> QED  BY <1>1, <1>2 DEF Tables, ProductTable

\* The rows of a loop.
LEMMA RowsStep ==
    ASSUME OnePreparer, TypeInv, TypeInv', PhaseInv, RowsInv, NEW c \in Caller, Tables(c)
    PROVE  RowsInv'
<1>1. CASE /\ pc[c] = "prepare_renew"
           /\ todo'[c] = (todo[c] \ {Row(c)}) \union
                           {[Row(c) EXCEPT !.prepare = prepare_attempt'[Row(c).index]]}
           /\ \/ prepare_attempt' = prepare_attempt
              \/ prepare_attempt' = [prepare_attempt EXCEPT ![Row(c).index] = Row(c).prepare + 1]
  <2> DEFINE new == [Row(c) EXCEPT !.prepare = prepare_attempt'[Row(c).index]]
  <2>1. \A d \in Caller \ {c} : todo'[d] = {}
    BY <1>1, PreparingAlone DEF PrepareRow, Tables, Alone
  <2>2. Row(c) \in todo[c] /\ Row(c) \in RowType /\ Row(c).index \in Steps
    BY <1>1, CallOf, RowAtHand DEF RowLabels, PrepareRow
  <2>3. new.index = Row(c).index /\ new.prepare = prepare_attempt'[new.index]
    BY <2>2 DEF RowType
  <2>4. ASSUME NEW row \in todo[c] \ {Row(c)}
        PROVE  row.index # new.index /\ row.prepare = prepare_attempt'[row.index]
    <3>1. row.index # new.index /\ row.prepare = prepare_attempt[row.index] /\ row.index \in Steps
      BY <2>2, <2>3 DEF RowsInv, TypeInv, ThreadTypes, RowType
    <3> QED  BY <1>1, <2>3, <3>1 DEF TypeInv, TypeOK
  <2>5. \A row, other \in todo[c] \ {Row(c)} : row.index = other.index => row = other
    BY DEF RowsInv
  <2>6. /\ \A row \in todo'[c] : row.prepare = prepare_attempt'[row.index]
        /\ \A row, other \in todo'[c] : row.index = other.index => row = other
    BY <1>1, <2>3, <2>4, <2>5
  <2> QED  BY <2>1, <2>6 DEF RowsInv
<1>2. CASE prepare_attempt' = prepare_attempt /\ (todo'[c] \subseteq todo[c] \/ RowsAreRead(c))
  <2>1. ASSUME NEW d \in Caller, d # c
        PROVE  todo'[d] = todo[d]
    BY <2>1 DEF Tables, Alone
  <2>2. /\ \A row \in todo'[c] : row.prepare = prepare_attempt'[row.index]
        /\ \A row, other \in todo'[c] : row.index = other.index => row = other
    <3>1. CASE todo'[c] \subseteq todo[c]
      BY <1>2, <3>1 DEF RowsInv
    <3>2. CASE RowsAreRead(c)
      BY <1>2, <3>2 DEF RowsAreRead, StepRow
    <3> QED  BY <1>2, <3>1, <3>2
  <2> QED  BY <1>2, <2>1, <2>2 DEF RowsInv
<1> QED  BY <1>1, <1>2 DEF Tables, TodoTable, AttemptTable, RowsAreRead

\* A thread at the label of a row, before and after.
LEMMA SameRow ==
    ASSUME NEW d \in Caller, todo'[d] = todo[d]
    PROVE  Row(d)' = Row(d) /\ ChildOf(d)' = ChildOf(d)
  BY DEF Row, ChildOf

\* A step is executed by one thread.
LEMMA RunnersStep ==
    ASSUME TypeInv, TypeInv', PhaseInv, RunnersInv, NEW c \in Caller, Tables(c)
    PROVE  RunnersInv'
<1> DEFINE L == ClaimedLabels \union {"close_step"}
<1>1. ASSUME NEW d \in Caller, pc[d] \in L \/ pc[d] \in {"run_claim", "run_state"}
      PROVE  /\ todo[d] # {} /\ Row(d).index \in Steps /\ ChildOf(d) \in Child
             /\ ChildOf(d)[1] = Row(d).index
  BY <1>1, CallOf, RowAtHand DEF RowLabels, RunRows, ChildOf
<1>2. ASSUME NEW d \in Caller, d # c
      PROVE  /\ pc'[d] = pc[d] /\ Row(d)' = Row(d) /\ ChildOf(d)' = ChildOf(d)
             /\ Runner(d)' <=> Runner(d)
  BY <1>2, SameRow DEF Tables, Alone, Runner
<1>3. pc'[c] \in L =>
         Row(c)' = Row(c) /\ ChildOf(c)' = ChildOf(c) /\ todo'[c] = todo[c]
  BY SameRow DEF Tables, RunTable, FailureLabels
\* A thread becomes the step's runner when it claims the row.
<1>4. Runner(c)' =>
         \/ Runner(c)
         \/ /\ pc[c] = "run_claim" /\ pc'[c] = "register"
            /\ step_status[Row(c).index] = "ADMITTED"
            /\ step_status'[Row(c).index] = "EXECUTING"
  <2> SUFFICES ASSUME Runner(c)', ~Runner(c)
               PROVE  /\ pc[c] = "run_claim" /\ pc'[c] = "register"
                      /\ step_status[Row(c).index] = "ADMITTED"
                      /\ step_status'[Row(c).index] = "EXECUTING"
    OBVIOUS
  <2>1. Row(c).status = "ADMITTED" /\ pc'[c] \in L /\ pc[c] \notin L
    BY <1>3 DEF Runner
  <2> QED
    BY <2>1 DEF Tables, RunTable, ClaimedLabels, RunnerLabels
<1>5. \A d \in Caller : Runner(d)' => step_status'[Row(d)'.index] \notin EarlyStates
  <2> SUFFICES ASSUME NEW d \in Caller, Runner(d)'
               PROVE  step_status'[Row(d)'.index] \notin EarlyStates
    OBVIOUS
  <2>1. CASE Runner(d) /\ Row(d)' = Row(d)
    BY <2>1, <1>1, StepsStand DEF RunnersInv, Runner
  <2>2. CASE d = c /\ ~Runner(c)
    BY <2>2, <1>3, <1>4 DEF Runner, EarlyStates
  <2> QED  BY <1>2, <1>3, <2>1, <2>2 DEF Runner
<1>6. \A d, e \in Caller :
         Runner(d)' /\ Runner(e)' /\ Row(d)'.index = Row(e)'.index => d = e
  <2> SUFFICES ASSUME NEW d \in Caller, NEW e \in Caller, Runner(d)', Runner(e)',
                      Row(d)'.index = Row(e)'.index, d # e
               PROVE  FALSE
    OBVIOUS
  <2>1. Row(d)' = Row(d) /\ Row(e)' = Row(e)
    BY <1>2, <1>3 DEF Runner
  <2>2. CASE Runner(d) /\ Runner(e)
    BY <2>1, <2>2 DEF RunnersInv
  <2>3. CASE d = c /\ ~Runner(c)
    BY <1>2, <1>4, <2>1, <2>3 DEF RunnersInv, EarlyStates
  <2>4. CASE e = c /\ ~Runner(c)
    BY <1>2, <1>4, <2>1, <2>4 DEF RunnersInv, EarlyStates
  <2> QED  BY <1>2, <2>2, <2>3, <2>4
\* The runner alone finalizes its child.
<1>7. \A p \in Child : Unfinished(p) =>
         Unfinished(p)' \/ (pc[c] = "child_work" /\ pc'[c] = "child_accept" /\ ChildOf(c) = p
                            /\ Runner(c))
  BY ChildrenStand DEF Runner, ClaimedLabels, RunnerLabels, TypeInv, OnPath
<1>8. \A p \in Child : step_status'[p[1]] \in EarlyStates => Unfinished(p)'
  <2> SUFFICES ASSUME NEW p \in Child, step_status'[p[1]] \in EarlyStates PROVE Unfinished(p)'
    OBVIOUS
  <2>1. p[1] \in Steps
    BY DEF Child
  <2>2. step_status[p[1]] \in EarlyStates
    BY <2>1, StepsStand
  <2>3. Unfinished(p)
    BY <2>2 DEF RunnersInv
  <2> QED  BY <1>1, <1>7, <2>2, <2>3 DEF RunnersInv, Runner
<1>9. ASSUME NEW d \in Caller, pc'[d] \in RunnerLabels PROVE (Unfinished(ChildOf(d)))'
  <2>1. Row(d)' = Row(d) /\ ChildOf(d)' = ChildOf(d)
    BY <1>2, <1>3, <1>9 DEF ClaimedLabels
  <2>2. pc[d] \in RunnerLabels \/ (d = c /\ pc[c] = "run_claim")
    BY <1>2, <1>9 DEF Tables, RunTable
  <2>3. Unfinished(ChildOf(d)) /\ ChildOf(d) \in Child
    BY <1>1, <1>4, <1>9, <2>2
    DEF RunnersInv, ClaimedLabels, Tables, RunTable, EarlyStates, RunnerLabels
  <2>4. CASE pc[c] = "child_work" /\ pc'[c] = "child_accept" /\ ChildOf(c) = ChildOf(d) /\ Runner(c)
    <3>1. d # c
      BY <1>9, <2>4 DEF RunnerLabels
    <3>2. Runner(d) /\ Row(d).index = Row(c).index
      BY <1>2, <2>2, <2>4, <3>1 DEF Runner, ClaimedLabels, TypeInv, OnPath, ChildOf
    <3> QED  BY <2>4, <3>1, <3>2 DEF RunnersInv
  <2>5. ASSUME NEW p \in Child, p = ChildOf(d), Unfinished(p)' PROVE (Unfinished(ChildOf(d)))'
    BY <2>1, <2>5 DEF Unfinished
  <2> QED  BY <1>7, <2>3, <2>4, <2>5
<1>10. ASSUME NEW d \in Caller, pc'[d] = "close_step"
       PROVE  (\/ step_status[Row(d).index] \in ClosedStates
               \/ product[ChildOf(d)] \in Closed
               \/ Runner(d) /\ Unfinished(ChildOf(d)))'
  <2>1. Row(d)' = Row(d) /\ ChildOf(d)' = ChildOf(d)
    BY <1>2, <1>3, <1>10
  <2>2. pc[d] \in L \union {"run_state"}
    BY <1>2, <1>10 DEF Tables, RunTable, ClaimedLabels
  <2>3. Row(d).index \in Steps /\ ChildOf(d) \in Child
    BY <1>1, <2>2
  <2>4. \/ step_status[Row(d).index] \in ClosedStates
        \/ product[ChildOf(d)] \in Closed
        \/ Runner(d) /\ Unfinished(ChildOf(d))
    <3>1. CASE pc[d] = "close_step"
      BY <3>1 DEF RunnersInv
    <3>2. CASE d = c /\ pc[c] \in RunnerLabels
      BY <3>2 DEF RunnersInv, Runner, ClaimedLabels, TypeInv, OnPath
    <3>3. CASE /\ d = c /\ pc[c] = "run_store"
               /\ step_status[Row(c).index] \notin {"ACCEPTED", "EXECUTING"}
      <4>1. Runner(c)
        BY <3>3 DEF Runner, ClaimedLabels, TypeInv, OnPath
      <4> QED
        BY <2>3, <3>3, <4>1 DEF RunnersInv, TypeInv, ThreadTypes, StepStates
    <3>4. CASE d = c /\ product[ChildOf(c)] \in Closed
      BY <3>4
    <3> QED  BY <1>2, <1>10, <3>1, <3>2, <3>3, <3>4 DEF Tables, RunTable
  <2>5. CASE step_status[Row(d).index] \in ClosedStates
    BY <2>1, <2>3, <2>5, StepsStand
  <2>6. CASE product[ChildOf(d)] \in Closed
    BY <2>1, <2>3, <2>6, ChildrenStand
  <2>7. CASE Runner(d) /\ Unfinished(ChildOf(d))
    <3>1. Runner(d)'
      BY <1>10, <2>1, <2>7 DEF Runner
    <3>2. ~(pc[c] = "child_work" /\ pc'[c] = "child_accept" /\ ChildOf(c) = ChildOf(d) /\ Runner(c))
      <4> SUFFICES ASSUME pc'[c] = "child_accept", ChildOf(c) = ChildOf(d), Runner(c) PROVE FALSE
        OBVIOUS
      <4>1. d # c /\ Row(c).index = Row(d).index
        BY <1>10 DEF ChildOf
      <4> QED  BY <2>7, <4>1 DEF RunnersInv
    <3>3. ASSUME NEW p \in Child, p = ChildOf(d), Unfinished(p)' PROVE (Unfinished(ChildOf(d)))'
      BY <2>1, <3>3 DEF Unfinished
    <3> QED  BY <1>7, <2>3, <2>7, <3>1, <3>2, <3>3
  <2> QED  BY <2>4, <2>5, <2>6, <2>7
<1> QED  BY <1>5, <1>6, <1>8, <1>9, <1>10 DEF RunnersInv

\* What holds of the outcome and of the steps that were executed.
LEMMA StepsStep ==
    ASSUME TypeInv, TypeInv', PhaseInv, RowsInv, KnownInv, StepsInv, NEW c \in Caller, Tables(c)
    PROVE  StepsInv'
<1>1. status' = "ACCEPTED" => \A i \in Steps : step_status'[i] = "ACCEPTED"
  <2>1. CASE status' = status
    BY <2>1, StepsStand DEF StepsInv, AcceptedIsComplete
  <2>2. CASE status' # status
    BY <2>2 DEF Tables, StatusTable, KnownInv, FinalLabels
  <2> QED  BY <2>1, <2>2
<1>2. ASSUME NEW i \in Steps, step_status'[i] = "ACCEPTED"
      PROVE  product'[<<i, prepare_attempt'[i]>>] = "accepted"
  <2>1. <<i, prepare_attempt[i]>> \in Child
    BY DEF Child, TypeInv, TypeOK
  <2>2. CASE step_status[i] = "ACCEPTED"
    <3>1. prepare_attempt'[i] = prepare_attempt[i]
      BY <2>2 DEF Tables, AttemptTable, TypeInv, TypeOK
    <3> QED  BY <2>1, <2>2, <3>1, ChildrenStand DEF StepsInv, AcceptedIsComplete
  <2>3. CASE step_status[i] # "ACCEPTED"
    <3>1. /\ pc[c] \in {"run_found", "run_store", "cancel_store"} /\ Row(c).index = i
          /\ todo[c] # {}
      BY <1>2, <2>3 DEF Tables, StepTable, Write, TypeInv, ThreadTypes
    <3>2. ChildOf(c) = <<i, prepare_attempt[i]>>
      BY <3>1, RowAtHand DEF RowsInv, ChildOf
    <3>3. product[<<i, prepare_attempt[i]>>] = "accepted"
      BY <3>1, <3>2 DEF KnownInv
    <3>4. prepare_attempt' = prepare_attempt
      BY <3>1 DEF Tables, AttemptTable
    <3> QED  BY <2>1, <3>3, <3>4, ChildrenStand
  <2> QED  BY <2>2, <2>3
<1>3. status' = "PARTIAL" => \E i \in Steps : step_status'[i] = "ACCEPTED"
  <2>1. CASE status' = status
    BY <2>1, StepsStand DEF StepsInv
  <2>2. CASE status' # status
    BY <2>2 DEF Tables, StatusTable, KnownInv, PartialLabels
  <2> QED  BY <2>1, <2>2
<1>4. status' \in {"PARTIAL", "CANCELLED"} => \E i \in Steps : step_status'[i] \in ClosedStates
  <2>1. CASE status' = status
    BY <2>1, StepsStand DEF StepsInv
  <2>2. CASE status' # status
    BY <2>2 DEF Tables, StatusTable, KnownInv, PartialLabels, CancelledLabels
  <2> QED  BY <2>1, <2>2
<1>5. ASSUME NEW p \in charged', NEW d \in Dependencies[p[1]] PROVE step_status'[d] = "ACCEPTED"
  <2>1. p \in Child /\ p[1] \in Steps
    BY DEF TypeInv, TypeOK, Child
  <2>2. d \in Steps
    BY <2>1, MultiAssumption
  <2>3. CASE p \in charged
    BY <2>2, <2>3, StepsStand DEF StepsInv, DependencyOrder
  <2>4. CASE pc[c] = "child_charge" /\ p = ChildOf(c)
    <3>1. Ready(c) /\ p[1] = Row(c).index
      BY <2>4 DEF KnownInv, RunnerLabels, ChildOf
    <3> QED  BY <2>2, <3>1, StepsStand DEF Ready
  <2> QED  BY <2>3, <2>4 DEF Tables, ProductTable
<1> QED  BY <1>1, <1>2, <1>3, <1>4, <1>5 DEF StepsInv, AcceptedIsComplete, DependencyOrder

\* What a thread knows by its label.
LEMMA KnownStep ==
    ASSUME TypeInv, TypeInv', PhaseInv, RowsInv, RunnersInv, KnownInv, StepsInv,
           NEW c \in Caller, Tables(c)
    PROVE  KnownInv'
<1>1. ASSUME NEW d \in Caller, d # c
      PROVE  /\ pc'[d] = pc[d] /\ todo'[d] = todo[d]
             /\ Row(d)' = Row(d) /\ ChildOf(d)' = ChildOf(d)
  BY <1>1, SameRow DEF Tables, Alone
<1>2. ASSUME NEW d \in Caller, pc'[d] \in {"run_found", "run_store", "cancel_store"}
      PROVE  product'[ChildOf(d)'] = "accepted"
  <2>1. CASE d = c
    BY <1>2, <2>1, SameRow DEF Tables, LabelTable
  <2>2. CASE d # c
    <3>1. product[ChildOf(d)] = "accepted" /\ todo[d] # {}
      BY <1>1, <1>2, <2>2, CallOf DEF KnownInv, RowLabels, RunRows, CancelRow, ClaimedLabels
    <3> QED  BY <1>1, <2>2, <3>1, RowAtHand, ChildrenStand
  <2> QED  BY <2>1, <2>2
<1>3. ASSUME NEW d \in Caller, pc'[d] \in {"run_claim"} \union RunnerLabels PROVE Ready(d)'
  <2>1. Row(d)' = Row(d)
    BY <1>1, <1>3, SameRow DEF Tables, RunTable, ClaimedLabels
  <2>2. Ready(d)
    BY <1>1, <1>3 DEF KnownInv, Tables, RunTable
  <2>3. pc[d] \in {"run_row", "run_claim"} \union RunnerLabels
    BY <1>1, <1>3 DEF Tables, RunTable
  <2>4. Row(d).index \in Steps
    BY <2>3, CallOf, RowAtHand DEF RowLabels, RunRows, ClaimedLabels
  <2> QED  BY <2>1, <2>2, <2>4, StepsStand, MultiAssumption DEF Ready
<1>4. ASSUME NEW d \in Caller, pc'[d] \in FinalLabels, NEW i \in Steps
      PROVE  step_status'[i] = "ACCEPTED"
  BY <1>1, <1>4, StepsStand DEF KnownInv, Tables, LabelTable
<1>5. ASSUME NEW d \in Caller, pc'[d] \in PartialLabels
      PROVE  \E i \in Steps : step_status'[i] = "ACCEPTED"
  BY <1>1, <1>5, StepsStand DEF KnownInv, Tables, LabelTable
<1>6. ASSUME NEW d \in Caller, pc'[d] \in PartialLabels \union CancelledLabels \union {"close_read"}
      PROVE  \E i \in Steps : step_status'[i] \in ClosedStates
  <2>1. CASE pc[d] \in PartialLabels \union CancelledLabels \union {"close_read"}
    BY <2>1, StepsStand DEF KnownInv
  <2>2. CASE d = c /\ pc[c] = "cancel_check" /\ \E i \in Steps : step_status[i] # "ACCEPTED"
    <3>1. PICK i \in Steps : step_status[i] # "ACCEPTED"
      BY <2>2
    <3>2. step_status[i] \in ClosedStates
      BY <2>2, <3>1 DEF KnownInv, DoneStates
    <3> QED  BY <3>2, StepsStand
  <2>3. CASE /\ d = c /\ pc[c] = "close_step" /\ pc'[c] = "close_read"
             /\ step_status'[Row(c).index] \in {"ACCEPTED", "FAILED_TERMINAL"}
    <3> DEFINE i == Row(c).index
    <3>1. i \in Steps /\ Row(c) \in todo[c] /\ ChildOf(c) \in Child
      BY <2>3, CallOf, RowAtHand DEF RowLabels, RunRows
    <3>2. ChildOf(c) = <<i, prepare_attempt[i]>>
      BY <3>1 DEF RowsInv, ChildOf
    <3>3. step_status'[i] = "ACCEPTED" => step_status[i] = "ACCEPTED"
      BY <2>3, <3>1 DEF Tables, StepTable, Write, TypeInv, ThreadTypes
    <3>4. CASE step_status[i] = "ACCEPTED"
      <4>1. product[ChildOf(c)] = "accepted"
        BY <3>1, <3>2, <3>4 DEF StepsInv, AcceptedIsComplete
      <4> QED  BY <2>3, <3>4, <4>1 DEF RunnersInv, Unfinished, Closed, ClosedStates
    <3> QED  BY <2>3, <3>1, <3>3, <3>4 DEF ClosedStates
  <2> QED  BY <1>1, <1>6, <2>1, <2>2, <2>3 DEF Tables, LabelTable
<1>7. ASSUME NEW d \in Caller, pc'[d] = "cancel_check" PROVE todo'[d] = {}
  BY <1>1, <1>7 DEF KnownInv, Tables, LabelTable
<1>8. ASSUME NEW d \in Caller, pc'[d] \in CancelRow \union {"cancel_check"}, NEW i \in Steps
      PROVE  step_status'[i] \in DoneStates \/ \E row \in todo'[d] : row.index = i
  <2>1. step_status[i] \in DoneStates => step_status'[i] \in DoneStates
    BY StepsStand DEF DoneStates
  <2>2. CASE pc[d] \in CancelRow \union {"cancel_check"} /\ todo'[d] = todo[d]
    BY <2>1, <2>2 DEF KnownInv
  <2>3. CASE /\ d = c /\ pc[c] = "cancel_read" /\ step_status' = step_status
             /\ todo'[c] = {StepRow(k) : k \in
                              {n \in Steps : step_status[n] \notin Passed("cancel")}}
    <3>1. CASE step_status[i] \in Passed("cancel")
      BY <2>3, <3>1 DEF Passed, DoneStates, ClosedStates
    <3>2. CASE step_status[i] \notin Passed("cancel")
      <4>1. StepRow(i) \in todo'[c] /\ StepRow(i).index = i
        BY <2>3, <3>2 DEF StepRow
      <4> QED  BY <2>3, <4>1
    <3> QED  BY <3>1, <3>2
  <2>4. CASE /\ d = c /\ pc[c] \in CancelRow /\ todo'[c] = todo[c] \ {Row(c)}
             /\ step_status'[Row(c).index] \in DoneStates
    BY <2>1, <2>4 DEF KnownInv
  <2> QED  BY <1>1, <1>8, <2>2, <2>3, <2>4 DEF Tables, LabelTable
<1> QED  BY <1>2, <1>3, <1>4, <1>5, <1>6, <1>7, <1>8 DEF KnownInv

----------------------------------------------------------------------------
(* The theorems                                                            *)

\* The invariant that needs no assumption on the threads.
LEMMA RequestInduction == Spec => []RequestInv
<1>1. Init => RequestInv
  <2> SUFFICES ASSUME Init PROVE RequestInv
    OBVIOUS
  <2> USE MultiAssumption DEF Init, SagaInit, Idle
  <2>1. TypeOK /\ ThreadTypes /\ ExecutedOnce
    BY DEF TypeOK, ThreadTypes, ExecutedOnce, EarlyStates, StepStates, Calls, Labels, Statuses,
       Terminal
  <2>2. OnPath
    BY DEF OnPath, LabelsOf, RowLabels, PrepareRow, DecideRow, RunRows, CancelRow, InterruptRow,
           ClaimedLabels, RunnerLabels
  <2>3. ClosedInv
    BY DEF ClosedInv, ClosureMatches, CloseLabel, Terminal
  <2> QED  BY <2>1, <2>2, <2>3 DEF RequestInv, TypeInv, GrantsInv
<1>2. RequestInv /\ [Next]_vars => RequestInv'
  <2> SUFFICES ASSUME RequestInv, [Next]_vars PROVE RequestInv'
    OBVIOUS
  <2>1. TypeInv /\ ClosedInv /\ GrantsInv /\ TypeInv'
    BY Moves DEF RequestInv
  <2>2. CASE Quiet
    BY <2>1, <2>2
    DEF Quiet, RequestInv, ClosedInv, ClosureMatches, GrantsInv, Holder, ChildOf, Row, CloseLabel
  <2>3. CASE Crash
    <3>1. ClosedInv'
      BY <2>1, <2>3 DEF Crash, ClosedInv, ClosureMatches, CloseLabel, Terminal, Idle, parent
    <3>2. crashes' # 0
      BY <2>1, <2>3 DEF Crash, TypeInv, TypeOK
    <3> QED  BY <2>1, <3>1, <3>2 DEF RequestInv, GrantsInv
  <2>4. ASSUME NEW c \in Caller, Tables(c) PROVE RequestInv'
    BY <2>1, <2>4, ClosedStep, GrantsStep DEF RequestInv
  <2> QED  BY <2>1, <2>2, <2>3, <2>4, Moves
<1> QED  BY <1>1, <1>2, PTL DEF Spec

\* With it, what one preparing thread makes sure of.
LEMMA PlanInduction ==
    ASSUME OnePreparer PROVE Spec => []PlanInv
<1>1. Init => StepRowsInv
  <2> SUFFICES ASSUME Init PROVE StepRowsInv
    OBVIOUS
  <2> USE MultiAssumption DEF Init, SagaInit, Idle
  <2>1. PhaseInv /\ RowsInv
    BY DEF PhaseInv, RowsInv, Unstarted
  <2>2. RunnersInv
    BY DEF RunnersInv, Runner, Unfinished, ClaimedLabels, RunnerLabels
  <2>3. KnownInv
    BY DEF KnownInv, RunnerLabels, FinalLabels, PartialLabels, CancelledLabels, CancelRow
  <2>4. StepsInv
    BY DEF StepsInv, AcceptedIsComplete, DependencyOrder
  <2> QED  BY <2>1, <2>2, <2>3, <2>4 DEF StepRowsInv
<1>2. RequestInv /\ StepRowsInv /\ [Next]_vars => StepRowsInv'
  <2> SUFFICES ASSUME RequestInv, StepRowsInv, [Next]_vars PROVE StepRowsInv'
    OBVIOUS
  <2>1. /\ TypeInv /\ ClosedInv /\ TypeInv'
        /\ PhaseInv /\ RowsInv /\ RunnersInv /\ KnownInv /\ StepsInv
    BY Moves DEF RequestInv, StepRowsInv
  <2>2. CASE Quiet
    <3>1. PhaseInv' /\ RowsInv' /\ StepsInv'
      BY <2>1, <2>2
      DEF Quiet, PhaseInv, RowsInv, StepsInv, AcceptedIsComplete, DependencyOrder
    <3>2. RunnersInv'
      BY <2>1, <2>2 DEF Quiet, RunnersInv, Runner, Unfinished, ChildOf, Row
    <3>3. KnownInv'
      BY <2>1, <2>2 DEF Quiet, KnownInv, Ready, ChildOf, Row
    <3> QED  BY <3>1, <3>2, <3>3 DEF StepRowsInv
  <2>3. CASE Crash
    <3> USE DEF Crash, children, parent, steps, Idle
    <3>1. PhaseInv' /\ RowsInv' /\ StepsInv'
      BY <2>1, <2>3
      DEF PhaseInv, RowsInv, StepsInv, AcceptedIsComplete, DependencyOrder
    <3>2. RunnersInv'
      BY <2>1, <2>3 DEF RunnersInv, Runner, Unfinished, ClaimedLabels, RunnerLabels
    <3>3. KnownInv'
      BY <2>3
      DEF KnownInv, RunnerLabels, FinalLabels, PartialLabels, CancelledLabels, CancelRow
    <3> QED  BY <3>1, <3>2, <3>3 DEF StepRowsInv
  <2>4. ASSUME NEW c \in Caller, Tables(c) PROVE StepRowsInv'
    BY <2>1, <2>4, PhaseStep, RowsStep, RunnersStep, KnownStep, StepsStep DEF StepRowsInv
  <2> QED  BY <2>1, <2>2, <2>3, <2>4, Moves
<1> QED  BY <1>1, <1>2, RequestInduction, PTL DEF Spec, PlanInv

\* Whoever swaps the parent's status, its first terminal status stays, and
\* the closure that another transaction records does not contradict it.
THEOREM ParentStands == Spec => ([]ClosureMatches) /\ TerminalIsFinal
<1>1. RequestInv => ClosureMatches
  BY DEF RequestInv, ClosedInv
<1>2. RequestInv /\ [Next]_vars => [(status \in Terminal) => status' = status]_vars
  <2> SUFFICES ASSUME RequestInv, [Next]_vars PROVE status \in Terminal => status' = status
    OBVIOUS
  <2>1. CASE Quiet
    BY <2>1 DEF Quiet
  <2>2. CASE Crash
    BY <2>2 DEF Crash, parent
  <2>3. ASSUME NEW c \in Caller, Tables(c) PROVE status \in Terminal => status' = status
    BY <2>3, StatusMoves DEF RequestInv
  <2> QED  BY <2>1, <2>2, <2>3, Moves DEF RequestInv
<1> QED  BY <1>1, <1>2, RequestInduction, PTL DEF Spec, TerminalIsFinal

\* Until the process stops, every grant that execute of a step has registered
\* is revoked by the time its call is over.
THEOREM GrantsAreRevoked == Spec => []NothingLeaks
<1>1. RequestInv => NothingLeaks
  <2> SUFFICES ASSUME RequestInv, crashes = 0, pc = Idle PROVE granted \subseteq revoked
    BY DEF NothingLeaks
  <2>1. \A c \in Caller : ~Holder(c)
    BY DEF Holder, Idle, HolderLabels, ClaimedLabels, RunnerLabels, FailureLabels, PartialLabels,
           FailLabels
  <2> QED  BY <2>1 DEF RequestInv, GrantsInv
<1> QED  BY <1>1, RequestInduction, PTL

\* No step's child runs before the steps it depends on are accepted, and they
\* stay accepted.
THEOREM StepsInOrder ==
    ASSUME OnePreparer PROVE Spec => []DependencyOrder
<1>1. PlanInv => DependencyOrder
  BY DEF PlanInv, StepRowsInv, StepsInv
<1> QED  BY <1>1, PlanInduction, PTL

\* Accepted, partial, cancelled and denied are what the steps and their
\* products say.
THEOREM OutcomeMatchesSteps ==
    ASSUME OnePreparer PROVE Spec => []MultiInv
<1>1. PlanInv => MultiInv
  <2> SUFFICES ASSUME PlanInv PROVE MultiInv
    OBVIOUS
  <2>1. TypeOK /\ ClosureMatches /\ AcceptedIsComplete
    BY DEF PlanInv, RequestInv, TypeInv, ClosedInv, StepRowsInv, StepsInv
  <2>2. status \in {"PARTIAL", "CANCELLED"} => \E i \in Steps : step_status[i] # "ACCEPTED"
    BY DEF PlanInv, StepRowsInv, StepsInv, ClosedStates
  <2>3. status = "DENIED" => \E i \in Steps : step_status[i] # "ACCEPTED"
    BY MultiAssumption DEF PlanInv, StepRowsInv, PhaseInv, Unstarted, Steps
  <2>4. status = "PARTIAL" => \E i \in Steps : step_status[i] = "ACCEPTED"
    BY DEF PlanInv, StepRowsInv, StepsInv
  <2> QED  BY <2>1, <2>2, <2>3, <2>4 DEF MultiInv, OutcomeIsTruthful
<1> QED  BY <1>1, PlanInduction, PTL

\* No cancellation, failure, denial or recovery takes back an accepted step or
\* the parent's terminal status.
THEOREM OutcomesStandFast ==
    ASSUME OnePreparer PROVE Spec => OutcomesStand
<1>1. PlanInv /\ [Next]_vars =>
         [\A i \in Steps : step_status[i] = "ACCEPTED" => step_status'[i] = "ACCEPTED"]_vars
  <2> SUFFICES ASSUME PlanInv, [Next]_vars, NEW i \in Steps, step_status[i] = "ACCEPTED"
               PROVE  step_status'[i] = "ACCEPTED"
    OBVIOUS
  <2>1. CASE Quiet
    BY <2>1 DEF Quiet
  <2>2. CASE Crash
    BY <2>2 DEF Crash, steps
  <2>3. ASSUME NEW c \in Caller, Tables(c) PROVE step_status'[i] = "ACCEPTED"
    BY <2>3, StepsStand DEF PlanInv, RequestInv, StepRowsInv
  <2> QED  BY <2>1, <2>2, <2>3, Moves DEF PlanInv, RequestInv
<1>2. Spec => ResultsAreKept
  BY <1>1, PlanInduction, PTL DEF Spec, ResultsAreKept
<1> QED  BY <1>2, ParentStands, PTL DEF OutcomesStand
=============================================================================
