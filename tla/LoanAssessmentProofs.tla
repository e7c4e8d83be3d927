------------------------ MODULE LoanAssessmentProofs ------------------------
(***************************************************************************)
(* Proofs about LoanAssessment for any runs, any number of retries and any *)
(* number of faults.                                                       *)
(***************************************************************************)
EXTENDS LoanAssessment, TLAPS

First == {"document_verifier"}
Parallel == {"credit_assessor", "fraud_screener"}

(* A run gets no further than the parallel step, and what follows that     *)
(* step follows an exception.                                              *)
ProgressOK(r) ==
    /\ run[r].pc = "step" => run[r].step \in {First, Parallel}
    /\ run[r].pc # "step" => run[r].todo = {}
    /\ run[r].busy \subseteq run[r].todo
    /\ run[r].todo \subseteq run[r].step
    /\ run[r].pc \in {"new", "done"} => \A n \in Node : run[r].tried[n] = 0
    /\ run[r].pc \in {"trace", "commit"} => run[r].error
    /\ run[r].pc = "commit" /\ ~run[r].aborted =>
           run[r].trace \in {"none", "failed"}

(* A run with a committed row or an answer is over.                        *)
RowOK(r) ==
    /\ row[r] # "none" => run[r].pc = "done" /\ row[r] = answer[r]
    /\ answer[r] # "none" => run[r].pc = "done"
    /\ answer[r] # "completed"

Progress == \A r \in Run : ProgressOK(r)
Rows == \A r \in Run : RowOK(r)
RetriesTripped ==
    \A r \in Run, n \in Node : run[r].tried[n] > 0 => n \in tripped

IInv == TypeOK /\ Progress /\ Rows /\ RetriesTripped /\ FallbackHasReason

-----------------------------------------------------------------------------
LEMMA NewRunShape ==
  ASSUME NEW kind \in {"run", "stream"},
         NEW workflow \in {"loan_assessment", "other"}
  PROVE  /\ NewRun(kind, workflow) \in RunState
         /\ NewRun(kind, workflow).pc = "new"
         /\ NewRun(kind, workflow).todo = {}
         /\ NewRun(kind, workflow).busy = {}
         /\ \A n \in Node : NewRun(kind, workflow).tried[n] = 0
  BY DEF NewRun, RunState

LEMMA OverTyped ==
  ASSUME TypeOK, NEW r \in Run
  PROVE  Over(r) \in RunState
  BY DEF TypeOK, Over, NewRun, RunState

(* The patches of the parallel nodes meet in "current_node", whatever      *)
(* became of the two.                                                      *)
LEMMA ParallelConflicts ==
  ASSUME NEW failed
  PROVE  Conflict(Parallel, failed)
<1>1. /\ "current_node" \in Writes("credit_assessor",
                                   "credit_assessor" \notin failed)
      /\ "current_node" \in Writes("fraud_screener",
                                   "fraud_screener" \notin failed)
  BY DEF Writes, Walked
<1> QED
  BY <1>1 DEF Conflict, Parallel

LEMMA FirstLeadsToParallel ==
  ASSUME NEW failed
  PROVE  ~Conflict(First, failed) /\ NextSteps(First) = {Parallel}
  BY DEF Conflict, First, Parallel, NextSteps

LEMMA InitIInv == Init => IInv
<1> SUFFICES ASSUME Init PROVE IInv
  OBVIOUS
<1> DEFINE Fresh == {NewRun(kind, workflow) :
                        kind \in {"run", "stream"},
                        workflow \in {"loan_assessment", "other"}}
<1>0. ASSUME NEW fresh \in Fresh
      PROVE  /\ fresh \in RunState
             /\ fresh.pc = "new" /\ fresh.todo = {} /\ fresh.busy = {}
             /\ \A n \in Node : fresh.tried[n] = 0
  <2>1. PICK kind \in {"run", "stream"},
             workflow \in {"loan_assessment", "other"} :
          fresh = NewRun(kind, workflow)
    OBVIOUS
  <2> QED
    BY <2>1, NewRunShape
<1>1. run \in [Run -> Fresh]
  BY DEF Init
<1> HIDE DEF Fresh
<1>2. TypeOK
  <2>1. run \in [Run -> RunState]
    BY <1>0, <1>1
  <2> QED
    BY <1>0, <1>1, <2>1, LoanAssumption DEF Init, TypeOK
<1>3. Progress /\ Rows /\ RetriesTripped /\ FallbackHasReason
  BY <1>0, <1>1 DEF Init, Progress, ProgressOK, Rows, RowOK, RetriesTripped,
              FallbackHasReason
<1> QED
  BY <1>2, <1>3 DEF IInv

-----------------------------------------------------------------------------
(* Steps of one run that commit nothing.                                   *)
LEMMA RunStep ==
  ASSUME IInv, NEW r \in Run, NEW next \in RunState,
         run' = [run EXCEPT ![r] = next],
         UNCHANGED <<row, answer>>,
         primary' \in [Node -> {"primary", "fallback"}],
         faults' \in Nat,
         tripped \subseteq tripped', tripped' \subseteq Node,
         run[r].pc # "done",
         ProgressOK(r)',
         \A n \in Node : /\ next.tried[n] <= MaxRetries
                         /\ next.tried[n] > 0 => n \in tripped'
                         /\ primary'[n] = "fallback" => n \in tripped'
  PROVE  IInv'
<1>1. /\ run' \in [Run -> RunState]
      /\ run'[r] = next
      /\ \A q \in Run \ {r} : run'[q] = run[q]
  BY DEF IInv, TypeOK
<1>2. TypeOK'
  BY <1>1 DEF IInv, TypeOK
<1>3. Progress'
  BY <1>1 DEF IInv, Progress, ProgressOK
<1>4. Rows'
  BY <1>1 DEF IInv, Rows, RowOK
<1>5. RetriesTripped' /\ FallbackHasReason'
  BY <1>1 DEF IInv, RetriesTripped, FallbackHasReason
<1> QED
  BY <1>2, <1>3, <1>4, <1>5 DEF IInv

LEMMA CreateTraceStep ==
  ASSUME IInv, NEW r \in Run, CreateTrace(r) \/ CreateTraceFails(r)
  PROVE  IInv'
<1>1. PICK trace \in {"running", "none"}, aborted \in BOOLEAN :
        run' = [run EXCEPT ![r] = Begun(r, trace, aborted)]
  BY DEF CreateTrace, CreateTraceFails
<1>2. /\ run \in [Run -> RunState] /\ run[r] \in RunState
      /\ run[r].pc = "new" /\ ProgressOK(r)
      /\ faults' \in Nat
      /\ UNCHANGED <<row, answer, primary, tripped>>
  <2>1. TypeOK /\ ProgressOK(r)
    BY DEF IInv, Progress
  <2>2. CASE CreateTrace(r)
    BY <2>1, <2>2 DEF CreateTrace, TypeOK
  <2>3. CASE CreateTraceFails(r)
    BY <2>1, <2>3 DEF CreateTraceFails, Fault, TypeOK
  <2> QED
    BY <2>2, <2>3
<1>3. Begun(r, trace, aborted) \in RunState
  BY <1>2 DEF Begun, RunState, Node
<1>4. run'[r] = Begun(r, trace, aborted)
  BY <1>1, <1>2
<1>5. ProgressOK(r)'
  BY <1>2, <1>4 DEF ProgressOK, Begun, First, RunState
<1>6. Begun(r, trace, aborted).tried = run[r].tried
  BY <1>2 DEF Begun, RunState
<1> HIDE DEF Begun
<1> QED
  BY <1>1, <1>2, <1>3, <1>5, <1>6, RunStep
     DEF IInv, TypeOK, RetriesTripped, FallbackHasReason

LEMMA InvokeStep ==
  ASSUME IInv, NEW r \in Run, NEW n \in Node, Invoke(r, n)
  PROVE  IInv'
<1> DEFINE next == [run[r] EXCEPT !.busy = @ \cup {n}]
<1>1. /\ run \in [Run -> RunState] /\ run[r] \in RunState
      /\ run[r].pc = "step" /\ n \in run[r].todo /\ ProgressOK(r)
  BY DEF Invoke, Waits, IInv, TypeOK, Progress
<1>2. run' = [run EXCEPT ![r] = next] /\ next \in RunState /\ run'[r] = next
  BY <1>1 DEF Invoke, RunState
<1>3. ProgressOK(r)'
  BY <1>1, <1>2 DEF ProgressOK, RunState
<1>4. /\ primary' \in [Node -> {"primary", "fallback"}]
      /\ \A m \in Node : primary'[m] = "fallback" => m \in tripped
  BY DEF Invoke, IInv, TypeOK, RetriesTripped, FallbackHasReason
<1>5. next.tried = run[r].tried
  BY <1>1 DEF RunState
<1>6. UNCHANGED <<row, answer, faults, tripped>>
  BY DEF Invoke
<1> HIDE DEF next
<1> QED
  BY <1>1, <1>2, <1>3, <1>4, <1>5, <1>6, RunStep
     DEF IInv, TypeOK, RetriesTripped

LEMMA ReturnStep ==
  ASSUME IInv, NEW r \in Run, NEW n \in Node, Return(r, n)
  PROVE  IInv'
<1> DEFINE next == [run[r] EXCEPT !.busy = @ \ {n}, !.todo = @ \ {n},
                                  !.tried = [@ EXCEPT ![n] = 0]]
<1>1. /\ run \in [Run -> RunState] /\ run[r] \in RunState
      /\ run[r].pc = "step" /\ ProgressOK(r)
  BY DEF Return, Waits, IInv, TypeOK, Progress, ProgressOK
<1>2. run' = [run EXCEPT ![r] = next] /\ next \in RunState /\ run'[r] = next
  BY <1>1 DEF Return, RunState
<1>3. ProgressOK(r)'
  BY <1>1, <1>2 DEF ProgressOK, RunState
<1>4. next.tried = [run[r].tried EXCEPT ![n] = 0]
  BY <1>1 DEF RunState
<1>5. run[r].tried \in [Node -> Nat]
  BY <1>1 DEF RunState
<1>6. UNCHANGED <<row, answer, primary, faults, tripped>>
  BY DEF Return
<1> HIDE DEF next
<1>7. \A m \in Node : /\ next.tried[m] <= MaxRetries
                      /\ next.tried[m] > 0 => m \in tripped
  BY <1>4, <1>5, LoanAssumption DEF IInv, TypeOK, RetriesTripped
<1> QED
  BY <1>1, <1>2, <1>3, <1>6, <1>7, RunStep
     DEF IInv, TypeOK, FallbackHasReason

LEMMA CallFailsStep ==
  ASSUME IInv, NEW r \in Run, NEW n \in Node, CallFails(r, n)
  PROVE  IInv'
<1> DEFINE again == [run[r] EXCEPT !.busy = @ \ {n},
                                   !.tried = [run[r].tried EXCEPT ![n] =
                                                 run[r].tried[n] + 1]]
           gives == [run[r] EXCEPT !.busy = @ \ {n}, !.todo = @ \ {n},
                                   !.tried = [@ EXCEPT ![n] = 0],
                                   !.failed = @ \cup {n}]
<1>1. /\ run \in [Run -> RunState] /\ run[r] \in RunState
      /\ run[r].pc = "step" /\ ProgressOK(r)
  BY DEF CallFails, IInv, TypeOK, Progress, ProgressOK
<1>2. run[r].tried \in [Node -> Nat]
  BY <1>1 DEF RunState
<1>3. /\ UNCHANGED <<row, answer, primary, faults>>
      /\ tripped' = tripped \cup {n}
  BY DEF CallFails
<1>4. CASE run[r].tried[n] < MaxRetries
  <2>1. run' = [run EXCEPT ![r] = again] /\ again \in RunState
        /\ run'[r] = again
    BY <1>1, <1>4 DEF CallFails, RunState
  <2>2. ProgressOK(r)'
    BY <1>1, <2>1 DEF ProgressOK, RunState
  <2>3. again.tried = [run[r].tried EXCEPT ![n] = run[r].tried[n] + 1]
    BY <1>1, <1>2 DEF RunState
  <2> HIDE DEF again
  <2>4. \A m \in Node : /\ again.tried[m] <= MaxRetries
                        /\ again.tried[m] > 0 => m \in tripped'
    BY <1>2, <1>3, <1>4, <2>3, LoanAssumption
       DEF IInv, TypeOK, RetriesTripped
  <2> QED
    BY <1>1, <1>3, <2>1, <2>2, <2>4, RunStep
       DEF IInv, TypeOK, FallbackHasReason
<1>5. CASE ~(run[r].tried[n] < MaxRetries)
  <2>1. run' = [run EXCEPT ![r] = gives] /\ gives \in RunState
        /\ run'[r] = gives
    BY <1>1, <1>5 DEF CallFails, RunState
  <2>2. ProgressOK(r)'
    BY <1>1, <2>1 DEF ProgressOK, RunState
  <2>3. gives.tried = [run[r].tried EXCEPT ![n] = 0]
    BY <1>1 DEF RunState
  <2> HIDE DEF gives
  <2>4. \A m \in Node : /\ gives.tried[m] <= MaxRetries
                        /\ gives.tried[m] > 0 => m \in tripped'
    BY <1>2, <1>3, <2>3, LoanAssumption DEF IInv, TypeOK, RetriesTripped
  <2> QED
    BY <1>1, <1>3, <2>1, <2>2, <2>4, RunStep
       DEF IInv, TypeOK, FallbackHasReason
<1> QED
  BY <1>4, <1>5

LEMMA EndStepStep ==
  ASSUME IInv, NEW r \in Run, EndStep(r)
  PROVE  IInv'
<1> DEFINE raised == [run[r] EXCEPT !.pc = "trace", !.error = TRUE,
                                    !.step = {}, !.failed = {}]
           parallel == [run[r] EXCEPT !.step = Parallel, !.todo = Parallel,
                                      !.failed = {}, !.pc = "step"]
<1>1. /\ run \in [Run -> RunState] /\ run[r] \in RunState
      /\ run[r].pc = "step" /\ run[r].todo = {} /\ ProgressOK(r)
      /\ UNCHANGED <<row, answer, primary, faults, tripped>>
  BY DEF EndStep, IInv, TypeOK, Progress
<1>2. CASE run[r].step = Parallel
  <2>1. run' = [run EXCEPT ![r] = raised] /\ raised \in RunState
        /\ run'[r] = raised
    BY <1>1, <1>2, ParallelConflicts DEF EndStep, RunState
  <2>2. ProgressOK(r)' /\ raised.tried = run[r].tried
    BY <1>1, <2>1 DEF ProgressOK, RunState
  <2> HIDE DEF raised
  <2> QED
    BY <1>1, <2>1, <2>2, RunStep
       DEF IInv, TypeOK, RetriesTripped, FallbackHasReason
<1>3. CASE run[r].step = First
  <2>1. run' = [run EXCEPT ![r].step = Parallel, ![r].todo = Parallel,
                           ![r].failed = {}, ![r].pc = "step"]
    BY <1>1, <1>3, FirstLeadsToParallel DEF EndStep, Parallel
  <2>2. run' = [run EXCEPT ![r] = parallel] /\ parallel \in RunState
        /\ run'[r] = parallel
    BY <1>1, <2>1 DEF RunState, Parallel, Node
  <2>3. ProgressOK(r)' /\ parallel.tried = run[r].tried
    BY <1>1, <2>2 DEF ProgressOK, RunState
  <2> HIDE DEF parallel
  <2> QED
    BY <1>1, <2>2, <2>3, RunStep
       DEF IInv, TypeOK, RetriesTripped, FallbackHasReason
<1> QED
  BY <1>1, <1>2, <1>3 DEF ProgressOK

LEMMA EndTraceStep ==
  ASSUME IInv, NEW r \in Run, EndTrace(r) \/ EndTraceFails(r)
  PROVE  IInv'
<1> DEFINE ended == [run[r] EXCEPT !.pc = "commit", !.trace = Ended(r)]
           lost == [run[r] EXCEPT !.pc = "commit", !.aborted = TRUE]
<1>1. /\ run \in [Run -> RunState] /\ run[r] \in RunState
      /\ run[r].pc = "trace" /\ ProgressOK(r)
      /\ faults' \in Nat
      /\ UNCHANGED <<row, answer, primary, tripped>>
  BY DEF EndTrace, EndTraceFails, Fault, IInv, TypeOK, Progress
<1>2. Ended(r) \in {"none", "failed"}
  BY <1>1 DEF Ended, ProgressOK
<1>3. CASE EndTrace(r)
  <2>1. run' = [run EXCEPT ![r] = ended] /\ ended \in RunState
        /\ run'[r] = ended
    BY <1>1, <1>2, <1>3 DEF EndTrace, RunState
  <2>2. ProgressOK(r)' /\ ended.tried = run[r].tried
    BY <1>1, <1>2, <2>1 DEF ProgressOK, RunState
  <2> HIDE DEF ended
  <2> QED
    BY <1>1, <2>1, <2>2, RunStep
       DEF IInv, TypeOK, RetriesTripped, FallbackHasReason
<1>4. CASE EndTraceFails(r)
  <2>1. run' = [run EXCEPT ![r] = lost] /\ lost \in RunState
        /\ run'[r] = lost
    BY <1>1, <1>4 DEF EndTraceFails, RunState
  <2>2. ProgressOK(r)' /\ lost.tried = run[r].tried
    BY <1>1, <2>1 DEF ProgressOK, RunState
  <2> HIDE DEF lost
  <2> QED
    BY <1>1, <2>1, <2>2, RunStep
       DEF IInv, TypeOK, RetriesTripped, FallbackHasReason
<1> QED
  BY <1>3, <1>4

(* The last steps of a run: it is over and has its answer.                 *)
LEMMA CommitStep ==
  ASSUME IInv, NEW r \in Run, Commit(r) \/ ClientLeaves(r)
  PROVE  IInv'
<1>1. /\ run \in [Run -> RunState] /\ ProgressOK(r) /\ RowOK(r)
      /\ run[r].pc # "done" /\ row[r] = "none"
      /\ run' = [run EXCEPT ![r] = Over(r)]
      /\ UNCHANGED <<primary, faults, tripped>>
  BY DEF Commit, ClientLeaves, IInv, TypeOK, Progress, Rows, RowOK
<1>2. /\ answer' \in [Run -> {"none", "completed", "failed", "lost"}]
      /\ answer'[r] \in {"failed", "lost"}
      /\ \A q \in Run \ {r} : answer'[q] = answer[q]
  BY <1>1 DEF Commit, ClientLeaves, IInv, TypeOK, ProgressOK
<1>3. /\ row' \in [Run -> {"none", "running", "completed", "failed"}]
      /\ row'[r] = "none" \/ row'[r] = answer'[r]
      /\ \A q \in Run \ {r} : row'[q] = row[q]
  <2>1. CASE ClientLeaves(r)
    BY <1>1, <2>1 DEF ClientLeaves, IInv, TypeOK
  <2>2. CASE Commit(r)
    <3>1. answer'[r] = "failed"
      BY <1>1, <2>2 DEF Commit, IInv, TypeOK, ProgressOK
    <3> QED
      BY <1>1, <2>2, <3>1 DEF Commit, IInv, TypeOK, ProgressOK
  <2> QED
    BY <2>1, <2>2
<1>4. /\ Over(r) \in RunState /\ run'[r] = Over(r)
      /\ \A q \in Run \ {r} : run'[q] = run[q]
      /\ Over(r).pc = "done" /\ Over(r).todo = {} /\ Over(r).busy = {}
      /\ \A n \in Node : Over(r).tried[n] = 0
  BY <1>1, OverTyped DEF IInv, Over, NewRun
<1> HIDE DEF Over
<1>5. TypeOK'
  <2>1. run' \in [Run -> RunState]
    BY <1>1, <1>4
  <2>2. \A q \in Run, n \in Node : run'[q].tried[n] <= MaxRetries
    BY <1>4, LoanAssumption DEF IInv, TypeOK
  <2> QED
    BY <1>1, <1>2, <1>3, <2>1, <2>2 DEF IInv, TypeOK
<1>6. Progress'
  BY <1>4 DEF IInv, Progress, ProgressOK
<1>7. Rows'
  BY <1>2, <1>3, <1>4 DEF IInv, Rows, RowOK
<1>8. RetriesTripped' /\ FallbackHasReason'
  BY <1>1, <1>4 DEF IInv, RetriesTripped, FallbackHasReason
<1> QED
  BY <1>5, <1>6, <1>7, <1>8 DEF IInv

LEMMA RestartStep ==
  ASSUME IInv, Restart
  PROVE  IInv'
<1>1. \A r \in Run :
        \/ /\ run[r].pc \in {"new", "done"}
           /\ run'[r] = run[r] /\ answer'[r] = answer[r]
        \/ /\ run[r].pc \notin {"new", "done"}
           /\ run'[r] = Over(r) /\ answer'[r] = "lost"
  BY DEF Restart
<1>2. \A r \in Run :
        /\ Over(r) \in RunState
        /\ Over(r).pc = "done" /\ Over(r).todo = {} /\ Over(r).busy = {}
        /\ \A n \in Node : Over(r).tried[n] = 0
  BY OverTyped DEF IInv, Over, NewRun
<1>3. /\ run' = [r \in Run |-> run'[r]] /\ answer' = [r \in Run |-> answer'[r]]
      /\ primary' = [n \in Node |-> "primary"] /\ tripped' = {}
      /\ row' = row /\ faults' \in Nat
  BY DEF Restart, Fault, IInv, TypeOK
<1> HIDE DEF Over
<1>4. run' \in [Run -> RunState]
      /\ answer' \in [Run -> {"none", "completed", "failed", "lost"}]
  BY <1>1, <1>2, <1>3 DEF IInv, TypeOK
<1>5. \A r \in Run, n \in Node : run'[r].tried[n] = 0
  BY <1>1, <1>2 DEF IInv, Progress, ProgressOK
<1>6. TypeOK'
  BY <1>3, <1>4, <1>5, LoanAssumption DEF IInv, TypeOK
<1>7. Progress'
  BY <1>1, <1>2 DEF IInv, Progress, ProgressOK
<1>8. Rows'
  BY <1>1, <1>2, <1>3 DEF IInv, Rows, RowOK
<1>9. RetriesTripped' /\ FallbackHasReason'
  BY <1>3, <1>5 DEF RetriesTripped, FallbackHasReason
<1> QED
  BY <1>6, <1>7, <1>8, <1>9 DEF IInv

LEMMA NextIInv == IInv /\ [Next]_vars => IInv'
<1> SUFFICES ASSUME IInv, [Next]_vars PROVE IInv'
  OBVIOUS
<1>1. ASSUME NEW r \in Run, CreateTrace(r) \/ CreateTraceFails(r) PROVE IInv'
  BY <1>1, CreateTraceStep
<1>2. ASSUME NEW r \in Run, Step(r) PROVE IInv'
  BY <1>2, InvokeStep, ReturnStep, CallFailsStep, EndStepStep, EndTraceStep,
     CommitStep DEF Step
<1>3. ASSUME NEW r \in Run, EndTraceFails(r) \/ ClientLeaves(r) PROVE IInv'
  BY <1>3, EndTraceStep, CommitStep
<1>4. ASSUME Restart PROVE IInv'
  BY <1>4, RestartStep
<1>5. ASSUME UNCHANGED vars PROVE IInv'
  BY <1>5 DEF vars, IInv, TypeOK, Progress, ProgressOK, Rows, RowOK,
              RetriesTripped, FallbackHasReason
<1> QED
  BY <1>1, <1>2, <1>3, <1>4, <1>5 DEF Next

LEMMA Invariant == Spec => []IInv
  BY InitIInv, NextIInv, PTL DEF Spec

-----------------------------------------------------------------------------
(* Runs, rows and models have their shapes, and no node is retried more    *)
(* often than its policy says (should_retry).                              *)
THEOREM TypeCorrect == Spec => []TypeOK
<1>1. IInv => TypeOK
  BY DEF IInv
<1> QED
  BY <1>1, Invariant, PTL

(* A trace that can be read says how its run ended, after any faults       *)
(* (_fail_trace_record and the commit of the endpoint).                    *)
THEOREM TracesAgree == Spec => []TraceAgrees
<1>1. IInv => TraceAgrees
  BY DEF IInv, Rows, RowOK, TraceAgrees
<1> QED
  BY <1>1, Invariant, PTL

(* A first attempt on the fallback model has a failed call of the same     *)
(* node behind it (_execute_with_retry).                                   *)
THEOREM FallbacksHaveReasons == Spec => []FallbackHasReason
<1>1. IInv => FallbackHasReason
  BY DEF IInv
<1> QED
  BY <1>1, Invariant, PTL

(* The parallel step stops every run: none is ever answered as completed,  *)
(* however many retries a node has (build_loan_assessment_graph).          *)
THEOREM NoRunCompletes == Spec => []NoneCompletes
<1>1. IInv => NoneCompletes
  BY DEF IInv, Rows, RowOK, NoneCompletes
<1> QED
  BY <1>1, Invariant, PTL

-----------------------------------------------------------------------------
(* How far a run is from its end: two steps for each attempt a node of     *)
(* this step has left, all the attempts of the nodes of the steps after    *)
(* it, the ends of the steps, the trace and the commit.                    *)
PerNode == 2 * MaxRetries + 2
NodeWork(q, n) ==
    IF n \in q.todo
    THEN 2 * (MaxRetries - q.tried[n]) + (IF n \in q.busy THEN 1 ELSE 2)
    ELSE 0
Work(q) ==
    CASE q.pc = "done"   -> 0
      [] q.pc = "commit" -> 1
      [] q.pc = "trace"  -> 2
      [] q.pc = "new"    -> 5 + 3 * PerNode
      [] OTHER ->
           IF q.step = Parallel
           THEN 3 + NodeWork(q, "credit_assessor")
                  + NodeWork(q, "fraud_screener")
           ELSE 4 + 2 * PerNode + NodeWork(q, "document_verifier")

(* A run stands still or comes nearer to its end.                          *)
Advances(r) == run'[r] = run[r] \/ Work(run'[r]) < Work(run[r])

LEMMA NodeWorkRange ==
  ASSUME NEW q \in RunState, NEW n \in Node, q.tried[n] <= MaxRetries
  PROVE  /\ NodeWork(q, n) \in 0 .. PerNode
         /\ n \in q.todo => NodeWork(q, n) > 0
         /\ n \notin q.todo => NodeWork(q, n) = 0
<1>1. q.tried[n] \in Nat
  BY DEF RunState
<1> QED
  BY <1>1, LoanAssumption DEF NodeWork, PerNode

LEMMA WorkRange ==
  ASSUME NEW q \in RunState, \A n \in Node : q.tried[n] <= MaxRetries
  PROVE  /\ Work(q) \in 0 .. 5 + 3 * PerNode
         /\ q.pc = "step" => Work(q) > 2
<1>1. /\ PerNode \in Nat /\ PerNode > 1
      /\ NodeWork(q, "credit_assessor") \in 0 .. PerNode
      /\ NodeWork(q, "fraud_screener") \in 0 .. PerNode
      /\ NodeWork(q, "document_verifier") \in 0 .. PerNode
  BY NodeWorkRange, LoanAssumption DEF PerNode, Node
<1>2. q.pc \in {"new", "step", "trace", "commit", "done"}
  BY DEF RunState
<1> QED
  BY <1>1, <1>2 DEF Work

LEMMA RunTyped ==
  ASSUME IInv, NEW r \in Run
  PROVE  /\ run \in [Run -> RunState] /\ run[r] \in RunState
         /\ run[r].tried \in [Node -> Nat]
         /\ \A n \in Node : run[r].tried[n] <= MaxRetries
         /\ Work(run[r]) \in 0 .. 5 + 3 * PerNode
         /\ run[r].pc = "step" => Work(run[r]) > 2
         /\ ProgressOK(r) /\ PerNode \in Nat
<1>1. /\ run \in [Run -> RunState] /\ run[r] \in RunState
      /\ \A n \in Node : run[r].tried[n] <= MaxRetries
      /\ ProgressOK(r)
  BY DEF IInv, TypeOK, Progress
<1>2. run[r].tried \in [Node -> Nat] /\ PerNode \in Nat
  BY <1>1, LoanAssumption DEF RunState, PerNode
<1> QED
  BY <1>1, <1>2, WorkRange

(* One node of a step comes nearer to its return, the others stand still.  *)
LEMMA NodeAdvances ==
  ASSUME IInv, NEW r \in Run, NEW n \in Node, n \in run[r].todo,
         run'[r].pc = "step", run'[r].step = run[r].step,
         NodeWork(run'[r], n) \in Nat,
         NodeWork(run'[r], n) < NodeWork(run[r], n),
         \A m \in Node \ {n} : NodeWork(run'[r], m) = NodeWork(run[r], m)
  PROVE  Work(run'[r]) < Work(run[r])
<1>1. run[r].pc = "step" /\ run[r].step \in {First, Parallel}
      /\ n \in run[r].step
  BY RunTyped DEF ProgressOK
<1> DEFINE old(m) == NodeWork(run[r], m)
           new(m) == NodeWork(run'[r], m)
<1>2. \A m \in Node : old(m) \in 0 .. PerNode
  BY RunTyped, NodeWorkRange
<1>3. /\ new(n) < old(n) /\ new(n) \in Nat
      /\ \A m \in Node \ {n} : new(m) = old(m)
  OBVIOUS
<1>4. \A m \in Node : new(m) \in Nat /\ new(m) <= old(m)
  BY <1>2, <1>3, RunTyped
<1>5. PerNode \in Nat
  BY RunTyped
<1>6. CASE run[r].step = Parallel
  <2>1. /\ Work(run[r]) = 3 + old("credit_assessor") + old("fraud_screener")
        /\ Work(run'[r]) = 3 + new("credit_assessor") + new("fraud_screener")
    BY <1>1, <1>6 DEF Work
  <2>2. n = "credit_assessor" \/ n = "fraud_screener"
    BY <1>1, <1>6 DEF Parallel
  <2>3. "credit_assessor" \in Node /\ "fraud_screener" \in Node
    BY DEF Node
  <2> HIDE DEF old, new
  <2> QED
    BY <1>2, <1>3, <1>4, <1>5, <2>1, <2>2, <2>3
<1>7. CASE run[r].step = First
  <2>1. /\ Work(run[r]) = 4 + 2 * PerNode + old("document_verifier")
        /\ Work(run'[r]) = 4 + 2 * PerNode + new("document_verifier")
    BY <1>1, <1>7 DEF Work, First, Parallel
  <2>2. n = "document_verifier"
    BY <1>1, <1>7 DEF First
  <2> HIDE DEF old, new
  <2> QED
    BY <1>2, <1>3, <1>5, <2>1, <2>2
<1> QED
  BY <1>1, <1>6, <1>7

LEMMA NodeStepAdvances ==
  ASSUME IInv, NEW r \in Run, NEW n \in Node,
         Invoke(r, n) \/ Return(r, n) \/ CallFails(r, n)
  PROVE  Work(run'[r]) < Work(run[r])
<1>1. /\ run \in [Run -> RunState] /\ run[r] \in RunState
      /\ run[r].tried \in [Node -> Nat] /\ run[r].busy \subseteq run[r].todo
      /\ \A m \in Node : run[r].tried[m] <= MaxRetries
      /\ run[r].todo # {} => run[r].pc = "step"
  BY RunTyped DEF ProgressOK
<1>2. n \in run[r].todo
  BY <1>1 DEF Invoke, Return, CallFails, Waits
<1>3. NodeWork(run[r], n) \in Nat /\ NodeWork(run[r], n) > 0
  BY <1>1, <1>2, RunTyped, NodeWorkRange
<1>4. CASE Invoke(r, n)
  <2>1. /\ run'[r].pc = "step" /\ run'[r].step = run[r].step
        /\ run'[r].todo = run[r].todo /\ run'[r].tried = run[r].tried
        /\ run'[r].busy = run[r].busy \cup {n}
        /\ n \notin run[r].busy
    BY <1>1, <1>4 DEF Invoke, Waits, RunState
  <2>2. NodeWork(run'[r], n) = NodeWork(run[r], n) - 1
    BY <1>1, <1>2, <2>1, LoanAssumption DEF NodeWork
  <2>3. \A m \in Node \ {n} : NodeWork(run'[r], m) = NodeWork(run[r], m)
    BY <2>1 DEF NodeWork
  <2> QED
    BY <1>2, <1>3, <2>1, <2>2, <2>3, NodeAdvances
<1>5. CASE \/ Return(r, n)
           \/ CallFails(r, n) /\ ~(run[r].tried[n] < MaxRetries)
  <2>1. /\ run'[r].pc = "step" /\ run'[r].step = run[r].step
        /\ run'[r].todo = run[r].todo \ {n}
        /\ run'[r].tried = [run[r].tried EXCEPT ![n] = 0]
        /\ run'[r].busy = run[r].busy \ {n}
    <3> DEFINE told == [run[r] EXCEPT !.busy = run[r].busy \ {n},
                                      !.todo = run[r].todo \ {n},
                                      !.tried[n] = 0]
    <3>1. run'[r] = told \/ run'[r] = [told EXCEPT !.failed = @ \cup {n}]
      <4>1. CASE Return(r, n)
        BY <1>1, <4>1 DEF Return
      <4>2. CASE CallFails(r, n) /\ ~(run[r].tried[n] < MaxRetries)
        BY <1>1, <4>2 DEF CallFails
      <4> QED
        BY <1>5, <4>1, <4>2
    <3>2. run[r].pc = "step"
      BY <1>1, <1>2
    <3>3. /\ told.pc = run[r].pc /\ told.step = run[r].step
          /\ told.todo = run[r].todo \ {n} /\ told.busy = run[r].busy \ {n}
          /\ told.tried = [run[r].tried EXCEPT ![n] = 0]
          /\ told \in RunState
      BY <1>1 DEF RunState
    <3> HIDE DEF told
    <3> QED
      BY <3>1, <3>2, <3>3 DEF RunState
  <2>2. NodeWork(run'[r], n) = 0
    BY <2>1 DEF NodeWork
  <2>3. \A m \in Node \ {n} : NodeWork(run'[r], m) = NodeWork(run[r], m)
    BY <1>1, <2>1 DEF NodeWork
  <2> QED
    BY <1>2, <1>3, <2>1, <2>2, <2>3, NodeAdvances
<1>6. CASE CallFails(r, n) /\ run[r].tried[n] < MaxRetries
  <2>1. /\ run'[r].pc = "step" /\ run'[r].step = run[r].step
        /\ run'[r].todo = run[r].todo
        /\ run'[r].tried = [run[r].tried EXCEPT ![n] = run[r].tried[n] + 1]
        /\ run'[r].busy = run[r].busy \ {n} /\ n \in run[r].busy
    BY <1>1, <1>2, <1>6 DEF CallFails, RunState
  <2>2. NodeWork(run'[r], n) = NodeWork(run[r], n) - 1
    BY <1>1, <1>2, <1>6, <2>1, LoanAssumption DEF NodeWork
  <2>3. \A m \in Node \ {n} : NodeWork(run'[r], m) = NodeWork(run[r], m)
    BY <1>1, <2>1 DEF NodeWork
  <2> QED
    BY <1>2, <1>3, <2>1, <2>2, <2>3, NodeAdvances
<1> QED
  BY <1>4, <1>5, <1>6

LEMMA EndStepAdvances ==
  ASSUME IInv, NEW r \in Run, EndStep(r)
  PROVE  Work(run'[r]) < Work(run[r])
<1>1. /\ run \in [Run -> RunState] /\ run[r] \in RunState
      /\ run[r].tried \in [Node -> Nat] /\ PerNode \in Nat
      /\ \A m \in Node : run[r].tried[m] <= MaxRetries
      /\ run[r].pc = "step" /\ run[r].todo = {}
      /\ run[r].step \in {First, Parallel}
      /\ Work(run[r]) > 2 /\ Work(run[r]) \in Nat
  <2>1. run[r].pc = "step" /\ run[r].todo = {}
    BY DEF EndStep
  <2>2. run[r].step \in {First, Parallel}
    BY <2>1, RunTyped DEF ProgressOK
  <2>3. Work(run[r]) > 2 /\ Work(run[r]) \in Nat
    BY <2>1, RunTyped
  <2> QED
    BY <2>1, <2>2, <2>3, RunTyped
<1>2. CASE run[r].step = Parallel
  <2>1. Conflict(run[r].step, run[r].failed)
    BY <1>2, ParallelConflicts
  <2>2. run' = [run EXCEPT ![r].pc = "trace", ![r].error = TRUE,
                           ![r].step = {}, ![r].failed = {}]
    BY <2>1 DEF EndStep
  <2>3. run'[r].pc = "trace"
    BY <1>1, <2>2 DEF RunState
  <2>4. Work(run'[r]) = 2
    BY <2>3 DEF Work
  <2> QED
    BY <1>1, <2>4
<1>3. CASE run[r].step = First
  <2>1. run' = [run EXCEPT ![r].step = Parallel, ![r].todo = Parallel,
                           ![r].failed = {}, ![r].pc = "step"]
    BY <1>1, <1>3, FirstLeadsToParallel DEF EndStep, Parallel
  <2>2. /\ run'[r].step = Parallel /\ run'[r].pc = "step"
        /\ run'[r].tried = run[r].tried /\ run'[r] \in RunState
    BY <1>1, <2>1, ZenonT(40) DEF RunState, Parallel, Node
  <2>3. /\ NodeWork(run'[r], "credit_assessor") \in 0 .. PerNode
        /\ NodeWork(run'[r], "fraud_screener") \in 0 .. PerNode
    BY <1>1, <2>2, NodeWorkRange DEF Node
  <2>4. Work(run'[r]) = 3 + NodeWork(run'[r], "credit_assessor")
                          + NodeWork(run'[r], "fraud_screener")
    BY <2>2 DEF Work
  <2>5. Work(run[r]) = 4 + 2 * PerNode
    <3>1. NodeWork(run[r], "document_verifier") = 0
      BY <1>1 DEF NodeWork
    <3> QED
      BY <1>1, <1>3, <3>1 DEF Work, First, Parallel
  <2> QED
    BY <1>1, <2>3, <2>4, <2>5
<1> QED
  BY <1>1, <1>2, <1>3

LEMMA BeginAdvances ==
  ASSUME IInv, NEW r \in Run, CreateTrace(r) \/ CreateTraceFails(r)
  PROVE  Work(run'[r]) < Work(run[r])
<1>1. PICK trace \in {"running", "none"}, aborted \in BOOLEAN :
        run' = [run EXCEPT ![r] = Begun(r, trace, aborted)]
  BY DEF CreateTrace, CreateTraceFails
<1>2. /\ run \in [Run -> RunState] /\ run[r] \in RunState
      /\ \A m \in Node : run[r].tried[m] <= MaxRetries
      /\ run[r].pc = "new" /\ PerNode \in Nat
  BY RunTyped DEF CreateTrace, CreateTraceFails
<1>3. Begun(r, trace, aborted) \in RunState
  BY <1>2 DEF Begun, RunState, Node
<1>4. /\ Begun(r, trace, aborted).tried = run[r].tried
      /\ \/ Begun(r, trace, aborted).pc = "trace"
         \/ /\ Begun(r, trace, aborted).pc = "step"
            /\ Begun(r, trace, aborted).step = First
  BY <1>2 DEF Begun, RunState, First
<1>5. run'[r] = Begun(r, trace, aborted)
  BY <1>1, <1>2
<1> HIDE DEF Begun
<1>6. NodeWork(run'[r], "document_verifier") \in 0 .. PerNode
  BY <1>2, <1>3, <1>4, <1>5, NodeWorkRange DEF Node
<1>7. Work(run[r]) = 5 + 3 * PerNode
  BY <1>2 DEF Work
<1>8. \/ Work(run'[r]) = 2
      \/ Work(run'[r]) = 4 + 2 * PerNode
                           + NodeWork(run'[r], "document_verifier")
  BY <1>4, <1>5 DEF Work, First, Parallel
<1> QED
  BY <1>2, <1>6, <1>7, <1>8

LEMMA OverAdvances ==
  ASSUME IInv, NEW r \in Run, run[r].pc \notin {"new", "done"},
         run'[r] = Over(r)
  PROVE  Work(run'[r]) < Work(run[r])
<1>1. Over(r).pc = "done"
  BY DEF Over, NewRun
<1>2. Work(run'[r]) = 0
  BY <1>1 DEF Work
<1>3. Work(run[r]) > 0
  <2>1. run[r].pc \in {"step", "trace", "commit"}
    BY RunTyped DEF RunState
  <2>2. CASE run[r].pc = "step"
    BY <2>2, RunTyped
  <2>3. CASE run[r].pc # "step"
    BY <2>1, <2>3 DEF Work
  <2> QED
    BY <2>2, <2>3
<1> QED
  BY <1>2, <1>3

LEMMA NextAdvances ==
  ASSUME IInv, Next, NEW r \in Run
  PROVE  Advances(r)
<1>1. run \in [Run -> RunState] /\ run[r] \in RunState
  BY RunTyped
<1>2. CASE Restart
  <2>1. run'[r] = run[r] \/ (/\ run[r].pc \notin {"new", "done"}
                             /\ run'[r] = Over(r))
    BY <1>2 DEF Restart
  <2> QED
    BY <2>1, OverAdvances DEF Advances
<1>3. ASSUME NEW q \in Run,
             \/ CreateTrace(q) \/ CreateTraceFails(q) \/ Step(q)
             \/ EndTraceFails(q) \/ ClientLeaves(q)
      PROVE  Advances(r)
  <2>1. CASE q # r
    <3>1. \E next : run' = [run EXCEPT ![q] = next]
      <4>1. CASE CreateTrace(q) \/ CreateTraceFails(q)
        BY <4>1 DEF CreateTrace, CreateTraceFails
      <4>2. CASE \E n \in Node : Invoke(q, n) \/ Return(q, n)
        BY <4>2 DEF Invoke, Return
      <4>3. CASE \E n \in Node : CallFails(q, n)
        BY <4>3 DEF CallFails
      <4>4. CASE EndStep(q)
        BY <4>4 DEF EndStep
      <4>5. CASE EndTrace(q) \/ EndTraceFails(q)
        BY <4>5 DEF EndTrace, EndTraceFails
      <4>6. CASE Commit(q) \/ ClientLeaves(q)
        BY <4>6 DEF Commit, ClientLeaves
      <4> QED
        BY <1>3, <4>1, <4>2, <4>3, <4>4, <4>5, <4>6 DEF Step
    <3> QED
      BY <1>1, <2>1, <3>1 DEF Advances
  <2>2. CASE q = r
    <3>1. CASE CreateTrace(r) \/ CreateTraceFails(r)
      BY <3>1, BeginAdvances DEF Advances
    <3>2. CASE \E n \in Node : Invoke(r, n) \/ Return(r, n) \/ CallFails(r, n)
      BY <3>2, NodeStepAdvances DEF Advances
    <3>3. CASE EndStep(r)
      BY <3>3, EndStepAdvances DEF Advances
    <3>4. CASE EndTrace(r) \/ EndTraceFails(r)
      <4>1. run[r].pc = "trace" /\ run'[r].pc = "commit"
        BY <1>1, <3>4 DEF EndTrace, EndTraceFails, RunState
      <4>2. Work(run[r]) = 2 /\ Work(run'[r]) = 1
        BY <4>1 DEF Work
      <4> QED
        BY <4>2 DEF Advances
    <3>5. CASE Commit(r) \/ ClientLeaves(r)
      <4>1. run[r].pc \notin {"new", "done"} /\ run'[r] = Over(r)
        BY <1>1, <3>5 DEF Commit, ClientLeaves
      <4> QED
        BY <4>1, OverAdvances DEF Advances
    <3> QED
      BY <1>3, <2>2, <3>1, <3>2, <3>3, <3>4, <3>5 DEF Step
  <2> QED
    BY <2>1, <2>2
<1> QED
  BY <1>2, <1>3 DEF Next

(* Every step of a run, with any calls failing, SQL errors, clients that   *)
(* go away and lost processes, lowers a number that is at most             *)
(* 11 + 6 * MaxRetries: no retry and no edge of the graph sends a run      *)
(* round in a circle (_execute_with_retry, build_loan_assessment_graph).   *)
THEOREM RunsAdvance == Spec => [][\A r \in Run : Advances(r)]_vars
<1>1. IInv /\ [Next]_vars => [\A r \in Run : Advances(r)]_vars
  BY NextAdvances
<1> QED
  BY Invariant, <1>1, PTL DEF Spec

(* What is left of a run is bounded before it begins.                      *)
THEOREM WorkBounded ==
  Spec => [](\A r \in Run : Work(run[r]) \in 0 .. 5 + 3 * PerNode)
<1>1. IInv => \A r \in Run : Work(run[r]) \in 0 .. 5 + 3 * PerNode
  BY RunTyped
<1> QED
  BY Invariant, <1>1, PTL

-----------------------------------------------------------------------------
Settled(r) ==
    answer[r] # "none" => answer'[r] = answer[r] /\ row'[r] = row[r]

LEMMA NextSettled ==
  ASSUME IInv, Next, NEW r \in Run
  PROVE  Settled(r)
<1>1. /\ TypeOK /\ RowOK(r) /\ ProgressOK(r)
  BY DEF IInv, Rows, Progress
<1>2. CASE Restart
  BY <1>1, <1>2 DEF Restart, RowOK, Settled
<1>3. ASSUME NEW q \in Run, Commit(q) \/ ClientLeaves(q)
      PROVE  Settled(r)
  <2>1. run[q].pc # "done"
    BY <1>3 DEF Commit, ClientLeaves
  <2>2. CASE q = r
    BY <1>1, <2>1, <2>2 DEF RowOK, Settled
  <2>3. CASE q # r
    <3>1. /\ \E a : answer' = [answer EXCEPT ![q] = a]
          /\ row' = row \/ \E a : row' = [row EXCEPT ![q] = a]
      BY <1>3 DEF Commit, ClientLeaves
    <3> QED
      BY <1>1, <2>3, <3>1 DEF TypeOK, Settled
  <2> QED
    BY <2>2, <2>3
<1>4. ASSUME UNCHANGED <<row, answer>> PROVE Settled(r)
  BY <1>4 DEF Settled
<1>5. ASSUME NEW q \in Run,
             \/ CreateTrace(q) \/ CreateTraceFails(q)
             \/ \E n \in Node : Invoke(q, n) \/ Return(q, n) \/ CallFails(q, n)
             \/ EndStep(q) \/ EndTrace(q) \/ EndTraceFails(q)
      PROVE  UNCHANGED <<row, answer>>
  BY <1>5 DEF CreateTrace, CreateTraceFails, Invoke, Return, CallFails,
              EndStep, EndTrace, EndTraceFails
<1> QED
  BY <1>2, <1>3, <1>4, <1>5 DEF Next, Step

(* A run is answered once, and after the answer its trace does not change: *)
(* no later run, crash or SQL error rewrites what a client was told        *)
(* (the single commit of the endpoint).                                    *)
THEOREM AnswersAreFinal == Spec => [][\A r \in Run : Settled(r)]_vars
<1>1. IInv /\ [Next]_vars => [\A r \in Run : Settled(r)]_vars
  BY NextSettled
<1> QED
  BY Invariant, <1>1, PTL DEF Spec

=============================================================================
