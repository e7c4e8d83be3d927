--------------------------- MODULE LoanAssessment --------------------------
(***************************************************************************)
(* Runs of the loan assessment graph: OrchestratorEngine.run and .stream,  *)
(* the nodes of the graph with their retries, the model objects the nodes  *)
(* share between runs, the channels of the graph's state, and the row of   *)
(* agent_traces that tells afterwards how a run ended.                     *)
(*                                                                         *)
(* What the models answer is abstracted to whether a call succeeds, and a  *)
(* patch to the channels it writes.  The guardrails are left out: the      *)
(* state of a loan run has no query, and a failed output check only adds   *)
(* keys that the state does not have.                                      *)
(***************************************************************************)
EXTENDS Naturals

CONSTANTS
    Run,
    MaxRetries,    \* retry_policy.max_retries of every node
    MaxFaults      \* bound on SQL errors and lost processes

VARIABLES
    run,           \* what each run is doing
    row,           \* its committed row of agent_traces
    answer,        \* what its client was told
    primary,       \* what the node objects call for a first attempt
    faults,
    (* Observed by the properties only.                                    *)
    tripped        \* nodes of which a call failed in this process

vars == <<run, row, answer, primary, faults, tripped>>

ASSUME LoanAssumption == MaxRetries \in Nat /\ MaxFaults \in Nat

Node == {"document_verifier", "credit_assessor", "fraud_screener",
         "risk_scorer", "human_escalator", "response_synthesizer"}
Calling == Node \ {"risk_scorer", "human_escalator"}

(* The steps that may follow a step: route_after_risk chooses the last.    *)
NextSteps(step) ==
    CASE step = {"document_verifier"} ->
             {{"credit_assessor", "fraud_screener"}}
      [] step = {"credit_assessor", "fraud_screener"} -> {{"risk_scorer"}}
      [] step = {"risk_scorer"} ->
             {{"human_escalator"}, {"response_synthesizer"}}
      [] OTHER -> {{}}

(* The channels that the patch of a node writes, the results of its own    *)
(* that no other node writes cut down to one.  None has a reducer          *)
(* ("messages" is the only channel that has).                              *)
Assessed(n) ==
    CASE n = "document_verifier" ->
             {"confidence_score", "final_decision", "token_usage"}
      [] n = "credit_assessor" ->
             {"confidence_score", "final_decision", "token_usage",
              "decision_reason", "credit_risk_score", "conditions"}
      [] n = "fraud_screener" ->
             {"confidence_score", "token_usage", "fraud_risk_score",
              "overall_risk_level"}
      [] n = "risk_scorer" ->
             {"confidence_score", "final_decision", "decision_reason",
              "overall_risk_level"}
      [] n = "human_escalator" ->
             {"status", "final_decision", "escalation_reason", "output"}
      [] n = "response_synthesizer" -> {"status", "output", "token_usage"}
Walked == {"current_node", "completed_nodes", "trace"}
Writes(n, ok) ==
    Walked \cup (IF ok THEN {"latency_ms"} \cup Assessed(n)
                 ELSE {"status", "error", "error_node"})

(* Mutant: the channels have reducers.                                     *)
ConflictReduced(step, failed) ==
    \E m, n \in step : m # n /\ Writes(m, m \notin failed) \cap {"output"} # {}

(* A channel without reducer takes one value in a step; the step fails     *)
(* when two of its nodes write the same one (InvalidUpdateError).          *)
Conflict(step, failed) ==
    \E m, n \in step :
        /\ m # n
        /\ Writes(m, m \notin failed) \cap Writes(n, n \notin failed) # {}

RunState ==
    [kind : {"run", "stream"},
     workflow : {"loan_assessment", "other"},
     pc : {"new", "step", "trace", "commit", "done"},
     trace : {"none", "running", "completed", "failed"}, \* uncommitted row
     aborted : BOOLEAN,        \* an SQL error ended the transaction
     step : SUBSET Node,       \* the nodes of this step
     todo : SUBSET Node,       \* those that have not returned
     busy : SUBSET Node,       \* those that wait for their model
     tried : [Node -> Nat],    \* failed attempts
     failed : SUBSET Node,     \* nodes that returned an error patch
     error : BOOLEAN]          \* the graph raised an exception
NewRun(kind, workflow) ==
    [kind |-> kind, workflow |-> workflow, pc |-> "new", trace |-> "none",
     aborted |-> FALSE, step |-> {}, todo |-> {}, busy |-> {},
     tried |-> [n \in Node |-> 0], failed |-> {}, error |-> FALSE]

Init ==
    /\ run \in [Run -> {NewRun(kind, workflow) :
                            kind \in {"run", "stream"},
                            workflow \in {"loan_assessment", "other"}}]
    /\ row = [r \in Run |-> "none"]
    /\ answer = [r \in Run |-> "none"]
    /\ primary = [n \in Node |-> "primary"]
    /\ faults = 0
    /\ tripped = {}

(* What is left of a run that is over.                                     *)
Over(r) == [NewRun(run[r].kind, run[r].workflow) EXCEPT !.pc = "done"]

Fault == faults < MaxFaults /\ faults' = faults + 1

-----------------------------------------------------------------------------
(* _build_graph_and_state: only the loan graph can be built.               *)
Begun(r, trace, aborted) ==
    IF run[r].workflow = "loan_assessment"
    THEN [run[r] EXCEPT !.pc = "step", !.trace = trace, !.aborted = aborted,
                        !.step = {"document_verifier"},
                        !.todo = {"document_verifier"}]
    ELSE [run[r] EXCEPT !.pc = "trace", !.trace = trace, !.aborted = aborted,
                        !.error = TRUE]

(* Mutant: the row is committed when the run starts.                       *)
CreateTraceCommits(r) ==
    /\ run[r].pc = "new"
    /\ run' = [run EXCEPT ![r] = Begun(r, "running", FALSE)]
    /\ row' = [row EXCEPT ![r] = "running"]
    /\ UNCHANGED <<answer, primary, faults, tripped>>

(* _create_trace_record flushes a row that says 'running'.                 *)
CreateTrace(r) ==
    /\ run[r].pc = "new"
    /\ run' = [run EXCEPT ![r] = Begun(r, "running", FALSE)]
    /\ UNCHANGED <<row, answer, primary, faults, tripped>>

(* Its SQL error is swallowed and the run goes on.                         *)
CreateTraceFails(r) ==
    /\ run[r].pc = "new"
    /\ Fault
    /\ run' = [run EXCEPT ![r] = Begun(r, "none", TRUE)]
    /\ UNCHANGED <<row, answer, primary, tripped>>

-----------------------------------------------------------------------------
Waits(r, n) == run[r].pc = "step" /\ n \in run[r].todo \ run[r].busy

(* Mutant: the model is kept by the class of the nodes.                    *)
InvokeSwitchesAll(r, n) ==
    /\ Waits(r, n)
    /\ n \in Calling
    /\ primary' = IF run[r].tried[n] > 0
                  THEN [m \in Node |-> "fallback"] ELSE primary
    /\ run' = [run EXCEPT ![r].busy = @ \cup {n}]
    /\ UNCHANGED <<row, answer, faults, tripped>>

(* _execute_with_retry: a retry makes the fallback the primary model of    *)
(* the node object, which is the same for all runs.                        *)
Invoke(r, n) ==
    /\ Waits(r, n)
    /\ n \in Calling
    /\ primary' = IF run[r].tried[n] > 0
                  THEN [primary EXCEPT ![n] = "fallback"] ELSE primary
    /\ run' = [run EXCEPT ![r].busy = @ \cup {n}]
    /\ UNCHANGED <<row, answer, faults, tripped>>

(* The node returns its patch; the scorer and the escalator call nothing.  *)
Return(r, n) ==
    /\ n \in run[r].busy \/ (Waits(r, n) /\ n \notin Calling)
    /\ run' = [run EXCEPT ![r].busy = @ \ {n}, ![r].todo = @ \ {n},
                          ![r].tried[n] = 0]
    /\ UNCHANGED <<row, answer, primary, faults, tripped>>

(* Mutant: an attempt is not counted.                                      *)
CallFailsUncounted(r, n) ==
    /\ n \in run[r].busy
    /\ run' = [run EXCEPT ![r].busy = @ \ {n}]
    /\ tripped' = tripped \cup {n}
    /\ UNCHANGED <<row, answer, primary, faults>>

(* Mutant: one retry too many.                                             *)
CallFailsOnceMore(r, n) ==
    /\ n \in run[r].busy
    /\ run' = IF run[r].tried[n] <= MaxRetries
              THEN [run EXCEPT ![r].busy = @ \ {n}, ![r].tried[n] = @ + 1]
              ELSE [run EXCEPT ![r].busy = @ \ {n}, ![r].todo = @ \ {n},
                          ![r].tried[n] = 0, ![r].failed = @ \cup {n}]
    /\ tripped' = tripped \cup {n}
    /\ UNCHANGED <<row, answer, primary, faults>>

(* should_retry: another attempt, or _error_patch, with which the graph    *)
(* goes on.                                                                *)
CallFails(r, n) ==
    /\ n \in run[r].busy
    /\ run' = IF run[r].tried[n] < MaxRetries
              THEN [run EXCEPT ![r].busy = @ \ {n}, ![r].tried[n] = @ + 1]
              ELSE [run EXCEPT ![r].busy = @ \ {n}, ![r].todo = @ \ {n},
                          ![r].tried[n] = 0, ![r].failed = @ \cup {n}]
    /\ tripped' = tripped \cup {n}
    /\ UNCHANGED <<row, answer, primary, faults>>

(* The step ends when all its nodes have returned: their patches are       *)
(* applied together, or the graph raises.                                  *)
EndStep(r) ==
    /\ run[r].pc = "step" /\ run[r].todo = {}
    /\ IF Conflict(run[r].step, run[r].failed)
       THEN run' = [run EXCEPT ![r].pc = "trace", ![r].error = TRUE,
                               ![r].step = {}, ![r].failed = {}]
       ELSE \E next \in NextSteps(run[r].step) :
                run' = [run EXCEPT
                          ![r].step = next, ![r].todo = next,
                          ![r].failed = {},
                          ![r].pc = IF next = {} THEN "trace" ELSE "step"]
    /\ UNCHANGED <<row, answer, primary, faults, tripped>>

-----------------------------------------------------------------------------
(* The trace as the transaction leaves it: a stream that raised nothing    *)
(* leaves it running, and there may be no row to update.                   *)
Ended(r) ==
    IF run[r].trace = "none" THEN "none"
    ELSE IF run[r].error THEN "failed"
    ELSE IF run[r].kind = "run" THEN "completed"
    ELSE run[r].trace

(* tracer.persist or _fail_trace_record.                                   *)
EndTrace(r) ==
    /\ run[r].pc = "trace"
    /\ run' = [run EXCEPT ![r].pc = "commit", ![r].trace = Ended(r)]
    /\ UNCHANGED <<row, answer, primary, faults, tripped>>

EndTraceFails(r) ==
    /\ run[r].pc = "trace"
    /\ Fault
    /\ run' = [run EXCEPT ![r].pc = "commit", ![r].aborted = TRUE]
    /\ UNCHANGED <<row, answer, primary, tripped>>

(* The commit of the endpoint; a transaction that an SQL error has ended   *)
(* is rolled back by it.                                                   *)
Commit(r) ==
    /\ run[r].pc = "commit"
    /\ row' = IF run[r].aborted THEN row ELSE [row EXCEPT ![r] = run[r].trace]
    /\ answer' = [answer EXCEPT ![r] =
                     IF run[r].error THEN "failed" ELSE "completed"]
    /\ run' = [run EXCEPT ![r] = Over(r)]
    /\ UNCHANGED <<primary, faults, tripped>>

(* The client of a stream goes away: the generator is cancelled where it   *)
(* stands, which is no Exception.                                          *)
ClientLeaves(r) ==
    /\ run[r].kind = "stream" /\ run[r].pc \notin {"new", "done"}
    /\ run' = [run EXCEPT ![r] = Over(r)]
    /\ answer' = [answer EXCEPT ![r] = "lost"]
    /\ UNCHANGED <<row, primary, faults, tripped>>

(* The process is lost with its runs and its node objects.                 *)
Restart ==
    /\ Fault
    /\ LET lost == {r \in Run : run[r].pc \notin {"new", "done"}}
       IN  /\ run' = [r \in Run |-> IF r \in lost THEN Over(r)
                                    ELSE run[r]]
           /\ answer' = [r \in Run |-> IF r \in lost THEN "lost"
                                       ELSE answer[r]]
    /\ primary' = [n \in Node |-> "primary"]
    /\ tripped' = {}
    /\ UNCHANGED row

-----------------------------------------------------------------------------
Step(r) ==
    \/ \E n \in Node : Invoke(r, n) \/ Return(r, n) \/ CallFails(r, n)
    \/ EndStep(r)
    \/ EndTrace(r)
    \/ Commit(r)

Next ==
    \/ \E r \in Run :
        \/ CreateTrace(r)
        \/ CreateTraceFails(r)
        \/ Step(r)
        \/ EndTraceFails(r)
        \/ ClientLeaves(r)
    \/ Restart

Spec == Init /\ [][Next]_vars

(* The event loop resumes every run; a call of a model returns or raises   *)
(* when its client times out.                                              *)
FairSpec == Spec /\ \A r \in Run : WF_vars(Step(r))

-----------------------------------------------------------------------------
(* Runs, rows, answers and models have the shape of their models.          *)
TypeOK ==
    /\ run \in [Run -> RunState]
    /\ \A r \in Run, n \in Node : run[r].tried[n] <= MaxRetries
    /\ row \in [Run -> {"none", "running", "completed", "failed"}]
    /\ answer \in [Run -> {"none", "completed", "failed", "lost"}]
    /\ primary \in [Node -> {"primary", "fallback"}]
    /\ faults \in Nat
    /\ tripped \subseteq Node

(* A trace that can be read is that of an answered run and says how it     *)
(* ended: none is left running by a crash, a client that went away or an   *)
(* SQL error that was swallowed (get_trace, _fail_trace_record).           *)
TraceAgrees ==
    \A r \in Run : row[r] # "none" => row[r] = answer[r]

(* A node leaves its model only after a call of that node has failed in    *)
(* this process, whatever the other nodes and runs do                      *)
(* (_execute_with_retry on shared node objects).                           *)
FallbackHasReason ==
    \A n \in Node : primary[n] = "fallback" => n \in tripped

(* Every run that has begun ends, although calls may fail for ever         *)
(* (RetryPolicy.should_retry).                                             *)
EveryRunEnds ==
    \A r \in Run : run[r].pc # "new" ~> run[r].pc = "done"

(* The parallel step cannot be joined: both of its nodes, returned or      *)
(* failed, write channels that take one value, so every loan run is        *)
(* answered as failed, with faults and without (build_loan_assessment_     *)
(* graph, BaseGraphState).                                                 *)
NoneCompletes == \A r \in Run : answer[r] # "completed"

=============================================================================
