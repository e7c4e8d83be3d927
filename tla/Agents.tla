------------------------------- MODULE Agents -------------------------------
(***************************************************************************)
(* The banking agents and the pipelines AgentService makes of them.        *)
(*                                                                         *)
(* A request runs its agents one after the other.  An agent checks its     *)
(* input, gathers context from tools, calls a model with retries, parses   *)
(* the answer into its output schema, and turns every failure of these     *)
(* steps into an error output of the same schema.  A schema refuses an     *)
(* output that leaves out a field without default, and what is raised      *)
(* while the error output is built ends the request with status 500.       *)
(*                                                                         *)
(* Requests share nothing: the agents are made for each request.           *)
(***************************************************************************)
EXTENDS Naturals, Sequences

CONSTANTS
    Request,
    MaxRetries     \* settings.orchestration.max_retries

VARIABLE req

ASSUME AgentsAssumption == MaxRetries \in Nat

Agent == {"kyc", "fraud", "transaction", "risk", "support", "report"}
Route == {"loan", "fraud", "kyc", "support", "single"}
Pipeline == {"loan", "fraud", "kyc"}

(* The agents a request runs; a single run names its agent a.              *)
Stages(route, a) ==
    CASE route = "loan"    -> <<"kyc", "transaction", "risk", "report">>
      [] route = "fraud"   -> <<"fraud", "risk", "report">>
      [] route = "kyc"     -> <<"kyc", "report">>
      [] route = "support" -> <<"support">>
      [] OTHER             -> <<a>>

-----------------------------------------------------------------------------
(* What can be wrong with an input: no PAN or one of less than four        *)
(* characters, no Aadhaar, no name, no user, zero months, a loan of zero   *)
(* months, a query the guardrail refuses, a value of the wrong type.       *)
Defect == {"pan", "aadhaar", "name", "user", "months", "tenure", "query",
           "type"}

(* The defects that the schema of a request lets through.                  *)
Admits(route) ==
    CASE route = "loan"    -> {"pan", "aadhaar", "name"}
      [] route = "fraud"   -> {"user", "name"}
      [] route = "kyc"     -> {"pan", "aadhaar", "name"}
      [] route = "support" -> {"query"}
      [] OTHER             -> Defect

(* InputGuardrail.check: too long, an injection pattern, harmful content.  *)
QueryRefused(defects) == "query" \in defects

(* verify_pan_number reads the fourth character.  Where an argument is     *)
(* missing the agents call asyncio.coroutine, which Python 3.12 lacks.     *)
PanCheckFails(defects) == "pan" \in defects
KycContextFails(defects) ==
    PanCheckFails(defects) \/ {"aadhaar", "name", "type"} \cap defects # {}
FraudContextFails(defects) == {"user", "name", "type"} \cap defects # {}

(* get_transaction_history divides by the number of months.                *)
HistoryFails(defects) == "months" \in defects
TransactionContextFails(defects) ==
    HistoryFails(defects) \/ "type" \in defects

(* calculate_emi divides by (1 + r) ** tenure - 1.                         *)
EmiFails(defects) == "tenure" \in defects
RiskContextFails(defects) == EmiFails(defects) \/ "type" \in defects

SupportContextFails(defects) == "type" \in defects

(* Retrieval is in a try of its own in every agent, and cannot fail one.   *)
ReportContextFails(defects) == FALSE

ContextFails(a, defects) ==
    CASE a = "kyc"         -> KycContextFails(defects)
      [] a = "fraud"       -> FraudContextFails(defects)
      [] a = "transaction" -> TransactionContextFails(defects)
      [] a = "risk"        -> RiskContextFails(defects)
      [] a = "support"     -> SupportContextFails(defects)
      [] OTHER             -> ReportContextFails(defects)

-----------------------------------------------------------------------------
(* Mutant: an Optional field of a schema has None for default.             *)
NoneRequired(a) == {}

(* The Optional fields without default: Pydantic 2 requires them.          *)
Required(a) ==
    CASE a = "kyc"         -> {"name_match", "dob_match", "address_verified",
                               "pan_verified", "aadhaar_verified",
                               "liveness_check"}
      [] a = "fraud"       -> {"fraud_type"}
      [] a = "transaction" -> {"avg_monthly_balance", "savings_rate",
                               "estimated_monthly_income",
                               "estimated_emi_burden"}
      [] a = "risk"        -> {"recommended_credit_limit",
                               "recommended_interest_rate",
                               "max_eligible_amount"}
      [] a = "report"      -> {"report_period", "generated_for"}
      [] OTHER             -> {}

(* Of these, the ones parse_output passes on, given by the model or not.   *)
KycParsed == Required("kyc") \ {"liveness_check"}
FraudParsed == Required("fraud")
TransactionParsed == Required("transaction")
RiskParsed == Required("risk")
SupportParsed == Required("support")
ReportParsed == Required("report")

ParsedFields(a) ==
    CASE a = "kyc"         -> KycParsed
      [] a = "fraud"       -> FraudParsed
      [] a = "transaction" -> TransactionParsed
      [] a = "risk"        -> RiskParsed
      [] a = "support"     -> SupportParsed
      [] OTHER             -> ReportParsed

(* Of these, the ones _error_output passes on: none in any agent.          *)
KycErrored == {}
FraudErrored == {}
TransactionErrored == {}
RiskErrored == {}
SupportErrored == {}
ReportErrored == {}

ErrorFields(a) ==
    CASE a = "kyc"         -> KycErrored
      [] a = "fraud"       -> FraudErrored
      [] a = "transaction" -> TransactionErrored
      [] a = "risk"        -> RiskErrored
      [] a = "support"     -> SupportErrored
      [] OTHER             -> ReportErrored

(* A model's answer: valid with every field, valid with none, or neither   *)
(* JSON nor within the enums and ranges of the schema.                     *)
Answer == {"full", "bare", "broken"}

(* The default decision of the risk agent, "review", is not in the enum.   *)
BareParses(a) == a # "risk"

Parses(a, answer) ==
    /\ answer # "broken"
    /\ answer = "bare" => BareParses(a)
    /\ Required(a) \subseteq ParsedFields(a)

ErrorConforms(a) == Required(a) \subseteq ErrorFields(a)

(* escalation_required when the answer does not give it: confidence 0.5 is *)
(* below the 0.6 of the KYC agent, the scores are below their limits.      *)
EscalatesByDefault(a) == a = "kyc"

-----------------------------------------------------------------------------
Model == {"none", "default", "fallback"}
Output == [source : {"none", "answer", "error"}, escalation : BOOLEAN,
           model_used : Model,      \* what the output says
           by : Model]              \* what answered
NoOutput == [source |-> "none", escalation |-> FALSE,
             model_used |-> "none", by |-> "none"]
ErrorOutput == [NoOutput EXCEPT !.source = "error", !.escalation = TRUE]

RequestState ==
    [pc : {"idle", "guard", "context", "call", "parse", "summary",
           "answered", "failed"},
     route : Route, agent : Agent, defects : SUBSET Defect,
     stage : 1 .. 4, attempt : 0 .. MaxRetries, fallback : BOOLEAN,
     by : Model,
     results : [Agent -> Output], escalation : BOOLEAN]
IdleRequest ==
    [pc |-> "idle", route |-> "single", agent |-> "report", defects |-> {},
     stage |-> 1, attempt |-> 0, fallback |-> FALSE, by |-> "none",
     results |-> [a \in Agent |-> NoOutput], escalation |-> FALSE]

Init == req = [r \in Request |-> IdleRequest]

Todo(r) == Stages(req[r].route, req[r].agent)
Current(r) == Todo(r)[req[r].stage]

(* The input of a stage: the report of a pipeline gets results only, and   *)
(* no pipeline passes a query.                                             *)
InputDefects(r) == req[r].defects

(* The stage returns its output, and the next one begins.                  *)
Returns(r, output) ==
    req' = [req EXCEPT
              ![r].results[Current(r)] = output,
              ![r].attempt = 0, ![r].fallback = FALSE, ![r].by = "none",
              ![r].stage = IF @ < Len(Todo(r)) THEN @ + 1 ELSE @,
              ![r].pc = IF req[r].stage < Len(Todo(r))
                        THEN "guard" ELSE "summary"]

(* The stage failed.                                                       *)
ReturnsError(r) ==
    IF ErrorConforms(Current(r))
    THEN Returns(r, ErrorOutput)
    ELSE req' = [req EXCEPT ![r].pc = "failed"]

Begin(r, route, a, defects) ==
    /\ req[r].pc = "idle"
    /\ route # "single" => a = "report"
    /\ defects \subseteq Admits(route)
    /\ req' = [req EXCEPT ![r] = [IdleRequest EXCEPT
                 !.pc = "guard", !.route = route, !.agent = a,
                 !.defects = defects]]

CheckInput(r) ==
    /\ req[r].pc = "guard"
    /\ IF QueryRefused(InputDefects(r)) THEN ReturnsError(r)
       ELSE req' = [req EXCEPT ![r].pc = "context"]

BuildContext(r) ==
    /\ req[r].pc = "context"
    /\ IF ContextFails(Current(r), InputDefects(r)) THEN ReturnsError(r)
       ELSE req' = [req EXCEPT ![r].pc = "call"]

(* Mutant: the fallback model is called from the third attempt on.         *)
ModelLate(r) ==
    IF req[r].attempt > 1 /\ req[r].fallback THEN "fallback" ELSE "default"
ModelOf(r) ==
    IF req[r].attempt > 0 /\ req[r].fallback THEN "fallback" ELSE "default"

CallAnswers(r) ==
    /\ req[r].pc = "call"
    /\ req' = [req EXCEPT ![r].pc = "parse", ![r].by = ModelOf(r)]

(* Mutant: the fallback model gets all the attempts, again and again.      *)
CallFailsAgain(r) ==
    /\ req[r].pc = "call"
    /\ req' = [req EXCEPT ![r].fallback = TRUE,
                  ![r].attempt = IF @ < MaxRetries THEN @ + 1 ELSE 0]

(* The first failure turns to the fallback model, the last one gives up.   *)
CallFails(r) ==
    /\ req[r].pc = "call"
    /\ IF req[r].attempt < MaxRetries
       THEN req' = [req EXCEPT ![r].attempt = @ + 1,
                               ![r].fallback = @ \/ req[r].attempt = 0]
       ELSE ReturnsError(r)

Parse(r, answer, escalates) ==
    /\ req[r].pc = "parse"
    /\ answer = "bare" => escalates = EscalatesByDefault(Current(r))
    /\ IF Parses(Current(r), answer)
       THEN Returns(r, [source |-> "answer", escalation |-> escalates,
                        model_used |-> IF req[r].fallback THEN "fallback"
                                       ELSE "default",
                        by |-> req[r].by])
       ELSE ReturnsError(r)

(* Of which stages the summary tells that they ask for a human.            *)
Heard(route, a) ==
    CASE route = "loan"  -> {"kyc", "risk"}
      [] route = "fraud" -> {"fraud"}
      [] route = "kyc"   -> {"kyc"}
      [] OTHER           -> {Stages(route, a)[1]}

Summarise(r) ==
    /\ req[r].pc = "summary"
    /\ req' = [req EXCEPT
          ![r].pc = "answered",
          ![r].escalation = \E a \in Heard(req[r].route, req[r].agent) :
                                req[r].results[a].escalation]

(* The answer is sent, and nothing of the run is kept.                     *)
Leave(r) ==
    /\ req[r].pc \in {"answered", "failed"}
    /\ req' = [req EXCEPT ![r] = IdleRequest]

(* The process stops.                                                      *)
Crash(r) ==
    /\ req[r].pc # "idle"
    /\ req' = [req EXCEPT ![r] = IdleRequest]

Step(r) ==
    \/ CheckInput(r)
    \/ BuildContext(r)
    \/ CallAnswers(r)
    \/ CallFails(r)
    \/ \E answer \in Answer, escalates \in BOOLEAN :
           Parse(r, answer, escalates)
    \/ Summarise(r)
    \/ Leave(r)

Next ==
    \E r \in Request :
        \/ \E route \in Route, a \in Agent, defects \in SUBSET Defect :
               Begin(r, route, a, defects)
        \/ Step(r)
        \/ Crash(r)

Spec == Init /\ [][Next]_req

(* The event loop resumes every request; a call of a model returns or      *)
(* raises when its client times out.                                       *)
FairSpec == Spec /\ \A r \in Request : WF_req(Step(r))

-----------------------------------------------------------------------------
TypeOK == req \in [Request -> RequestState]

(* A pipeline that is answered has an answer of a model behind every one   *)
(* of its stages: no eligibility, score or report rests on the error       *)
(* output of a stage, which the pipelines do not look for                  *)
(* (run_full_loan_pipeline, run_fraud_investigation, run_kyc_onboarding).  *)
SummaryFromAnswers ==
    \A r \in Request :
        req[r].pc = "answered" /\ req[r].route \in Pipeline =>
            \A i \in 1 .. Len(Todo(r)) :
                req[r].results[Todo(r)[i]].source = "answer"

(* An output names the model that answered, after any number of failed     *)
(* calls (the fallback of BaseAgent.run).                                  *)
ModelUsedTrue ==
    \A r \in Request, a \in Agent :
        req[r].results[a].model_used = req[r].results[a].by

(* No request that runs the KYC agent is answered: its parsed output has   *)
(* no liveness_check and its error output lacks six fields, so the agent,  *)
(* the loan pipeline and the KYC pipeline always end in an error.          *)
KycUnanswered ==
    \A r \in Request :
        req[r].pc = "answered" =>
            \A i \in 1 .. Len(Todo(r)) : Todo(r)[i] # "kyc"

(* Every request ends, although calls may fail for ever                    *)
(* (RetryPolicy.max_retries).                                              *)
EveryRequestEnds ==
    \A r \in Request : req[r].pc # "idle" ~> req[r].pc = "idle"

=============================================================================
