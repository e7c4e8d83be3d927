---------------------------- MODULE AgentsProofs ----------------------------
(***************************************************************************)
(* Proofs about Agents for any requests and any number of retries.         *)
(***************************************************************************)
EXTENDS Agents, TLAPS

(* What stands behind a stage that is over.                                *)
Stood(a, output) ==
    /\ a # "kyc"
    /\ output.source = "answer" \/ a = "support"

ModelOK(r) ==
    /\ req[r].pc = "parse" =>
           req[r].by = IF req[r].fallback THEN "fallback" ELSE "default"
    /\ req[r].fallback => req[r].attempt > 0

StagesOK(r) ==
    /\ req[r].stage \in 1 .. Len(Todo(r))
    /\ \A i \in 1 .. Len(Todo(r)) :
          i < req[r].stage \/ req[r].pc \in {"summary", "answered"} =>
              Stood(Todo(r)[i], req[r].results[Todo(r)[i]])

RequestOK(r) == ModelOK(r) /\ StagesOK(r)
Requests == \A r \in Request : RequestOK(r)

IInv == TypeOK /\ ModelUsedTrue /\ Requests

-----------------------------------------------------------------------------
(* The stages of a route are agents; only a request for the support agent  *)
(* has the support agent in them.                                          *)
LEMMA StagesShape ==
  ASSUME NEW route \in Route, NEW a \in Agent
  PROVE  /\ Len(Stages(route, a)) \in 1 .. 4
         /\ \A i \in 1 .. Len(Stages(route, a)) : Stages(route, a)[i] \in Agent
         /\ route \in Pipeline =>
                \A i \in 1 .. Len(Stages(route, a)) :
                    Stages(route, a)[i] # "support"
<1>1. CASE route = "loan"
  <2>1. Stages(route, a) = <<"kyc", "transaction", "risk", "report">>
    BY <1>1 DEF Stages
  <2> QED
    BY <2>1 DEF Agent
<1>2. CASE route = "fraud"
  <2>1. Stages(route, a) = <<"fraud", "risk", "report">>
    BY <1>2 DEF Stages
  <2> QED
    BY <2>1 DEF Agent
<1>3. CASE route = "kyc"
  <2>1. Stages(route, a) = <<"kyc", "report">>
    BY <1>3 DEF Stages
  <2> QED
    BY <2>1 DEF Agent
<1>4. CASE route = "support"
  <2>1. Stages(route, a) = <<"support">>
    BY <1>4 DEF Stages
  <2> QED
    BY <1>4, <2>1 DEF Agent, Pipeline
<1>5. CASE route = "single"
  <2>1. Stages(route, a) = <<a>>
    BY <1>5 DEF Stages
  <2> QED
    BY <1>5, <2>1 DEF Pipeline
<1> QED
  BY <1>1, <1>2, <1>3, <1>4, <1>5 DEF Route

(* The error output of every agent but the support agent leaves out a      *)
(* required field.                                                         *)
LEMMA OnlySupportErrs ==
  ASSUME NEW a \in Agent, ErrorConforms(a)
  PROVE  a = "support"
<1>1. ErrorFields(a) = {}
  BY DEF ErrorFields, Agent, KycErrored, FraudErrored, TransactionErrored,
         RiskErrored, SupportErrored, ReportErrored
<1>2. Required(a) = {}
  BY <1>1 DEF ErrorConforms
<1>3. /\ a = "kyc" => "liveness_check" \in Required(a)
      /\ a = "fraud" => "fraud_type" \in Required(a)
      /\ a = "transaction" => "savings_rate" \in Required(a)
      /\ a = "risk" => "max_eligible_amount" \in Required(a)
      /\ a = "report" => "report_period" \in Required(a)
  BY DEF Required
<1> QED
  BY <1>2, <1>3 DEF Agent

(* parse_output of the KYC agent leaves out liveness_check.                *)
LEMMA KycNeverParses ==
  ASSUME NEW answer \in Answer
  PROVE  ~Parses("kyc", answer)
<1>1. "liveness_check" \in Required("kyc")
  BY DEF Required
<1>2. ParsedFields("kyc") = KycParsed /\ "liveness_check" \notin KycParsed
  BY DEF ParsedFields, KycParsed
<1> QED
  BY <1>1, <1>2 DEF Parses

LEMMA IdleShape ==
  /\ IdleRequest \in RequestState
  /\ IdleRequest.route = "single" /\ IdleRequest.agent = "report"
  /\ IdleRequest.pc = "idle" /\ IdleRequest.stage = 1
  /\ ~IdleRequest.fallback
  /\ \A a \in Agent : IdleRequest.results[a] = NoOutput
<1>1. NoOutput \in Output
  BY DEF NoOutput, Output, Model
<1> QED
  BY <1>1, AgentsAssumption
     DEF IdleRequest, RequestState, Route, Agent, Model

(* An idle request is at the first stage of some route: none is over.      *)
LEMMA FirstStage ==
  /\ 1 \in 1 .. Len(Stages("single", "report"))
  /\ \A i \in 1 .. Len(Stages("single", "report")) : ~(i < 1)
<1>1. "single" \in Route /\ "report" \in Agent
  BY DEF Route, Agent
<1>2. Len(Stages("single", "report")) \in 1 .. 4
  BY <1>1, StagesShape
<1> QED
  BY <1>2

LEMMA CurrentTyped ==
  ASSUME IInv, NEW r \in Request
  PROVE  /\ req[r] \in RequestState
         /\ Len(Todo(r)) \in 1 .. 4 /\ req[r].stage \in 1 .. Len(Todo(r))
         /\ \A i \in 1 .. Len(Todo(r)) : Todo(r)[i] \in Agent
         /\ Current(r) \in Agent
<1>1. req[r] \in RequestState
  BY DEF IInv, TypeOK
<1>2. req[r].route \in Route /\ req[r].agent \in Agent
  BY <1>1 DEF RequestState
<1>3. /\ Len(Todo(r)) \in 1 .. 4
      /\ \A i \in 1 .. Len(Todo(r)) : Todo(r)[i] \in Agent
  BY <1>2, StagesShape DEF Todo
<1> QED
  BY <1>1, <1>3 DEF Current, IInv, Requests, RequestOK, StagesOK

(* One request moves to a state in which its part of the invariant holds.  *)
LEMMA RequestStep ==
  ASSUME IInv, NEW r \in Request, NEW next \in RequestState,
         req' = [req EXCEPT ![r] = next],
         \A a \in Agent : next.results[a].model_used = next.results[a].by,
         next.pc = "parse" =>
             next.by = IF next.fallback THEN "fallback" ELSE "default",
         next.fallback => next.attempt > 0,
         next.stage \in 1 .. Len(Stages(next.route, next.agent)),
         \A i \in 1 .. Len(Stages(next.route, next.agent)) :
             i < next.stage \/ next.pc \in {"summary", "answered"} =>
                 Stood(Stages(next.route, next.agent)[i],
                       next.results[Stages(next.route, next.agent)[i]])
  PROVE  IInv'
<1>1. /\ req' \in [Request -> RequestState] /\ req'[r] = next
      /\ \A q \in Request : q # r => req'[q] = req[q]
  BY DEF IInv, TypeOK
<1>2. TypeOK'
  BY <1>1 DEF TypeOK
<1>3. ModelUsedTrue'
  BY <1>1 DEF IInv, ModelUsedTrue
<1>4. RequestOK(r)'
  BY <1>1 DEF RequestOK, ModelOK, StagesOK, Todo
<1>5. \A q \in Request : q # r => RequestOK(q)'
  BY <1>1 DEF IInv, Requests, RequestOK, ModelOK, StagesOK, Todo
<1> QED
  BY <1>2, <1>3, <1>4, <1>5 DEF IInv, Requests

LEMMA IdleStep ==
  ASSUME IInv, NEW r \in Request, req' = [req EXCEPT ![r] = IdleRequest]
  PROVE  IInv'
<1>1. NoOutput.model_used = NoOutput.by
  BY DEF NoOutput
<1> QED
  BY <1>1, FirstStage, IdleShape, RequestStep

(* Nothing but pc, attempt, fallback, by or the escalation changes.        *)
LEMMA SameStage ==
  ASSUME IInv, NEW r \in Request, NEW next \in RequestState,
         req' = [req EXCEPT ![r] = next],
         next.route = req[r].route, next.agent = req[r].agent,
         next.stage = req[r].stage, next.results = req[r].results,
         next.pc \in {"summary", "answered"} =>
             req[r].pc \in {"summary", "answered"},
         next.pc = "parse" =>
             next.by = IF next.fallback THEN "fallback" ELSE "default",
         next.fallback => next.attempt > 0
  PROVE  IInv'
<1>1. /\ next.stage \in 1 .. Len(Stages(next.route, next.agent))
      /\ \A i \in 1 .. Len(Stages(next.route, next.agent)) :
             i < next.stage \/ next.pc \in {"summary", "answered"} =>
                 Stood(Stages(next.route, next.agent)[i],
                       next.results[Stages(next.route, next.agent)[i]])
  BY DEF IInv, Requests, RequestOK, StagesOK, Todo
<1>2. \A a \in Agent : next.results[a].model_used = next.results[a].by
  BY DEF IInv, ModelUsedTrue
<1> QED
  BY <1>1, <1>2, RequestStep

(* A stage returns an output that the next stages may rest on.             *)
LEMMA ReturnsStep ==
  ASSUME IInv, NEW r \in Request, NEW output \in Output,
         Returns(r, output), Stood(Current(r), output),
         output.model_used = output.by
  PROVE  IInv'
<1> DEFINE s == req[r].stage
           len == Len(Todo(r))
           next == [req[r] EXCEPT
                      !.results = [@ EXCEPT ![Current(r)] = output],
                      !.attempt = 0, !.fallback = FALSE, !.by = "none",
                      !.stage = IF s < len THEN s + 1 ELSE s,
                      !.pc = IF s < len THEN "guard" ELSE "summary"]
<1>1. /\ req[r] \in RequestState /\ s \in 1 .. len /\ len \in 1 .. 4
      /\ Current(r) \in Agent /\ Current(r) = Todo(r)[s]
      /\ \A i \in 1 .. len : Todo(r)[i] \in Agent
  BY CurrentTyped DEF Current
<1>2. req' = [req EXCEPT ![r] = next]
  BY <1>1 DEF Returns, RequestState, IInv, TypeOK
<1>3. /\ next.results = [req[r].results EXCEPT ![Current(r)] = output]
      /\ next.stage = IF s < len THEN s + 1 ELSE s
      /\ next.pc = IF s < len THEN "guard" ELSE "summary"
      /\ next.route = req[r].route /\ next.agent = req[r].agent
      /\ ~next.fallback
  BY <1>1 DEF RequestState
<1>4. next \in RequestState
  <2>1. /\ (IF s < len THEN s + 1 ELSE s) \in 1 .. 4
        /\ 0 \in 0 .. MaxRetries
    BY <1>1, AgentsAssumption
  <2>2. [req[r].results EXCEPT ![Current(r)] = output] \in [Agent -> Output]
    BY <1>1 DEF RequestState
  <2> HIDE DEF s, len
  <2> QED
    BY <1>1, <2>1, <2>2 DEF RequestState, Model
<1> HIDE DEF next
<1>5. /\ next.results[Current(r)] = output
      /\ \A a \in Agent : a # Current(r) =>
             next.results[a] = req[r].results[a]
  BY <1>1, <1>3 DEF RequestState
<1>6. Stages(next.route, next.agent) = Todo(r)
  BY <1>3 DEF Todo
<1>7. \A i \in 1 .. len : i < s =>
          Stood(Todo(r)[i], req[r].results[Todo(r)[i]])
  BY DEF IInv, Requests, RequestOK, StagesOK
<1>8. \A i \in 1 .. len : i < s \/ i = s =>
          Stood(Todo(r)[i], next.results[Todo(r)[i]])
  BY <1>1, <1>5, <1>7
<1>9. next.stage \in 1 .. len /\ (next.stage = s + 1 \/ s = len)
  BY <1>1, <1>3
<1>10. next.pc \in {"guard", "summary"} /\ (next.pc = "summary" => s = len)
  BY <1>1, <1>3
<1>11. \A i \in 1 .. len :
           i < next.stage \/ next.pc \in {"summary", "answered"} =>
               i < s \/ i = s
  BY <1>1, <1>3
<1>12. \A a \in Agent : next.results[a].model_used = next.results[a].by
  BY <1>5 DEF IInv, ModelUsedTrue
<1> QED
  BY <1>2, <1>3, <1>4, <1>6, <1>8, <1>9, <1>10, <1>11, <1>12, RequestStep

LEMMA ReturnsErrorStep ==
  ASSUME IInv, NEW r \in Request, ReturnsError(r)
  PROVE  IInv'
<1>1. req[r] \in RequestState /\ Current(r) \in Agent
  BY CurrentTyped
<1>2. CASE ErrorConforms(Current(r))
  <2>1. Current(r) = "support"
    BY <1>1, <1>2, OnlySupportErrs
  <2>2. /\ ErrorOutput \in Output
        /\ ErrorOutput.model_used = ErrorOutput.by
    BY DEF ErrorOutput, NoOutput, Output, Model
  <2>3. Returns(r, ErrorOutput)
    BY <1>2 DEF ReturnsError
  <2> QED
    BY <2>1, <2>2, <2>3, ReturnsStep DEF Stood
<1>3. CASE ~ErrorConforms(Current(r))
  <2> DEFINE next == [req[r] EXCEPT !.pc = "failed"]
  <2>1. req' = [req EXCEPT ![r] = next]
    BY <1>3 DEF ReturnsError
  <2>2. /\ next \in RequestState /\ next.pc = "failed"
        /\ next.route = req[r].route /\ next.agent = req[r].agent
        /\ next.stage = req[r].stage /\ next.results = req[r].results
        /\ next.fallback = req[r].fallback /\ next.attempt = req[r].attempt
    BY <1>1 DEF RequestState
  <2>3. req[r].fallback => req[r].attempt > 0
    BY DEF IInv, Requests, RequestOK, ModelOK
  <2> HIDE DEF next
  <2> QED
    BY <2>1, <2>2, <2>3, SameStage
<1> QED
  BY <1>2, <1>3

-----------------------------------------------------------------------------
LEMMA BeginStep ==
  ASSUME IInv, NEW r \in Request, NEW route \in Route, NEW a \in Agent,
         NEW defects \in SUBSET Defect, Begin(r, route, a, defects)
  PROVE  IInv'
<1> DEFINE next == [IdleRequest EXCEPT !.pc = "guard", !.route = route,
                                       !.agent = a, !.defects = defects]
<1>1. req' = [req EXCEPT ![r] = next]
  BY DEF Begin
<1>2. /\ next \in RequestState /\ next.pc = "guard" /\ next.stage = 1
      /\ next.route = route /\ next.agent = a /\ ~next.fallback
      /\ next.results = IdleRequest.results
  BY IdleShape DEF RequestState
<1> HIDE DEF next
<1>3. \A b \in Agent : next.results[b].model_used = next.results[b].by
  BY <1>2, IdleShape DEF NoOutput
<1>4. /\ Len(Stages(route, a)) \in 1 .. 4
      /\ 1 \in 1 .. Len(Stages(route, a))
      /\ \A i \in 1 .. Len(Stages(route, a)) : ~(i < 1)
  BY StagesShape
<1> QED
  BY <1>1, <1>2, <1>3, <1>4, RequestStep

LEMMA PlainStep ==
  ASSUME IInv, NEW r \in Request,
         \/ CheckInput(r) \/ BuildContext(r) \/ CallAnswers(r)
         \/ CallFails(r) \/ Summarise(r)
  PROVE  IInv'
<1>1. req[r] \in RequestState /\ req \in [Request -> RequestState]
  BY CurrentTyped DEF IInv, TypeOK
<1>2. req[r].fallback => req[r].attempt > 0
  BY DEF IInv, Requests, RequestOK, ModelOK
<1>3. CASE CheckInput(r) \/ BuildContext(r)
  <2>1. ReturnsError(r) \/ \E pc \in {"context", "call"} :
                               req' = [req EXCEPT ![r].pc = pc]
    BY <1>3 DEF CheckInput, BuildContext
  <2>2. ASSUME NEW pc \in {"context", "call"}, req' = [req EXCEPT ![r].pc = pc]
        PROVE  IInv'
    <3> DEFINE next == [req[r] EXCEPT !.pc = pc]
    <3>1. req' = [req EXCEPT ![r] = next]
      BY <2>2
    <3>2. /\ next \in RequestState /\ next.pc = pc
          /\ next.route = req[r].route /\ next.agent = req[r].agent
          /\ next.stage = req[r].stage /\ next.results = req[r].results
          /\ next.fallback = req[r].fallback /\ next.attempt = req[r].attempt
      BY <1>1 DEF RequestState
    <3> HIDE DEF next
    <3> QED
      BY <1>2, <3>1, <3>2, SameStage
  <2> QED
    BY <2>1, <2>2, ReturnsErrorStep
<1>4. CASE CallAnswers(r)
  <2> DEFINE next == [req[r] EXCEPT !.pc = "parse", !.by = ModelOf(r)]
  <2>1. req' = [req EXCEPT ![r] = next]
    BY <1>4 DEF CallAnswers
  <2>2. /\ ModelOf(r) = IF req[r].fallback THEN "fallback" ELSE "default"
        /\ ModelOf(r) \in Model
    BY <1>2 DEF ModelOf, Model
  <2>3. /\ next \in RequestState /\ next.pc = "parse" /\ next.by = ModelOf(r)
        /\ next.route = req[r].route /\ next.agent = req[r].agent
        /\ next.stage = req[r].stage /\ next.results = req[r].results
        /\ next.fallback = req[r].fallback /\ next.attempt = req[r].attempt
    BY <1>1, <2>2 DEF RequestState
  <2> HIDE DEF next
  <2> QED
    BY <1>2, <2>1, <2>2, <2>3, SameStage
<1>5. CASE CallFails(r)
  <2>1. CASE ~(req[r].attempt < MaxRetries)
    BY <1>5, <2>1, ReturnsErrorStep DEF CallFails
  <2>2. CASE req[r].attempt < MaxRetries
    <3> DEFINE n == req[r].attempt + 1
               f == req[r].fallback \/ req[r].attempt = 0
               next == [req[r] EXCEPT !.attempt = n, !.fallback = f]
    <3>1. n \in 0 .. MaxRetries /\ n > 0 /\ f \in BOOLEAN
      BY <1>1, <2>2, AgentsAssumption DEF RequestState
    <3>2. req' = [req EXCEPT ![r] = next] /\ req[r].pc = "call"
      BY <1>1, <1>5, <2>2 DEF CallFails, RequestState
    <3> HIDE DEF n, f
    <3>3. /\ next \in RequestState /\ next.pc = "call"
          /\ next.route = req[r].route /\ next.agent = req[r].agent
          /\ next.stage = req[r].stage /\ next.results = req[r].results
          /\ next.attempt = n
      BY <1>1, <3>1, <3>2 DEF RequestState
    <3> HIDE DEF next
    <3> QED
      BY <3>1, <3>2, <3>3, SameStage
  <2> QED
    BY <2>1, <2>2
<1>6. CASE Summarise(r)
  <2>1. PICK e \in BOOLEAN :
            req' = [req EXCEPT ![r].pc = "answered", ![r].escalation = e]
    BY <1>6 DEF Summarise
  <2> DEFINE next == [req[r] EXCEPT !.pc = "answered", !.escalation = e]
  <2>2. req' = [req EXCEPT ![r] = next] /\ req[r].pc = "summary"
    BY <1>1, <1>6, <2>1 DEF Summarise
  <2>3. /\ next \in RequestState /\ next.pc = "answered"
        /\ next.route = req[r].route /\ next.agent = req[r].agent
        /\ next.stage = req[r].stage /\ next.results = req[r].results
        /\ next.fallback = req[r].fallback /\ next.attempt = req[r].attempt
    BY <1>1 DEF RequestState
  <2> HIDE DEF next
  <2> QED
    BY <1>2, <2>2, <2>3, SameStage
<1> QED
  BY <1>3, <1>4, <1>5, <1>6

LEMMA ParseStep ==
  ASSUME IInv, NEW r \in Request, NEW answer \in Answer,
         NEW escalates \in BOOLEAN, Parse(r, answer, escalates)
  PROVE  IInv'
<1> DEFINE output == [source |-> "answer", escalation |-> escalates,
                      model_used |-> IF req[r].fallback THEN "fallback"
                                     ELSE "default",
                      by |-> req[r].by]
<1>1. CASE Parses(Current(r), answer)
  <2>1. Returns(r, output) /\ req[r].pc = "parse"
    BY <1>1 DEF Parse
  <2>2. req[r].by = IF req[r].fallback THEN "fallback" ELSE "default"
    BY <2>1 DEF IInv, Requests, RequestOK, ModelOK
  <2>3. /\ output \in Output /\ output.model_used = output.by
        /\ output.source = "answer"
    BY <2>2 DEF Output, Model
  <2>4. Current(r) # "kyc"
    BY <1>1, KycNeverParses
  <2> HIDE DEF output
  <2> QED
    BY <2>1, <2>3, <2>4, ReturnsStep DEF Stood
<1>2. CASE ~Parses(Current(r), answer)
  BY <1>2, ReturnsErrorStep DEF Parse
<1> QED
  BY <1>1, <1>2

LEMMA InitIInv == Init => IInv
<1> SUFFICES ASSUME Init PROVE IInv
  OBVIOUS
<1>1. req \in [Request -> RequestState] /\ \A r \in Request : req[r] = IdleRequest
  BY IdleShape DEF Init
<1>2. \A r \in Request : Todo(r) = Stages("single", "report")
  BY <1>1, IdleShape DEF Todo
<1>3. \A r \in Request : ModelOK(r)
  BY <1>1, IdleShape DEF ModelOK
<1>4. \A r \in Request : StagesOK(r)
  BY <1>1, <1>2, FirstStage, IdleShape DEF StagesOK
<1>5. ModelUsedTrue
  BY <1>1, IdleShape DEF ModelUsedTrue, NoOutput
<1> QED
  BY <1>1, <1>3, <1>4, <1>5 DEF IInv, TypeOK, Requests, RequestOK

LEMMA NextIInv == IInv /\ [Next]_req => IInv'
<1> SUFFICES ASSUME IInv, [Next]_req PROVE IInv'
  OBVIOUS
<1>1. CASE UNCHANGED req
  BY <1>1 DEF IInv, TypeOK, ModelUsedTrue, Requests, RequestOK, ModelOK,
              StagesOK, Todo
<1>2. ASSUME NEW r \in Request,
             \/ \E route \in Route, a \in Agent, defects \in SUBSET Defect :
                    Begin(r, route, a, defects)
             \/ Step(r)
             \/ Crash(r)
      PROVE  IInv'
  <2>1. CASE \E route \in Route, a \in Agent, defects \in SUBSET Defect :
                 Begin(r, route, a, defects)
    BY <2>1, BeginStep
  <2>2. CASE Leave(r) \/ Crash(r)
    BY <2>2, IdleStep DEF Leave, Crash
  <2>3. CASE \E answer \in Answer, escalates \in BOOLEAN :
                 Parse(r, answer, escalates)
    BY <2>3, ParseStep
  <2> QED
    BY <1>2, <2>1, <2>2, <2>3, PlainStep DEF Step
<1> QED
  BY <1>1, <1>2 DEF Next

LEMMA Invariance == Spec => []IInv
  BY InitIInv, NextIInv, PTL DEF Spec

(* The state of every request keeps its type.                              *)
THEOREM TypeCorrect == Spec => []TypeOK
<1>1. IInv => TypeOK
  BY DEF IInv
<1> QED
  BY <1>1, Invariance, PTL

(* An output names the model that answered.                                *)
THEOREM ModelsNamed == Spec => []ModelUsedTrue
<1>1. IInv => ModelUsedTrue
  BY DEF IInv
<1> QED
  BY <1>1, Invariance, PTL

(* Whatever the calls return, a pipeline that is answered has an answer of *)
(* a model behind each of its stages.                                      *)
THEOREM SummariesFromAnswers == Spec => []SummaryFromAnswers
<1>1. IInv => SummaryFromAnswers
  <2> SUFFICES ASSUME IInv, NEW r \in Request, req[r].pc = "answered",
                      req[r].route \in Pipeline, NEW i \in 1 .. Len(Todo(r))
               PROVE  req[r].results[Todo(r)[i]].source = "answer"
    BY DEF SummaryFromAnswers
  <2>1. req[r].route \in Route /\ req[r].agent \in Agent
    BY DEF IInv, TypeOK, RequestState
  <2>2. Todo(r)[i] # "support"
    BY <2>1, StagesShape DEF Todo
  <2>3. Stood(Todo(r)[i], req[r].results[Todo(r)[i]])
    BY DEF IInv, Requests, RequestOK, StagesOK
  <2> QED
    BY <2>2, <2>3 DEF Stood
<1> QED
  BY <1>1, Invariance, PTL

(* No request whose stages include the KYC agent is ever answered.         *)
THEOREM KycNeverAnswered == Spec => []KycUnanswered
<1>1. IInv => KycUnanswered
  BY DEF IInv, Requests, RequestOK, StagesOK, Stood, KycUnanswered
<1> QED
  BY <1>1, Invariance, PTL

-----------------------------------------------------------------------------
(* How far a request is from its end, in attempts and checks: what is left *)
(* of its stage, a whole round for each stage after it, the summary and    *)
(* the answer.                                                             *)
PerStage == MaxRetries + 5
LeftOfStage(q) ==
    CASE q.pc = "guard"   -> PerStage
      [] q.pc = "context" -> PerStage - 1
      [] q.pc = "call"    -> PerStage - 2 - q.attempt
      [] OTHER            -> 1
StagesAfter(q) == Len(Stages(q.route, q.agent)) - q.stage
Work(q) ==
    CASE q.pc = "idle"                   -> 0
      [] q.pc \in {"answered", "failed"} -> 1
      [] q.pc = "summary"                -> 2
      [] OTHER -> 2 + StagesAfter(q) * PerStage + LeftOfStage(q)

AtWork == {"guard", "context", "call", "parse"}

(* No step of a request leads away from its end.                           *)
Advances(r) ==
    req[r].pc # "idle" => req'[r] = req[r] \/ Work(req'[r]) < Work(req[r])

LEMMA PerStageNat == PerStage \in Nat /\ PerStage > MaxRetries + 4
  BY AgentsAssumption DEF PerStage

LEMMA Rounds ==
  ASSUME NEW k \in 0 .. 3, NEW p \in Nat
  PROVE  /\ k * p \in Nat /\ k * p <= 3 * p
         /\ k > 0 => (k - 1) * p + p = k * p
<1>1. k = 0 \/ k = 1 \/ k = 2 \/ k = 3
  OBVIOUS
<1> QED
  BY <1>1

LEMMA LeftOfStageRange ==
  ASSUME NEW q \in RequestState
  PROVE  LeftOfStage(q) \in 1 .. PerStage
<1>1. q.attempt \in 0 .. MaxRetries
  BY DEF RequestState
<1> QED
  BY <1>1, AgentsAssumption DEF LeftOfStage, PerStage

LEMMA WorkAtWork ==
  ASSUME IInv, NEW r \in Request, req[r].pc \in AtWork
  PROVE  /\ StagesAfter(req[r]) \in 0 .. 3
         /\ LeftOfStage(req[r]) \in 1 .. PerStage
         /\ StagesAfter(req[r]) * PerStage \in Nat
         /\ StagesAfter(req[r]) * PerStage <= 3 * PerStage
         /\ Work(req[r]) = 2 + StagesAfter(req[r]) * PerStage
                             + LeftOfStage(req[r])
<1>1. StagesAfter(req[r]) \in 0 .. 3
  <2>1. StagesAfter(req[r]) = Len(Todo(r)) - req[r].stage
    BY DEF StagesAfter, Todo
  <2>2. Len(Todo(r)) \in 1 .. 4 /\ req[r].stage \in 1 .. Len(Todo(r))
    BY CurrentTyped
  <2> DEFINE n == Len(Todo(r))
             i == req[r].stage
  <2>3. n \in 1 .. 4 /\ i \in 1 .. n
    BY <2>2
  <2> HIDE DEF n, i
  <2>4. n - i \in 0 .. 3
    BY <2>3
  <2> QED
    BY <2>1, <2>4 DEF n, i
<1>2. LeftOfStage(req[r]) \in 1 .. PerStage
  BY CurrentTyped, LeftOfStageRange
<1>3. /\ StagesAfter(req[r]) * PerStage \in Nat
      /\ StagesAfter(req[r]) * PerStage <= 3 * PerStage
  BY <1>1, PerStageNat, Rounds
<1>4. Work(req[r]) = 2 + StagesAfter(req[r]) * PerStage + LeftOfStage(req[r])
  BY DEF Work, AtWork
<1> QED
  BY <1>1, <1>2, <1>3, <1>4

LEMMA WorkRange ==
  ASSUME IInv, NEW r \in Request
  PROVE  Work(req[r]) \in 0 .. 2 + 4 * PerStage
<1>1. CASE req[r].pc \in AtWork
  BY <1>1, WorkAtWork, PerStageNat
<1>2. CASE req[r].pc \notin AtWork
  <2>1. req[r].pc \in {"idle", "answered", "failed", "summary"}
    BY <1>2, CurrentTyped DEF RequestState, AtWork
  <2> QED
    BY <2>1, PerStageNat DEF Work
<1> QED
  BY <1>1, <1>2

(* A request that stays at its stage and is nearer the end of it.          *)
LEMMA SameStageAdvances ==
  ASSUME IInv, NEW r \in Request, req[r].pc \in AtWork,
         req'[r].pc \in AtWork,
         StagesAfter(req'[r]) = StagesAfter(req[r]),
         LeftOfStage(req'[r]) \in Nat,
         LeftOfStage(req'[r]) < LeftOfStage(req[r])
  PROVE  Work(req'[r]) < Work(req[r])
<1>1. Work(req'[r]) = 2 + StagesAfter(req[r]) * PerStage
                        + LeftOfStage(req'[r])
  BY DEF Work, AtWork
<1> DEFINE k == StagesAfter(req[r]) * PerStage
           m == LeftOfStage(req[r])
           n == LeftOfStage(req'[r])
<1>2. /\ Work(req'[r]) = 2 + k + n
      /\ Work(req[r]) = 2 + k + m /\ k \in Nat /\ m \in Nat /\ n \in Nat
      /\ n < m
  BY <1>1, WorkAtWork, PerStageNat
<1> HIDE DEF k, m, n
<1> QED
  BY <1>2

LEMMA ReturnsAdvances ==
  ASSUME IInv, NEW r \in Request, NEW output, req[r].pc \in AtWork,
         Returns(r, output)
  PROVE  Work(req'[r]) < Work(req[r])
<1> DEFINE s == req[r].stage
           len == Len(Todo(r))
           k == StagesAfter(req[r])
<1>1. /\ req[r] \in RequestState /\ req \in [Request -> RequestState]
      /\ s \in 1 .. len /\ len \in 1 .. 4 /\ k = len - s
  BY CurrentTyped DEF IInv, TypeOK, StagesAfter, Todo
<1>2. /\ req'[r].stage = IF s < len THEN s + 1 ELSE s
      /\ req'[r].pc = IF s < len THEN "guard" ELSE "summary"
      /\ req'[r].route = req[r].route /\ req'[r].agent = req[r].agent
  BY <1>1 DEF Returns, RequestState
<1>3. Work(req[r]) > 2 + k * PerStage /\ k \in 0 .. 3 /\ k * PerStage \in Nat
  BY WorkAtWork, PerStageNat
<1>4. CASE s < len
  <2>1. StagesAfter(req'[r]) = k - 1 /\ req'[r].pc = "guard" /\ k > 0
    BY <1>1, <1>2, <1>4 DEF StagesAfter, Todo
  <2>2. Work(req'[r]) = 2 + (k - 1) * PerStage + PerStage
    BY <2>1 DEF Work, LeftOfStage
  <2>3. (k - 1) * PerStage + PerStage = k * PerStage
    BY <1>3, <2>1, PerStageNat, Rounds
  <2>4. k - 1 \in 0 .. 3
    BY <1>3, <2>1
  <2>5. (k - 1) * PerStage \in Nat
    BY <2>4, PerStageNat, Rounds
  <2> DEFINE a == (k - 1) * PerStage
             b == k * PerStage
  <2>6. /\ Work(req'[r]) = 2 + a + PerStage /\ a + PerStage = b
        /\ Work(req[r]) > 2 + b /\ a \in Nat /\ b \in Nat
    BY <1>3, <2>2, <2>3, <2>5
  <2> HIDE DEF a, b, k
  <2> QED
    BY <2>6, PerStageNat
<1>5. CASE ~(s < len)
  <2>1. Work(req'[r]) = 2
    BY <1>2, <1>5 DEF Work
  <2> DEFINE b == k * PerStage
  <2>2. Work(req[r]) > 2 + b /\ b \in Nat /\ Work(req[r]) \in Nat
    BY <1>3, WorkRange, PerStageNat
  <2> HIDE DEF b, k
  <2> QED
    BY <2>1, <2>2
<1> QED
  BY <1>4, <1>5

LEMMA ReturnsErrorAdvances ==
  ASSUME IInv, NEW r \in Request, req[r].pc \in AtWork, ReturnsError(r)
  PROVE  Work(req'[r]) < Work(req[r])
<1>1. CASE ErrorConforms(Current(r))
  BY <1>1, ReturnsAdvances DEF ReturnsError
<1>2. CASE ~ErrorConforms(Current(r))
  <2>1. req'[r].pc = "failed"
    BY <1>2, CurrentTyped DEF ReturnsError, RequestState, IInv, TypeOK
  <2>2. Work(req'[r]) = 1
    BY <2>1 DEF Work
  <2>3. Work(req[r]) > 2
    BY WorkAtWork, PerStageNat
  <2>4. Work(req[r]) \in Nat
    BY WorkRange, PerStageNat
  <2> QED
    BY <2>2, <2>3, <2>4
<1> QED
  BY <1>1, <1>2

LEMMA StepAdvances ==
  ASSUME IInv, NEW r \in Request, Step(r)
  PROVE  Work(req'[r]) < Work(req[r])
<1>1. /\ req[r] \in RequestState /\ req \in [Request -> RequestState]
      /\ req[r].attempt \in 0 .. MaxRetries
  BY CurrentTyped DEF IInv, TypeOK, RequestState
<1>2. ASSUME CheckInput(r) \/ BuildContext(r), ~ReturnsError(r)
      PROVE  Work(req'[r]) < Work(req[r])
  <2>1. \/ req[r].pc = "guard" /\ req' = [req EXCEPT ![r].pc = "context"]
        \/ req[r].pc = "context" /\ req' = [req EXCEPT ![r].pc = "call"]
    BY <1>2 DEF CheckInput, BuildContext
  <2>2. /\ req'[r].stage = req[r].stage /\ req'[r].route = req[r].route
        /\ req'[r].agent = req[r].agent /\ req'[r].attempt = req[r].attempt
        /\ \/ req[r].pc = "guard" /\ req'[r].pc = "context"
           \/ req[r].pc = "context" /\ req'[r].pc = "call"
    BY <1>1, <2>1 DEF RequestState
  <2>3. /\ LeftOfStage(req'[r]) \in Nat
        /\ LeftOfStage(req'[r]) < LeftOfStage(req[r])
    BY <1>1, <2>2, AgentsAssumption DEF LeftOfStage, PerStage
  <2>4. StagesAfter(req'[r]) = StagesAfter(req[r])
    BY <2>2 DEF StagesAfter
  <2> QED
    BY <2>2, <2>3, <2>4, SameStageAdvances DEF AtWork
<1>3. ASSUME CallAnswers(r) PROVE Work(req'[r]) < Work(req[r])
  <2>1. /\ req'[r].stage = req[r].stage /\ req'[r].route = req[r].route
        /\ req'[r].agent = req[r].agent
        /\ req[r].pc = "call" /\ req'[r].pc = "parse"
    BY <1>1, <1>3 DEF CallAnswers, RequestState
  <2>2. LeftOfStage(req'[r]) = 1 /\ LeftOfStage(req[r]) > 1
    BY <1>1, <2>1, AgentsAssumption DEF LeftOfStage, PerStage
  <2>3. StagesAfter(req'[r]) = StagesAfter(req[r])
    BY <2>1 DEF StagesAfter
  <2> QED
    BY <2>1, <2>2, <2>3, SameStageAdvances DEF AtWork
<1>4. ASSUME CallFails(r), ~ReturnsError(r)
      PROVE  Work(req'[r]) < Work(req[r])
  <2>1. /\ req[r].attempt < MaxRetries /\ req[r].pc = "call"
        /\ req' = [req EXCEPT ![r].attempt = @ + 1,
                              ![r].fallback = @ \/ req[r].attempt = 0]
    BY <1>4 DEF CallFails
  <2>2. /\ req'[r].stage = req[r].stage /\ req'[r].route = req[r].route
        /\ req'[r].agent = req[r].agent /\ req'[r].pc = "call"
        /\ req'[r].attempt = req[r].attempt + 1
    BY <1>1, <2>1 DEF RequestState
  <2>3. /\ LeftOfStage(req'[r]) \in Nat
        /\ LeftOfStage(req'[r]) < LeftOfStage(req[r])
    BY <1>1, <2>1, <2>2, AgentsAssumption DEF LeftOfStage, PerStage
  <2>4. StagesAfter(req'[r]) = StagesAfter(req[r])
    BY <2>2 DEF StagesAfter
  <2> QED
    BY <2>1, <2>2, <2>3, <2>4, SameStageAdvances DEF AtWork
<1>5. ASSUME NEW answer \in Answer, NEW escalates \in BOOLEAN,
             Parse(r, answer, escalates), ~ReturnsError(r)
      PROVE  Work(req'[r]) < Work(req[r])
  <2>1. req[r].pc \in AtWork
    BY <1>5 DEF Parse, AtWork
  <2>2. PICK output : Returns(r, output)
    BY <1>5 DEF Parse
  <2> QED
    BY <2>1, <2>2, ReturnsAdvances
<1>6. ASSUME Summarise(r) PROVE Work(req'[r]) < Work(req[r])
  <2>1. req[r].pc = "summary" /\ req'[r].pc = "answered"
    BY <1>1, <1>6 DEF Summarise, RequestState
  <2>2. Work(req[r]) = 2 /\ Work(req'[r]) = 1
    BY <2>1 DEF Work
  <2> QED
    BY <2>2
<1>7. ASSUME Leave(r) PROVE Work(req'[r]) < Work(req[r])
  <2>1. req[r].pc \in {"answered", "failed"} /\ req'[r].pc = "idle"
    BY <1>1, <1>7, IdleShape DEF Leave
  <2>2. Work(req[r]) = 1 /\ Work(req'[r]) = 0
    BY <2>1 DEF Work
  <2> QED
    BY <2>2
<1>8. ASSUME ReturnsError(r), req[r].pc \in AtWork
      PROVE  Work(req'[r]) < Work(req[r])
  BY <1>8, ReturnsErrorAdvances
<1>9. ASSUME CheckInput(r) \/ BuildContext(r) \/ CallFails(r)
      PROVE  req[r].pc \in AtWork
  BY <1>9 DEF CheckInput, BuildContext, CallFails, AtWork
<1>10. ASSUME NEW answer \in Answer, NEW escalates \in BOOLEAN,
              Parse(r, answer, escalates)
       PROVE  req[r].pc \in AtWork
  BY <1>10 DEF Parse, AtWork
<1> QED
  BY <1>2, <1>3, <1>4, <1>5, <1>6, <1>7, <1>8, <1>9, <1>10 DEF Step

LEMMA NextAdvances ==
  ASSUME IInv, Next, NEW r \in Request
  PROVE  Advances(r)
<1>1. req \in [Request -> RequestState]
  BY DEF IInv, TypeOK
<1>2. PICK q \in Request :
          \/ \E route \in Route, a \in Agent, defects \in SUBSET Defect :
                 Begin(q, route, a, defects)
          \/ Step(q)
          \/ Crash(q)
  BY DEF Next
<1>3. ASSUME q # r PROVE req'[r] = req[r]
  <2>1. \E next : req' = [req EXCEPT ![q] = next]
    <3>1. CASE \/ \E route \in Route, a \in Agent, defects \in SUBSET Defect :
                      Begin(q, route, a, defects)
               \/ Crash(q) \/ Leave(q)
      BY <3>1 DEF Begin, Crash, Leave
    <3>2. ASSUME ReturnsError(q) \/ \E output : Returns(q, output)
          PROVE  \E next : req' = [req EXCEPT ![q] = next]
      BY <3>2, ZenonT(40) DEF ReturnsError, Returns
    <3>3. CASE CheckInput(q) \/ BuildContext(q) \/ CallAnswers(q)
      BY <3>2, <3>3 DEF CheckInput, BuildContext, CallAnswers
    <3>4. CASE CallFails(q)
      BY <3>2, <3>4 DEF CallFails
    <3>5. CASE \E answer \in Answer, escalates \in BOOLEAN :
                   Parse(q, answer, escalates)
      BY <3>2, <3>5 DEF Parse
    <3>6. CASE Summarise(q)
      BY <3>6 DEF Summarise
    <3> QED
      BY <1>2, <3>1, <3>3, <3>4, <3>5, <3>6 DEF Step
  <2> QED
    BY <1>1, <1>3, <2>1
<1>4. CASE q = r
  <2>1. CASE Step(q)
    BY <1>4, <2>1, StepAdvances DEF Advances
  <2>2. CASE Crash(q)
    <3>1. req[r].pc # "idle" /\ req'[r].pc = "idle"
      BY <1>1, <1>4, <2>2, IdleShape DEF Crash
    <3>2. Work(req'[r]) = 0
      BY <3>1 DEF Work
    <3>3. Work(req[r]) > 0
      <4>1. CASE req[r].pc \in AtWork
        BY <4>1, WorkAtWork, PerStageNat
      <4>2. CASE req[r].pc \notin AtWork
        BY <3>1, <4>2, CurrentTyped DEF Work, AtWork, RequestState
      <4> QED
        BY <4>1, <4>2
    <3> QED
      BY <3>2, <3>3 DEF Advances
  <2>3. ASSUME NEW route \in Route, NEW a \in Agent,
               NEW defects \in SUBSET Defect, Begin(q, route, a, defects)
        PROVE  Advances(r)
    BY <1>4, <2>3 DEF Begin, Advances
  <2> QED
    BY <1>2, <2>1, <2>2, <2>3
<1> QED
  BY <1>3, <1>4 DEF Advances

(* What is left of a request is bounded before it begins.                  *)
THEOREM WorkBounded ==
  Spec => [](\A r \in Request : Work(req[r]) \in 0 .. 2 + 4 * PerStage)
<1>1. IInv => \A r \in Request : Work(req[r]) \in 0 .. 2 + 4 * PerStage
  BY WorkRange
<1> QED
  BY Invariance, <1>1, PTL

(* Every step of a request, whatever fails in it, lowers a number that is  *)
(* at most 2 + 4 * (MaxRetries + 5): no agent, retry or error output sends *)
(* a request round in a circle (the loop of BaseAgent.run and the          *)
(* pipelines of AgentService).                                             *)
THEOREM RequestsAdvance ==
  Spec => [][\A r \in Request : Advances(r)]_req
<1>1. IInv /\ [Next]_req => [\A r \in Request : Advances(r)]_req
  BY NextAdvances
<1> QED
  BY Invariance, <1>1, PTL DEF Spec

=============================================================================
