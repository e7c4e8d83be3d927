SPECIFICATION FairSpec
CONSTANTS
    Request = {r1}
    MaxRetries = 2
INVARIANTS SummaryFromAnswers ModelUsedTrue KycUnanswered
PROPERTIES EveryRequestEnds
