CONSTANTS
    MaxCall = 3
SPECIFICATION Spec
INVARIANTS AnswerInPlace AnswerFindsCall
PROPERTIES CallsEndOrStrand
CHECK_DEADLOCK FALSE
