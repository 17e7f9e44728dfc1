SPECIFICATION Spec
CONSTANT MaxRetries = 2
INVARIANTS SuccessIsComplete HandlesReleased HandlesFitTheStage CancelIsSeen
PROPERTY FormatThreadEnds
