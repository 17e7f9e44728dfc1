SPECIFICATION Spec
CONSTANTS
    MaxLength = 4
    MaxBuffered = 3
    MaxCalls = 3
INVARIANTS SuccessIsWhole FailureRestores AlwaysAWholeImage
