SPECIFICATION Spec
CONSTANTS
    NumSegs = 5
    MaxBuffered = 3
    AbortFrom = "any"
INVARIANT OutcomeIsTrue
