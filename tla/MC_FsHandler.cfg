\* Every service call may fail and NewPFSClient returns a client or an
\* error with a client: the retry loop keeps its contract.
CONSTANTS
    cl1 = cl1
    cl2 = cl2
    Callers <- OneCaller
    MaxRetryCount = 3
    MaxCalls = 2
    Outcomes = {TRUE, FALSE}
    ClientOutcomes = {"ok", "err"}
    ServerModes = {TRUE, FALSE}
    StepNames <- MCStepNames
    NoEntry = NoEntry

SPECIFICATION Spec

\* The callers stop once the bounded number of calls has been made.
CHECK_DEADLOCK FALSE

INVARIANT RetryContract
