\* One client: a stopped run must reach a final status.
CONSTANTS
    r1 = r1
    c1 = c1
    c2 = c2
    prep1 = prep1
    train1 = train1
    NoCb = NoCb
    NoRun = NoRun
    Runs = {r1}
    Clients <- OneClient
    Steps <- MCSteps
    Deps <- MCDeps
    MaxRequests = 4
    MaxRuntimes = 3
    NeedPrepModes = {FALSE}
    MaxRestarts = 0
    ListOutcomes = {TRUE}
    ResumeWorker = ResumeWorker

SPECIFICATION Spec

CHECK_DEADLOCK FALSE

PROPERTY StopEventuallyFinal
