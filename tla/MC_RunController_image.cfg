\* One client, images that may need preparation, two requests: every
\* runtime the image callback starts, fresh or resumed, is the one wfMap
\* holds for its run.
CONSTANTS
    r1 = r1
    c1 = c1
    c2 = c2
    prep1 = prep1
    train1 = train1
    NoCb = NoCb
    NoRun = NoRun
    Runs = {r1}
    Clients <- OneClient
    Steps <- MCSteps
    Deps <- MCDeps
    MaxRequests = 2
    MaxRuntimes = 3
    NeedPrepModes = {TRUE, FALSE}
    MaxRestarts = 0
    ListOutcomes = {TRUE}
    ResumeWorker = ResumeWorker

SPECIFICATION Spec

\* The server idles once the clients have issued all their requests.
CHECK_DEADLOCK FALSE

INVARIANT LiveRuntimeRegistered
