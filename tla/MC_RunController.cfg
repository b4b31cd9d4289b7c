\* One client, images that need no preparation, and one server restart at any
\* point with the startup listing succeeding: one live runtime per run, no
\* step rerun once recorded Succeeded, and every active run resumed.
CONSTANTS
    r1 = r1
    c1 = c1
    c2 = c2
    prep1 = prep1
    train1 = train1
    NoCb = NoCb
    NoRun = NoRun
    Runs = {r1}
    Clients <- OneClient
    Steps <- MCSteps
    Deps <- MCDeps
    MaxRequests = 4
    MaxRuntimes = 5
    NeedPrepModes = {FALSE}
    MaxRestarts = 1
    ListOutcomes = {TRUE}
    ResumeWorker = ResumeWorker

SPECIFICATION Spec

\* The server idles once the clients have issued all their requests.
CHECK_DEADLOCK FALSE

INVARIANT OneLiveRuntimePerRun
INVARIANT LiveRuntimeRegistered
INVARIANT DeletedRunHasNoLiveRuntime
PROPERTY NoSucceededStepRerun
PROPERTY ActiveRunRegistered
