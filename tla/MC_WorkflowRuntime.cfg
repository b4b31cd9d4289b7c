CONSTANTS
    h1 = h1
    pre = pre
    train = train
    eval = eval
    NoCb = NoCb
    Handles <- MCHandles
    Steps <- MCSteps
    Deps <- MCDeps

SPECIFICATION Spec

\* The runtime legitimately stops doing anything once its run is final.
CHECK_DEADLOCK FALSE

INVARIANT SucceededMeansAllRan
INVARIANT DepsDoneBeforeSubmit
INVARIANT RestoredNeverResubmitted
 
PROPERTY StopIsHonoured
PROPERTY LifecycleRefined
