\* One client whose storage calls may fail, sending accepted and refused
\* requests: stored links keep their secrets encrypted and their s3 bucket.
CONSTANTS
    a = a
    ab = ab
    c = c
    cl1 = cl1
    cl2 = cl2
    NoPath = NoPath
    Paths <- MCPaths
    Nested <- MCNested
    Requests <- MCRequests
    S3SplitLen = 4
    UniqueFsPath = FALSE
    Clients <- OneClient
    MaxRequests = 4
    Outcomes = {TRUE, FALSE}

SPECIFICATION Spec

\* The server idles once the clients have issued all their requests.
CHECK_DEADLOCK FALSE

INVARIANT StoredLinkPropertiesNormalised
