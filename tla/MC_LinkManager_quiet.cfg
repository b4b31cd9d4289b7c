\* Two clients, reliable storage: whatever the interleaving, the links
\* meta matches the link rows once no request is in flight.
CONSTANTS
    a = a
    ab = ab
    c = c
    cl1 = cl1
    cl2 = cl2
    NoPath = NoPath
    Paths <- MCPaths
    Nested <- MCNested
    Requests <- MCRequests
    S3SplitLen = 4
    UniqueFsPath = FALSE
    Clients <- TwoClients
    MaxRequests = 4
    Outcomes = {TRUE}

SPECIFICATION Spec

\* The server idles once the clients have issued all their requests.
CHECK_DEADLOCK FALSE

INVARIANT MetaAgreesWhenQuiet
