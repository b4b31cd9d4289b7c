\* Two clients, reliable storage: concurrent CreateLink requests both pass
\* checkLinkPath before either inserts its row.
CONSTANTS
    a = a
    ab = ab
    c = c
    cl1 = cl1
    cl2 = cl2
    NoPath = NoPath
    Paths <- MCPaths
    Nested <- MCNested
    Requests <- MCRequests
    S3SplitLen = 4
    UniqueFsPath = FALSE
    Clients <- TwoClients
    MaxRequests = 4
    Outcomes = {TRUE}

SPECIFICATION Spec

\* The server idles once the clients have issued all their requests.
CHECK_DEADLOCK FALSE

INVARIANT NoNestedLinks
