\* Two clients whose storage calls may fail: a CreateLink rolling back a
\* failed PersistLinksMeta deletes by fsPath, and the row it deletes may be
\* one another client has created there since.
CONSTANTS
    a = a
    ab = ab
    c = c
    cl1 = cl1
    cl2 = cl2
    NoPath = NoPath
    Paths <- MCPaths
    Nested <- MCNested
    Requests <- MCRequests
    S3SplitLen = 4
    UniqueFsPath = TRUE
    Clients <- TwoClients
    MaxRequests = 3
    Outcomes = {TRUE, FALSE}

SPECIFICATION Spec

\* The server idles once the clients have issued all their requests.
CHECK_DEADLOCK FALSE

PROPERTY RowRemovedOnlyByItsRequest
