SPECIFICATION Spec
CONSTANTS
    Documents <- MCDocuments
    Options <- MCOptions
    Clients = {"c1", "c2"}
    Roles <- MCRoles
    Requests <- MCRequests
    LoaderSequences <- MCLoaderSequences
    MaxSequence = 1
    MaxVertexCalls = 1
    MaxWrites = 4
    MaxReads = 1
    MaxBackground = 0
    MaxTotal = 5
CONSTRAINT MCBound
INVARIANT ReaderObservesUpdate
CHECK_DEADLOCK FALSE
