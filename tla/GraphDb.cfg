SPECIFICATION Spec
CONSTANTS
    Documents <- MCDocuments
    Options <- MCOptions
    Clients = {"c1", "c2"}
    Roles <- MCRoles
    Requests <- MCRequests
    LoaderSequences <- MCLoaderSequences
    MaxSequence = 1
    MaxVertexCalls = 1
    MaxWrites = 4
    MaxReads = 1
    MaxBackground = 2
    MaxTotal = 5
CONSTRAINT MCBound
INVARIANT ReadsAreRecent
INVARIANT ReadsFindEveryPut
INVARIANT SequencesAhead
PROPERTY SchemaAsWritten
CHECK_DEADLOCK FALSE
