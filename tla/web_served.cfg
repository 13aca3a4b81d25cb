SPECIFICATION FairSpec
CONSTANTS
    Clients = {c1, c2}
    NoClient = NoClient
    Requests <- MixedRequests
INVARIANTS
    TypeOK
    NoLeakedConnection
PROPERTIES
    WholeCommandIsApplied
    EveryClientIsServed
