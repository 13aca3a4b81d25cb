SPECIFICATION FairSpec
CONSTANTS
    Clients = {c1, c2}
    NoClient = NoClient
    RX = 2
    SendRoom = 2
    MaxBytes = 3
INVARIANTS
    TypeOK
    EchoIsFaithful
PROPERTIES
    TicketIsRefreshed
    SessionIsEchoed
