SPECIFICATION Spec
CONSTANTS
    Clients = {c1, c2}
    NoClient = NoClient
    Requests <- ControlRequests
PROPERTIES
    AckedCommandIsApplied
