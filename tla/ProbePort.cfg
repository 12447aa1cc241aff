SPECIFICATION Spec
CONSTANTS
    Store = Store
    Query = Query
    Gate = Gate
    Nodes <- ThreeNodes
    NodeType <- ThreeTypes
    None = None
    Unset = Unset
    Ports = {8082, 8083, 8888}
    Specs <- CommonOnly
    Content <- Manifests
    Rolling = TRUE
    MaxEdits = 0
    MaxFaults = 0
INVARIANT OwnPortProbed
