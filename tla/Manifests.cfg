SPECIFICATION FairSpec
CONSTANTS
    Store = Store
    Query = Query
    Gate = Gate
    Nodes <- ThreeNodes
    NodeType <- ThreeTypes
    None = None
    Unset = Unset
    Ports = {8082, 8083, 8888}
    Specs <- AllSpecs
    Content <- Manifests
    Rolling = TRUE
    MaxEdits = 3
    MaxFaults = 2
INVARIANT ProbesHavePorts
INVARIANT OnlyOwnPods
PROPERTY WrittenOnce
PROPERTY SpecArrives
