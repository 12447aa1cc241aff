SPECIFICATION SteadySpec
CONSTANTS
    Nodes <- MCNodes
    NodeType <- MCNodeType
    Common = Common
    None = None
    Kinds <- WithServices
    Claiming <- Brokers
    Specs <- ShrinkingSpecs
    Faulty <- NoHashes
    Rejected <- NoHashes
    NodeOrdered <- NoNodes
    ClusterOrdered = FALSE
    Lagging <- StsLag
    Prompt = TRUE
    Deletions <- NoDeletion
    MaxGen = 2
    MaxLives = 1
    MaxFaults = 1
INVARIANT TypeOK
PROPERTY IndispensableStays
PROPERTY Converges
PROPERTY StatusCovers
PROPERTY OrphansReclaimed
