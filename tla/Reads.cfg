SPECIFICATION ReadSpec
CONSTANTS
    Nodes <- MCNodes
    NodeType <- MCNodeType
    Common = Common
    None = None
    Kinds <- WorkloadsOnly
    Claiming <- Historicals
    Specs <- CalmSpecs
    Faulty <- NoHashes
    Rejected <- NoHashes
    NodeOrdered <- NoNodes
    ClusterOrdered = FALSE
    Lagging <- StsLag
    Prompt = FALSE
    Deletions <- CrDeletion
    MaxGen = 2
    MaxLives = 1
    MaxFaults = 1
PROPERTY UpdatesInOrder
PROPERTY ClaimsInOrder
CHECK_DEADLOCK FALSE
