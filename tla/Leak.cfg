SPECIFICATION Spec
CONSTANTS
    Nodes <- MCNodes
    NodeType <- MCNodeType
    Common = Common
    None = None
    Kinds <- WorkloadsOnly
    Claiming <- Historicals
    Specs <- HistoricalSpec
    Faulty <- NoHashes
    Rejected <- NoHashes
    NodeOrdered <- NoNodes
    ClusterOrdered = FALSE
    Lagging <- NoLag
    Prompt = TRUE
    Deletions <- CrDeletion
    MaxGen = 1
    MaxLives = 1
    MaxFaults = 0
INVARIANT NoClaimLeaks
CHECK_DEADLOCK FALSE
