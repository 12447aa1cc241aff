SPECIFICATION FairSpec
CONSTANTS
    Nodes <- MCNodes
    NodeType <- MCNodeType
    Common = Common
    None = None
    Kinds <- WorkloadsOnly
    Claiming <- NoNodes
    Specs <- RollingSpecs
    Faulty <- FaultyHistorical
    Rejected <- NoHashes
    NodeOrdered <- Historicals
    ClusterOrdered = FALSE
    Lagging <- CrLag
    Prompt = TRUE
    Deletions <- NoDeletion
    MaxGen = 3
    MaxLives = 1
    MaxFaults = 1
INVARIANT OneNodeAtATime
PROPERTY RollsOutInOrder
PROPERTY Converges
