SPECIFICATION FairSpec
CONSTANTS
    Nodes <- MCNodes
    NodeType <- MCNodeType
    Common = Common
    None = None
    Kinds <- WorkloadsOnly
    Claiming <- Historicals
    Specs <- UnbuildableSpecs
    Faulty <- NoHashes
    Rejected <- UnbuildableBroker
    NodeOrdered <- NoNodes
    ClusterOrdered = FALSE
    Lagging <- CrLag
    Prompt = TRUE
    Deletions <- AnyDeletion
    MaxGen = 1
    MaxLives = 2
    MaxFaults = 1
INVARIANT FinalizerFirst
INVARIANT AdoptsWhatItNames
PROPERTY IndispensableStays
PROPERTY ClaimsAfterSts
PROPERTY DeletionCompletes
PROPERTY Converges
CHECK_DEADLOCK FALSE
