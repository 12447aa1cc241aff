SPECIFICATION FairSpec
CONSTANTS
    NAMESPACE = "vault"
    Replicas = 3
    Keys = 3
    Threshold = 2
    MaxFaults = 3
INVARIANT VaultTypeOK
PROPERTY KeysKept
PROPERTY AllPodsServe
 
