SPECIFICATION FairSpec
CONSTANTS
    RootInEnv = FALSE
    Keys <- MCKeys
    InPlace <- KindsKept
    Batches <- MCBatches
    MaxEdits = 2
    MaxFaults = 1
INVARIANT ProfileTypeOK
INVARIANT SecretUsable
PROPERTY SecretKept
PROPERTY ProfileConverges
PROPERTY ReadySettles
