SPECIFICATION FairSpec
CONSTANTS
    s1 = s1
    s2 = s2
    None = None
    Owners <- EnvironmentAndApp
    Specs = {s1}
    Adversity = {}
    MaxEdits = 2
    MaxFaults = 1
INVARIANTS DeletedOwnerCleaned KustomizationHasRepo
PROPERTIES EventuallyMirrored
CHECK_DEADLOCK FALSE
