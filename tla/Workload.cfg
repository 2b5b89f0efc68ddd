SPECIFICATION FairSpec
CONSTANTS
    d1 = d1
    d2 = d2
    None = None
    Workloads <- OneWorkload
    TargetNames <- OneTarget
    Data = {d1, d2}
    FluxLabels <- Labels
    RegistrationNames <- Registration
    Workspaces <- OneTeam
    Namespace <- East
    Elsewhere <- West
    MaxEdits = 2
    MaxFaults = 1
INVARIANTS TypeOK RestingTargetsWritten RestingTargetsListed
PROPERTIES EventuallyWritten ForegroundDeletionCompletes
CHECK_DEADLOCK FALSE
