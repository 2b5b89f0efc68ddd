SPECIFICATION Spec
CONSTANTS
    d1 = d1
    d2 = d2
    None = None
    Workloads <- OneWorkload
    TargetNames <- OneTarget
    Data = {d1}
    FluxLabels <- NoLabels
    RegistrationNames <- Registration
    Workspaces <- OneTeam
    Namespace <- East
    Elsewhere <- West
    MaxEdits = 1
    MaxFaults = 0
INVARIANTS RestingTargetsHere
CHECK_DEADLOCK FALSE
