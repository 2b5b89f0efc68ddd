SPECIFICATION FairSpec
CONSTANTS
    p1 = p1
    None = None
    Policies = {p1}
    ClusterTypeNames <- DashedTypes
    TargetNames <- DashedTargets
    WorkloadNames <- Workloads
    PolicySpecs <- EveryOnly
    ClusterTypeSpecs <- SmallOnly
    TargetSpecs <- HereOnly
    Namespace <- Dev
    MaxEdits = 0
    MaxFaults = 0
PROPERTIES EventuallyScheduled
CHECK_DEADLOCK FALSE
