SPECIFICATION FairSpec
CONSTANTS
    p1 = p1
    None = None
    Policies = {p1}
    ClusterTypeNames <- TwoTypes
    TargetNames <- OneTarget
    WorkloadNames <- Workloads
    PolicySpecs <- TeamOrInvalid
    ClusterTypeSpecs <- SmallOnly
    TargetSpecs <- HereOrElsewhere
    Namespace <- Dev
    MaxEdits = 2
    MaxFaults = 1
INVARIANTS TypeOK QuiescentConverged
PROPERTIES IdempotentReconcile EventuallyScheduled ForegroundDeletionCompletes
CHECK_DEADLOCK FALSE
