SPECIFICATION CurrentSpec
CONSTANTS
    web = web
    api = api
    edge = edge
    dev = dev
    argo = argo
    v1 = v1
    v2 = v2
    good = good
    bad = bad
    None = None
    Assignments = {web}
    ClusterTypeOf <- EdgeType
    TargetOf <- Targets
    TemplateNames = {argo}
    ClusterTypeSpecs <- OneSpec
    Versions = {v1, v2}
    ConfigVersions = {good, bad}
    ValidConfigs = {good}
    Adversity = {"delete", "status", "github", "restart"}
    MaxEdits = 2
    MaxFaults = 1
    MaxIssues = 5
INVARIANTS TypeOK RestingIsUpToDate
PROPERTIES FollowsProtocol EventuallyUpToDate
CHECK_DEADLOCK FALSE
