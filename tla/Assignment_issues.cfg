SPECIFICATION Spec
CONSTANTS
    web = web
    api = api
    edge = edge
    dev = dev
    argo = argo
    v1 = v1
    v2 = v2
    good = good
    bad = bad
    None = None
    Assignments = {web, api}
    ClusterTypeOf <- EdgeType
    TargetOf <- Targets
    TemplateNames = {argo}
    ClusterTypeSpecs <- OneSpec
    Versions = {v1}
    ConfigVersions = {good, bad}
    ValidConfigs = {good}
    Adversity = {}
    MaxEdits = 2
    MaxFaults = 0
    MaxIssues = 4
INVARIANTS OwnIssue FixedErrorClosesIssue ErrorHasIssue
CHECK_DEADLOCK FALSE
