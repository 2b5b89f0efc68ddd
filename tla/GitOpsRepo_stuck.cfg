SPECIFICATION Spec
CONSTANTS
    policy = policy
    web = web
    api = api
    small = small
    large = large
    v1 = v1
    v2 = v2
    base1 = base1
    base2 = base2
    repo1 = repo1
    repo2 = repo2
    None = None
    Policies = {policy}
    Assignments = {web}
    ClusterTypes = {small, large}
    TypeOf <- OneType
    Versions = {v1, v2}
    BaseSpecs = {base1}
    Repos = {repo1}
    Adversity = {}
    MaxEdits = 3
    MaxFaults = 0
INVARIANTS ReadyToPRLeadsToPR
CHECK_DEADLOCK FALSE
