SPECIFICATION FairSpec
CONSTANTS
    None = None
    Contents <- ThreeContents
    BaseTree <- Start
    Adversity = {}
    MaxSeconds = 7
    MaxEdits = 2
    MaxFaults = 2
INVARIANTS TypeOK PullRequestShowsContent OnePullRequest PromotionLabelled RestingProposed
PROPERTIES EventuallyProposed ImplementsPullRequest
CHECK_DEADLOCK FALSE
