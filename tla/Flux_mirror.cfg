SPECIFICATION Spec
CONSTANTS
    s1 = s1
    s2 = s2
    None = None
    Owners <- EnvironmentAndBase
    Specs = {s1, s2}
    Adversity = {"lag", "down"}
    MaxEdits = 2
    MaxFaults = 1
CONSTRAINT Budget
SYMMETRY SpecSymmetry
INVARIANTS TypeOK RestingOwnerMirrored
CHECK_DEADLOCK FALSE
