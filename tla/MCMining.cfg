CONSTANTS
    c1 = c1
    c2 = c2
    o1 = o1
    o2 = o2
    good = good
    bad = bad
    Unsolved = Unsolved
    Callers <- MCCallers
    Options <- MCOptions
    DefaultOptions = o1
    Solutions <- MCSolutions
    ValidSolutions <- MCValidSolutions
    Thresholds = {1}
    MaxHeight = 2
    MaxFees = 1
    MaxTemplates = 2
SYMMETRY Symmetry
SPECIFICATION Spec
INVARIANT TypeOK
INVARIANT WaitNextReturnsNews
INVARIANT NullOnlyWhenInterrupted
PROPERTY ImplementsService
