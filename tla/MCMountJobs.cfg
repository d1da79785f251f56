SPECIFICATION Spec
CONSTANTS
    Workers = {w1, w2}
    Points = {p1, p2}
    MaxJobs = 4
SYMMETRY Symmetry
INVARIANTS
    NeverUnderReports
    AccurateUnlessOverlapped
