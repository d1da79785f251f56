CONSTANTS
    part1 = part1
    sub1 = sub1
    sub2 = sub2
    Partitions = {part1}
    Zero = Zero
    Subvols = {sub1, sub2}
    Home <- InP
    Templates <- Rules
    Zeroed = Zeroed
    FirstCount = 1
    MaxRules = 3
SPECIFICATION Spec
INVARIANTS
    RuleInUseIsListed
    ScanMissesNothing
PROPERTIES
    DemotesOnlyOld
    ScanEnds
