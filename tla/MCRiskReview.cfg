SPECIFICATION Spec
CONSTANTS
    Tools <- MCTools
    ReadCounts <- MCReads
    RunCounts <- MCRuns
    Outputs <- MCOutputs
INVARIANTS
    ReviewInv
    ReviewOnlyTightens
    SecondMergeChangesNothing
    OnlyQuietReadsRunUnattended
    HardBlocksAreNotApprovable
    HighRiskIsBlocked
