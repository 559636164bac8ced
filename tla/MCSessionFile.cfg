CONSTANTS
    s1 = s1
    s2 = s2
    Savers <- MCSavers
    Blocks = 2
    MaxDocuments = 4
    MaxCrashes = 1
    MaxLoads = 2
SPECIFICATION FileSpec
SYMMETRY SaverSymmetry
INVARIANTS
    SavedSurvives
    LoadIsAtomic
    LoadsWhatWasSaved
CHECK_DEADLOCK FALSE
