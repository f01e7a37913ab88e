SPECIFICATION EvaluationSpec
CONSTANTS
    Services = {s1}
    Ratios = {4, 20}
    Limits <- DefaultLimits
    Window = 2
    Attempts = 2
    NaN = NaN
    None = None
INVARIANTS EvaluationTypeOK RunsOnWhatWasListed NoLeak LatencyMeasured
PROPERTIES SharesFromThisRun OnlyLoadRaises StopEndsLoop OnlySilenceBlocks OffloadingEnds
CHECK_DEADLOCK FALSE
