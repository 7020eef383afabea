SPECIFICATION FairTelemetrySpec
CONSTANTS
    Workers = {w1, w2}
    Trackers = {d1}
    Hours <- MCHours
    Never = Never
    ChunkSize = 1
    MaxAttempts = 2
    MaxPings = 3
    MaxRuns = 2
INVARIANT BannerBacked
PROPERTY RunEnds
CHECK_DEADLOCK FALSE
