SPECIFICATION FairSpec
CONSTANTS
    Records = {r1, r2}
    PruneAge = 2
    MaxRun = 1
    MaxLag = 1
    SameHourRestart = TRUE
    MaxHour = 3
INVARIANTS
    ShardsSafe
    DamageIsReported
PROPERTIES
    ShardsGetCopied
