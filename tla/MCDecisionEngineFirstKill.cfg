CONSTANTS
    None = None
    thrashing_limit_pct = 100
    thrashing_limit_decay_pct = 50
    thrashing_critical_pct = 300
    pressure_after_kill_min_score = 0
    lowmem_min_oom_score = 701
    swap_util_max = 100
    direct_reclaim_threshold_ms = 0
    kill_timeout_ms = 100
    filecache_min_pages = 100
    MemeventListener = TRUE
    ZoneinfoSupported = TRUE
    PidfdSupported = TRUE
    RefaultSteps = {0, 150}
    FileLru = {99}
    Advances = {0, 2100}
    VendorMins <- MCVendorMins
    ParseOutcomes = {TRUE, FALSE}
    ZoneOutcomes = {TRUE, FALSE}
    PsiLevels = {0, 2}
    Uptimes = {1500}
    InitRefaults = {0}
    MaxRefault = 300
    MaxAge = 2200
SPECIFICATION Spec
INVARIANT MinScoreAsTable
