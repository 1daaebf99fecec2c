CONSTANTS
    None = None
    MAX_TARGETS = 6
    PROPERTY_VALUE_MAX = 92
    Commands <- MCCommands
    level_oomadj <- MCLevelOomadj
    kill_timeout_ms = 100
    enable_pressure_upgrade = TRUE
    upgrade_pressure = 60
    downgrade_pressure = 90
    swap_free_low_percentage = 10
    swap_compression_ratio = 1
    MinfreeModes = {TRUE, FALSE}
    LowRamModes = {TRUE, FALSE}
    FreePages = {100, 105, 200}
    Reserves = {0}
    Files <- MCFiles
    Usages <- MCUsages
    Swaps <- MCSwaps
    VictimAdjs = {900}
    KillResults = {"freed", "zero", "failed"}
    ClockOutcomes = {TRUE, FALSE}
    ParseOutcomes = {TRUE, FALSE}
    Advances = {1001}
SPECIFICATION FairSpec
INVARIANT TypeOK
PROPERTY WaitReleased
