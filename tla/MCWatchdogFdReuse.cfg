CONSTANTS
    w1 = w1
    w2 = w2
    None = None
    Pids <- MCPids
    Scores = {0, 900}
    Fds = {1, 2}
    MaxGen = 1
    PidfdSupported = TRUE
SPECIFICATION Spec
SYMMETRY MCSymmetry
INVARIANT WatchdogKillsTarget
