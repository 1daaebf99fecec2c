CONSTANTS
    p1 = p1  p2 = p2  a1 = a1  a2 = a2
    NoPeer = NoPeer
    None = None
    Pids <- MCPids
    Peers <- MCPeers
    ReqAdjs <- MCReqAdjs
    PTypes = {"app"}
    MinScores = {0}
    RssPages = {1}
    Fds = {1, 2}
    MaxGen = 0
    PidfdSupported = FALSE
    PerAppMemcg = TRUE
    KillHeaviest = FALSE
    KillTimeoutSet = TRUE
    ReaperThreads = 0
    EpollOutcomes = {TRUE}
SPECIFICATION Spec
INVARIANTS SlotsMatchHash
PROPERTY RegistryRefined
