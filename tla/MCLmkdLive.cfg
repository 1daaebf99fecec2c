CONSTANTS
    p1 = p1  p2 = p2  a1 = a1  a2 = a2
    NoPeer = NoPeer
    None = None
    Pids <- MCOnePid
    Peers <- MCOnePeer
    ReqAdjs <- MCOneAdj
    PTypes = {"app"}
    MinScores = {0}
    RssPages = {1}
    Fds = {1, 2}
    MaxGen = 1
    PidfdSupported = TRUE
    PerAppMemcg = TRUE
    KillHeaviest = FALSE
    KillTimeoutSet = FALSE
    ReaperThreads = 1
    EpollOutcomes = {TRUE}
SPECIFICATION PressureSpec
PROPERTY KillUnblocked
