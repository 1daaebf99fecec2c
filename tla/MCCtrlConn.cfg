CONSTANTS
    q1 = q1
    q2 = q2
    q3 = q3
    q4 = q4
    r1 = r1
    NoPid = NoPid
    NoSock = NoSock
    NoRec = NoRec
    Peers <- MCPeers
    Recs <- MCRecs
    MAX_DATA_CONN = 3
    BaseEvents = 1
    AcceptOutcomes = {TRUE, FALSE}
    EpollOutcomes = {TRUE}
    CredOutcomes = {TRUE, FALSE}
SPECIFICATION Spec
SYMMETRY MCSymmetry
INVARIANTS KillNotifiesSubscribers MaxeventsAccurate NoClaimsOfGone
