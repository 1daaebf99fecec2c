------------------------------- MODULE MCLmkd -------------------------------
(* Model-checking instance of Lmkd.  Pids and peers are model values;    *)
(* the requested oom_score_adj values are a cached app (900) and an app  *)
(* in the 600..699 band, which per-app memcg records at 200.  Each .cfg  *)
(* picks among these sets and fixes the remaining constants.             *)
EXTENDS Lmkd

CONSTANTS p1, p2, a1, a2

MCPids == {p1, p2}
MCPeers == {a1, a2}
MCOnePeer == {a1}
MCOnePid == {p1}
MCReqAdjs == {650, 900}
MCOneAdj == {650}
MCSymmetry == Permutations(MCPids) \cup Permutations(MCPeers)
=============================================================================
