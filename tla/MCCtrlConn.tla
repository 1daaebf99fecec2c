----------------------------- MODULE MCCtrlConn -----------------------------
(* Model-checking instance of CtrlConn: four peer processes, so that the  *)
(* fourth connection overflows the three data_sock slots, and one        *)
(* registered record.                                                    *)
EXTENDS CtrlConn, TLC

CONSTANTS q1, q2, q3, q4, r1

MCPeers == {q1, q2, q3, q4}
MCRecs == {r1}
MCSymmetry == Permutations(MCPeers)
=============================================================================
