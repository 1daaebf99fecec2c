-------------------------- MODULE MCDecisionEngine --------------------------
(* Refault steps of 0 and 150 pages against a file LRU of 99 pages (a     *)
(* growth of 0 or 150% per read, over the 100% limit, and 300% over the   *)
(* critical 300% after two reads) or of 9 pages (under filecache_min);    *)
(* clock steps inside a window, across one and across two.                *)
EXTENDS DecisionEngine

(* A vendor event with an invalid (negative) min_oom_score_adj, and one  *)
(* that allows killing cached apps only.                                  *)
MCVendorMins == {-1, 900}
=============================================================================
