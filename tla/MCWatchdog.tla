----------------------------- MODULE MCWatchdog -----------------------------
(* Two pids, one reuse each, two descriptors, one score bucket (900) and  *)
(* the empty bucket 0 that ends the sweep.                                *)
EXTENDS Watchdog

CONSTANTS w1, w2

MCPids == {w1, w2}
MCSymmetry == Permutations(MCPids)
=============================================================================
