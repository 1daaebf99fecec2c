--------------------------- MODULE MCLegacyHandler ---------------------------
(* Model-checking instance of LegacyHandler: two minfree levels and the  *)
(* target lists a client may send (none, one level, two, a reordered     *)
(* one, and one longer than lowmem_adj), readings on both sides of each  *)
(* level, and the default ro.lmk.low/medium/critical scores.             *)
EXTENDS LegacyHandler

T(m, a) == [minfree |-> m, adj |-> a]

MCCommands == {<<>>, <<T(100, 900)>>, <<T(100, 900), T(200, 0)>>, <<T(200, 900)>>,
               [i \in 1..7 |-> T(100, 900)]}
MCLevelOomadj == (VMPRESS_LEVEL_LOW :> 1001) @@ (VMPRESS_LEVEL_MEDIUM :> 800)
                 @@ (VMPRESS_LEVEL_CRITICAL :> 0)
MCFiles == {[file |-> 300, excl |-> 250], [file |-> 300, excl |-> 0]}
MCUsages == {[mem |-> -1, memsw |-> 1], [mem |-> 50, memsw |-> 100],
             [mem |-> 80, memsw |-> 100], [mem |-> 100, memsw |-> 100]}
MCSwaps == {[free |-> 0, easy |-> 0, total |-> 100],
            [free |-> 50, easy |-> 100, total |-> 100]}
=============================================================================
