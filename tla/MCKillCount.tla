---------------------------- MODULE MCKillCount ----------------------------
(* Model-checking instance of KillCount: enough kills at score 900 for   *)
(* its uint16_t counter to wrap, one kill at 1000, and the ranges a peer *)
(* may ask for inside -1000..1000, and the total query.                  *)
EXTENDS KillCount

MCKillAdjs == {900, 1000}
MCMaxKillsAt == (900 :> 65537) @@ (1000 :> 1)
MCQueries == {<<900, 999>>, <<900, 900>>, <<901, 1000>>, <<0, 1000>>,
              <<1001, 1001>>, <<950, 900>>}
=============================================================================
