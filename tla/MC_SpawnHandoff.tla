--------------------------- MODULE MC_SpawnHandoff ---------------------------
(* Spawn programs for SpawnHandoff.                                          *)
EXTENDS SpawnHandoff, TLC

\* Only main creates threads: main creates 1, then 2.
MC_MainSpawns == 0 :> <<1, 2, 3>>

\* Main creates 1 and then 3; thread 1 creates 2, so two spawns can overlap.
MC_NestedSpawns == (0 :> <<1, 3>>) @@ (1 :> <<2>>)
=============================================================================
