------------------------- MODULE MCGauntletScheduler -------------------------
(* Two worker ids; gauntlet 1 with two games, gauntlet 2 with one. *)
EXTENDS GauntletScheduler, TLC

CONSTANTS A, B, g1, g2, g3

TwoGauntlets == {1, 2}
ThreeGames == {g1, g2, g3}
ThreeParents == (g1 :> 1) @@ (g2 :> 1) @@ (g3 :> 2)

OneGauntlet == {1}
TwoGames == {g1, g2}
TwoParents == (g1 :> 1) @@ (g2 :> 1)

Names == Permutations(Workers) \cup Permutations(Games)

==============================================================================
