------------------------------ MODULE MCArena ------------------------------
(* A map with a wall at its left border and one at its right, as map1 has,  *)
(* the way between them just wide enough for a player.                      *)
EXTENDS Arena

Box(x, y, X, Y) == <<<<x, y>>, <<X, y>>, <<X, Y>>, <<x, Y>>>>

MCBorder == Box(-4, -7, 5, 8)
MCWalls  == <<Box(-4, -1, -2, 1), Box(4, -1, 5, 0)>>

(* The map is one of those ArenaProofs speaks of.                           *)
ASSUME RoomyMap == Roomy
=============================================================================
