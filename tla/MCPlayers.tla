----------------------------- MODULE MCPlayers -----------------------------
(***************************************************************************)
(* Two players, one who never played and one with two games, so that a     *)
(* copy can lose one of them; lists and vectors of three.                  *)
(***************************************************************************)
EXTENDS Players, TLC

MCGamesOf == ("mathieu" :> {"Pendu", "Morpion"}) @@ ("kevin" :> {})
=============================================================================
