------------------------------ MODULE MCPendu ------------------------------
(***************************************************************************)
(* Two words of the game, one of them with repeated letters; the lines are *)
(* letters right and wrong, the two words, one of them with characters     *)
(* after it, the commands and the empty line.                              *)
(***************************************************************************)
EXTENDS Pendu

MCChars == {"L", "O", "C", "D", "E", "S", "Z", "q", "w", "m", "o", "t"}

MCWords == { <<"L", "O", "L">>, <<"C", "O", "D", "E">> }

MCLines ==
    { <<c>> : c \in {"L", "O", "C", "D", "E", "Z", "q", "w"} }
        \cup { <<>>, <<"m", "o", "t">>, <<"L", "O", "L">>, <<"C", "O", "D", "E", "S">> }
=============================================================================
